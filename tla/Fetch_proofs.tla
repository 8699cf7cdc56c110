---------------------------- MODULE Fetch_proofs ----------------------------
(***************************************************************************)
(* Invariance proofs for the fetches of module Fetch: every connection and  *)
(* every file in use is counted once, a free slot is offered to its queue   *)
(* before main takes the next event, documents stay before images, no WAIT  *)
(* command waits in vain, and main never uses a fetch that is freed or      *)
(* loses one that is not.                                                   *)
(***************************************************************************)
EXTENDS Fetch, SeqLemmas, FiniteSetTheorems

-----------------------------------------------------------------------------
(* The inductive invariant. *)

LateOps == {"end", "retry", "resume"}

\* These calls are the last of their event.
LateIsLast(q) == \A i \in 1..Len(q) : q[i].op \in LateOps => i = Len(q)

\* The driver of f has ended, and the calls q have not yet said so in flags[f].
Ends(q, f) == \E i \in 1..Len(q) : q[i].op \in {"end", "retry"} /\ q[i].f = f

\* The user asked to retry f, and the calls q still have to close the requester.
Resumes(q, f) == \E i \in 1..Len(q) : q[i].op = "resume" /\ q[i].f = f

In(queue, f) == \E i \in 1..Len(queue) : queue[i] = f

\* A call is about an object that was made, as lf tells.
GoodCall(c, lf) ==
  /\ c \in Call
  /\ c.op \in OfUrl => c.u \in Urls
  /\ c.op \in OfFetch \ {"dispose"} => c.f \in Fetches
  /\ c.f \in Fetches => lf[c.f] # "new"

GoodCalls(q, lf) ==
  /\ q \in Seq(Call) /\ LateIsLast(q)
  /\ \A i \in 1..Len(q) : GoodCall(q[i], lf)

\* What is known of the objects that were made.
Known ==
  /\ GoodCalls(todo, life)
  /\ \A f \in Fetches : life[f] # "new" => url[f] \in Urls
  /\ \A f \in Fetches : life[f] = "new" => flags[f] = {} /\ ~task[f]
  /\ \A u \in Urls : \A f \in Fetches : f \in {fetch[u], rfetch[u], vfetch[u]} => life[f] # "new"

\* A fetch that occupies a slot runs, and gives it back before it stops.
SlotRuns ==
  \A f \in Fetches :
    /\ ~({"NETSLOT", "LOCALSLOT"} \subseteq flags[f])
    /\ "USESLOT" \in flags[f] => "RUNNING" \in flags[f]
    /\ "RUNNING" \in flags[f] => life[f] = "live"
    /\ task[f] => "RUNNING" \in flags[f]
    /\ Ends(todo, f) => "RUNNING" \in flags[f] /\ "USESLOT" \notin flags[f] /\ ~task[f]

\* What waits for a slot or for the user does not run.
WaitsApart ==
  \A f \in Fetches :
    /\ "INCOMPLETE" \in flags[f] =>
         \/ Resumes(todo, f)
         \/ "RUNNING" \notin flags[f] /\ ~In(netqueue, f) /\ ~In(localqueue, f)
    /\ In(netqueue, f) \/ In(localqueue, f) => life[f] = "live" /\ "RUNNING" \notin flags[f]

Distinct(queue) == \A i, j \in 1..Len(queue) : queue[i] = queue[j] => i = j

\* A fetch waits in one place of the queue for its slot.
QueuesApart ==
  /\ \A i \in 1..Len(netqueue) : "NETSLOT" \in flags[netqueue[i]]
  /\ \A i \in 1..Len(localqueue) : "LOCALSLOT" \in flags[localqueue[i]]
  /\ Distinct(netqueue) /\ Distinct(localqueue)

SlotsInv == TypeOK /\ Known /\ SlotRuns /\ WaitsApart /\ QueuesApart /\ SlotsCounted

-----------------------------------------------------------------------------
(* The calls main has to make. *)

\* Calls that may be made before those that are left.
PlainCalls(q, lf) ==
  /\ q \in Seq(Call)
  /\ \A i \in 1..Len(q) : GoodCall(q[i], lf) /\ q[i].op \notin LateOps

TagSets == (SUBSET Tags) \cup {{"history"}, {"reload"}}

\* A call about a fetch that was made is a good one.
LEMMA CallFIn ==
  ASSUME NEW lf, NEW op \in OfFetch \cup OfQueues, NEW f \in Fetches \cup {NoFetch},
         NEW tags \in TagSets,
         op \notin {"dispose"} \cup OfQueues => f \in Fetches,
         f \in Fetches => lf[f] # "new"
  PROVE  /\ GoodCall(CallF(op, f, tags), lf)
         /\ CallF(op, f, tags).op = op /\ CallF(op, f, tags).f = f
<1>1. CallF(op, f, tags) \in Call
  BY DEF CallF, Call, TagSets
<1>2. op \notin OfUrl
  BY DEF OfFetch, OfQueues, OfUrl
<1>3. op \in OfFetch \ {"dispose"} => f \in Fetches
  BY DEF OfFetch, OfQueues
<1>. QED  BY <1>1, <1>2, <1>3 DEF CallF, GoodCall

\* A call about a url is a good one.
LEMMA CallUIn ==
  ASSUME NEW lf, NEW op \in OfUrl, NEW u \in Urls, NEW tags \in TagSets
  PROVE  GoodCall(CallU(op, u, tags), lf) /\ CallU(op, u, tags).op = op
<1>1. CallU(op, u, tags) \in Call
  BY DEF CallU, Call, TagSets
<1>2. op \notin OfFetch
  BY DEF OfFetch, OfUrl
<1>3. NoFetch \notin Fetches
  BY FetchAssumption
<1>. QED  BY <1>1, <1>2, <1>3 DEF CallU, GoodCall

\* One to four good calls that are not late, and their concatenations, are
\* plain calls.
LEMMA PlainNone == ASSUME NEW lf PROVE PlainCalls(<<>>, lf)
BY DEF PlainCalls

LEMMA PlainOne ==
  ASSUME NEW lf, NEW c, GoodCall(c, lf), c.op \notin LateOps
  PROVE  PlainCalls(<<c>>, lf)
<1>1. c \in Call
  BY DEF GoodCall
<1>. DEFINE S == Call
<1>. HIDE DEF S
<1>2. <<c>> \in Seq(S) /\ Len(<<c>>) = 1 /\ <<c>>[1] = c
  BY <1>1 DEF S
<1>. QED  BY <1>2 DEF PlainCalls, S

LEMMA PlainTwo ==
  ASSUME NEW lf, NEW c, GoodCall(c, lf), c.op \notin LateOps,
         NEW d, GoodCall(d, lf), d.op \notin LateOps
  PROVE  PlainCalls(<<c, d>>, lf)
<1>1. c \in Call /\ d \in Call
  BY DEF GoodCall
<1>. DEFINE S == Call
<1>. HIDE DEF S
<1>2. <<c, d>> \in Seq(S) /\ Len(<<c, d>>) = 2 /\ <<c, d>>[1] = c /\ <<c, d>>[2] = d
  BY <1>1 DEF S
<1>3. ASSUME NEW i \in 1..2 PROVE i = 1 \/ i = 2
  OBVIOUS
<1>. QED  BY <1>2, <1>3 DEF PlainCalls, S

LEMMA PlainThree ==
  ASSUME NEW lf, NEW c, GoodCall(c, lf), c.op \notin LateOps,
         NEW d, GoodCall(d, lf), d.op \notin LateOps,
         NEW e, GoodCall(e, lf), e.op \notin LateOps
  PROVE  PlainCalls(<<c, d, e>>, lf)
<1>. DEFINE S == Call
            q == <<c, d, e>>
<1>1. c \in S /\ d \in S /\ e \in S
  BY DEF GoodCall
<1>. HIDE DEF S
<1>2. q \in Seq(S) /\ Len(q) = 3 /\ q[1] = c /\ q[2] = d /\ q[3] = e
  BY <1>1
<1>. HIDE DEF q
<1>3. \A i \in 1..3 : i = 1 \/ i = 2 \/ i = 3
  OBVIOUS
<1>4. PlainCalls(q, lf)
  BY <1>2, <1>3 DEF PlainCalls, S
<1>. QED  BY <1>4 DEF q

LEMMA PlainFour ==
  ASSUME NEW lf, NEW c, GoodCall(c, lf), c.op \notin LateOps,
         NEW d, GoodCall(d, lf), d.op \notin LateOps,
         NEW e, GoodCall(e, lf), e.op \notin LateOps,
         NEW g, GoodCall(g, lf), g.op \notin LateOps
  PROVE  PlainCalls(<<c, d, e, g>>, lf)
<1>. DEFINE S == Call
            q == <<c, d, e, g>>
<1>1. c \in S /\ d \in S /\ e \in S /\ g \in S
  BY DEF GoodCall
<1>. HIDE DEF S
<1>2. q \in Seq(S) /\ Len(q) = 4 /\ q[1] = c /\ q[2] = d /\ q[3] = e /\ q[4] = g
  BY <1>1
<1>. HIDE DEF q
<1>3. \A i \in 1..4 : i = 1 \/ i = 2 \/ i = 3 \/ i = 4
  OBVIOUS
<1>4. PlainCalls(q, lf)
  BY <1>2, <1>3 DEF PlainCalls, S
<1>. QED  BY <1>4 DEF q

LEMMA PlainConcat ==
  ASSUME NEW lf, NEW p, PlainCalls(p, lf), NEW q, PlainCalls(q, lf)
  PROVE  PlainCalls(p \o q, lf)
<1>. DEFINE S == Call
<1>. HIDE DEF S
<1>1. p \in Seq(S) /\ q \in Seq(S)
  BY DEF PlainCalls, S
<1>2. /\ p \o q \in Seq(S) /\ Len(p \o q) = Len(p) + Len(q)
      /\ \A i \in 1..Len(p) : (p \o q)[i] = p[i]
      /\ \A i \in 1..Len(q) : (p \o q)[Len(p) + i] = q[i]
  BY <1>1, ConcatFacts
<1>3. Len(p) \in Nat /\ Len(q) \in Nat
  BY <1>1
<1>4. ASSUME NEW i \in 1..Len(p \o q)
      PROVE  \/ i \in 1..Len(p)
             \/ i - Len(p) \in 1..Len(q) /\ (p \o q)[i] = q[i - Len(p)]
  <2>1. CASE i <= Len(p)
    BY <2>1, <1>3
  <2>2. CASE ~(i <= Len(p))
    <3>1. i - Len(p) \in 1..Len(q) /\ Len(p) + (i - Len(p)) = i
      BY <2>2, <1>2, <1>3
    <3>. QED  BY <3>1, <1>2
  <2>. QED  BY <2>1, <2>2
<1>5. ASSUME NEW i \in 1..Len(p \o q)
      PROVE  GoodCall((p \o q)[i], lf) /\ (p \o q)[i].op \notin LateOps
  BY <1>2, <1>4 DEF PlainCalls
<1>. QED  BY <1>2, <1>5 DEF PlainCalls, S

\* The calls that are left after the first, behind those it makes.
LEMMA TailFacts ==
  ASSUME NEW S, NEW q \in Seq(S), q # <<>>, NEW c \in Seq(S)
  PROVE  /\ Len(q) \in Nat \ {0} /\ Len(c) \in Nat /\ Head(q) = q[1] /\ Head(q) \in S
         /\ c \o Tail(q) \in Seq(S)
         /\ Len(c \o Tail(q)) = Len(c) + Len(q) - 1
         /\ \A i \in 1..Len(c) : (c \o Tail(q))[i] = c[i]
         /\ \A j \in 2..Len(q) : (c \o Tail(q))[Len(c) + j - 1] = q[j]
<1>. DEFINE t == Tail(q)
<1>1. Len(q) \in Nat \ {0} /\ Len(c) \in Nat /\ Head(q) = q[1]
  BY EmptySeq
<1>2. Head(q) \in S
  BY <1>1, ElementOfSeq
<1>3. t \in Seq(S) /\ Len(t) = Len(q) - 1 /\ \A i \in 1..(Len(q) - 1) : t[i] = q[i + 1]
  BY <1>1
<1>. HIDE DEF t
<1>4. /\ c \o t \in Seq(S)
      /\ Len(c \o t) = Len(c) + Len(t)
      /\ \A i \in 1..Len(c) : (c \o t)[i] = c[i]
      /\ \A i \in 1..Len(t) : (c \o t)[Len(c) + i] = t[i]
  <2>1. c \in Seq(S) /\ t \in Seq(S)
    BY <1>3
  <2>. QED  BY <2>1, ConcatFacts
<1>5. ASSUME NEW j \in 2..Len(q) PROVE (c \o t)[Len(c) + j - 1] = q[j]
  <2>1. j - 1 \in 1..Len(t) /\ Len(c) + (j - 1) = Len(c) + j - 1 /\ (j - 1) + 1 = j
    BY <1>1, <1>3
  <2>2. (c \o t)[Len(c) + (j - 1)] = t[j - 1]
    BY <1>4, <2>1
  <2>3. t[j - 1] = q[(j - 1) + 1]
    BY <1>3, <2>1
  <2>. QED  BY <2>1, <2>2, <2>3
<1>. QED  BY <1>1, <1>2, <1>3, <1>4, <1>5 DEF t

\* The call that was made is not a late one, nor are those it makes.
LEMMA EarlyCall ==
  ASSUME NEW lf, NEW lg, NEW q, GoodCalls(q, lf), q # <<>>, Head(q).op \notin LateOps,
         NEW c, PlainCalls(c, lg),
         \A f \in Fetches : lf[f] # "new" => lg[f] # "new"
  PROVE  /\ GoodCalls(c \o Tail(q), lg)
         /\ \A f : Ends(c \o Tail(q), f) <=> Ends(q, f)
         /\ \A f : Resumes(c \o Tail(q), f) <=> Resumes(q, f)
<1>. DEFINE S == Call
            r == c \o Tail(q)
<1>. HIDE DEF S
<1>1. q \in Seq(S) /\ c \in Seq(S)
  BY DEF S, GoodCalls, PlainCalls
<1>2. /\ Len(q) \in Nat \ {0} /\ Len(c) \in Nat /\ Head(q) = q[1]
      /\ r \in Seq(S) /\ Len(r) = Len(c) + Len(q) - 1
      /\ \A i \in 1..Len(c) : r[i] = c[i]
      /\ \A j \in 2..Len(q) : r[Len(c) + j - 1] = q[j]
  BY <1>1, TailFacts
<1>. HIDE DEF r
<1>3. ASSUME NEW i \in 1..Len(r)
      PROVE  \/ i \in 1..Len(c) /\ r[i] = c[i]
             \/ \E j \in 2..Len(q) : i = Len(c) + j - 1 /\ r[i] = q[j]
  <2>1. CASE i <= Len(c)
    BY <1>2, <2>1
  <2>2. CASE ~(i <= Len(c))
    <3>. DEFINE j == i - Len(c) + 1
    <3>1. j \in 2..Len(q) /\ i = Len(c) + j - 1
      BY <1>2, <2>2
    <3>. HIDE DEF j
    <3>2. r[Len(c) + j - 1] = q[j]
      BY <1>2, <3>1
    <3>. QED  BY <3>1, <3>2
  <2>. QED  BY <2>1, <2>2
<1>4. ASSUME NEW j \in 1..Len(q), q[j].op \in LateOps
      PROVE  j \in 2..Len(q) /\ Len(c) + j - 1 \in 1..Len(r)
  BY <1>2, <1>4
<1>5. \A i \in 1..Len(r) : GoodCall(r[i], lg)
  <2>. SUFFICES ASSUME NEW i \in 1..Len(r) PROVE GoodCall(r[i], lg)
    OBVIOUS
  <2>1. ASSUME NEW j \in 2..Len(q) PROVE GoodCall(q[j], lg)
    <3>1. j \in 1..Len(q)
      BY <1>2
    <3>. QED  BY <3>1 DEF GoodCall, GoodCalls
  <2>. QED  BY <1>3, <2>1 DEF PlainCalls
<1>6. LateIsLast(r)
  <2>. SUFFICES ASSUME NEW i \in 1..Len(r), r[i].op \in LateOps PROVE i = Len(r)
    BY DEF LateIsLast
  <2>1. PICK j \in 2..Len(q) : i = Len(c) + j - 1 /\ r[i] = q[j]
    BY <1>3 DEF PlainCalls
  <2>2. j \in 1..Len(q)
    BY <1>2
  <2>3. j = Len(q)
    BY <2>1, <2>2 DEF GoodCalls, LateIsLast
  <2>. QED  BY <2>1, <2>3, <1>2
<1>7. ASSUME NEW f, NEW ops \in SUBSET LateOps
      PROVE  (\E i \in 1..Len(r) : r[i].op \in ops /\ r[i].f = f)
             <=> (\E i \in 1..Len(q) : q[i].op \in ops /\ q[i].f = f)
  <2>1. ASSUME NEW i \in 1..Len(r), r[i].op \in ops, r[i].f = f
        PROVE  \E j \in 1..Len(q) : q[j].op \in ops /\ q[j].f = f
    <3>1. PICK j \in 2..Len(q) : i = Len(c) + j - 1 /\ r[i] = q[j]
      BY <2>1, <1>3 DEF PlainCalls
    <3>2. j \in 1..Len(q)
      BY <1>2
    <3>. QED  BY <2>1, <3>1, <3>2
  <2>2. ASSUME NEW j \in 1..Len(q), q[j].op \in ops, q[j].f = f
        PROVE  \E i \in 1..Len(r) : r[i].op \in ops /\ r[i].f = f
    BY <2>2, <1>2, <1>4
  <2>. QED  BY <2>1, <2>2
<1>8. /\ \A f : Ends(r, f) <=> Ends(q, f)
      /\ \A f : Resumes(r, f) <=> Resumes(q, f)
  <2>1. {"end", "retry"} \in SUBSET LateOps /\ {"resume"} \in SUBSET LateOps
    BY DEF LateOps
  <2>2. \A f : Ends(r, f) <=> Ends(q, f)
    BY <1>7, <2>1 DEF Ends
  <2>3. ASSUME NEW f PROVE Resumes(r, f) <=> Resumes(q, f)
    <3>1. (\E i \in 1..Len(r) : r[i].op \in {"resume"} /\ r[i].f = f)
          <=> (\E i \in 1..Len(q) : q[i].op \in {"resume"} /\ q[i].f = f)
      BY <1>7, <2>1
    <3>. QED  BY <3>1 DEF Resumes
  <2>. QED  BY <2>2, <2>3
<1>. QED  BY <1>2, <1>5, <1>6, <1>8 DEF GoodCalls, S, r

\* Plain calls: none of them is late.
LEMMA PlainFacts ==
  ASSUME NEW lf, NEW c, PlainCalls(c, lf)
  PROVE  GoodCalls(c, lf) /\ \A f : ~Ends(c, f) /\ ~Resumes(c, f)
BY DEF PlainCalls, GoodCalls, LateIsLast, Ends, Resumes, LateOps

\* After a late call there are only the calls it makes.
LEMMA LateCall ==
  ASSUME NEW lf, NEW q, GoodCalls(q, lf), q # <<>>, Head(q).op \in LateOps,
         NEW c, NEW lg, PlainCalls(c, lg)
  PROVE  /\ GoodCalls(c \o Tail(q), lg)
         /\ \A f : ~Ends(c \o Tail(q), f) /\ ~Resumes(c \o Tail(q), f)
         /\ \A f : Ends(q, f) <=> Head(q).op \in {"end", "retry"} /\ Head(q).f = f
         /\ \A f : Resumes(q, f) <=> Head(q).op = "resume" /\ Head(q).f = f
<1>. DEFINE S == Call
<1>. HIDE DEF S
<1>1. q \in Seq(S) /\ c \in Seq(S)
  BY DEF S, GoodCalls, PlainCalls
<1>2. Len(q) \in Nat \ {0} /\ Head(q) = q[1]
  BY <1>1, TailFacts
<1>3. Len(q) = 1
  <2>1. 1 \in 1..Len(q) /\ q[1].op \in LateOps
    BY <1>2
  <2>2. \A i \in 1..Len(q) : q[i].op \in LateOps => i = Len(q)
    BY DEF GoodCalls, LateIsLast
  <2>. QED  BY <2>1, <2>2
<1>4. c \o Tail(q) = c
  <2>. DEFINE t == Tail(q)
  <2>1. t \in Seq(S) /\ Len(t) = 0
    BY <1>1, <1>3
  <2>. HIDE DEF t
  <2>2. t = <<>>
    BY <2>1, EmptySeq
  <2>3. c \o t = c
    BY <1>1, <2>2, ConcatEmptySeq
  <2>. QED  BY <2>3 DEF t
<1>5. /\ GoodCalls(c \o Tail(q), lg)
      /\ \A f : ~Ends(c \o Tail(q), f) /\ ~Resumes(c \o Tail(q), f)
  BY <1>4, PlainFacts
<1>6. \A i : i \in 1..Len(q) <=> i = 1
  BY <1>3
<1>7. \A f : Ends(q, f) <=> Head(q).op \in {"end", "retry"} /\ Head(q).f = f
  BY <1>2, <1>6 DEF Ends
<1>8. \A f : Resumes(q, f) <=> Head(q).op = "resume" /\ Head(q).f = f
  BY <1>2, <1>6 DEF Resumes
<1>. QED  BY <1>5, <1>7, <1>8

\* Calls that end with a late one.
LEMMA LateOne ==
  ASSUME NEW lf, NEW d, GoodCall(d, lf), d.op \in LateOps
  PROVE  /\ GoodCalls(<<d>>, lf)
         /\ \A f : Ends(<<d>>, f) <=> d.op \in {"end", "retry"} /\ d.f = f
         /\ \A f : Resumes(<<d>>, f) <=> d.op = "resume" /\ d.f = f
<1>. DEFINE S == Call
            q == <<d>>
<1>1. d \in S
  BY DEF GoodCall
<1>. HIDE DEF S
<1>2. q \in Seq(S) /\ Len(q) = 1 /\ q[1] = d
  BY <1>1
<1>. HIDE DEF q
<1>3. \A i : i \in 1..Len(q) <=> i = 1
  BY <1>2
<1>4. GoodCalls(q, lf)
  BY <1>2, <1>3 DEF GoodCalls, LateIsLast, S
<1>5. \A f : Ends(q, f) <=> d.op \in {"end", "retry"} /\ d.f = f
  BY <1>2, <1>3 DEF Ends
<1>6. \A f : Resumes(q, f) <=> d.op = "resume" /\ d.f = f
  BY <1>2, <1>3 DEF Resumes
<1>. QED  BY <1>4, <1>5, <1>6 DEF q

\* The same with a plain call before the late one.
LEMMA LateTwo ==
  ASSUME NEW lf, NEW c, GoodCall(c, lf), c.op \notin LateOps,
         NEW d, GoodCall(d, lf), d.op \in LateOps
  PROVE  /\ GoodCalls(<<c, d>>, lf)
         /\ \A f : Ends(<<c, d>>, f) <=> d.op \in {"end", "retry"} /\ d.f = f
         /\ \A f : Resumes(<<c, d>>, f) <=> d.op = "resume" /\ d.f = f
<1>. DEFINE S == Call
            q == <<c, d>>
<1>1. c \in S /\ d \in S
  BY DEF GoodCall
<1>. HIDE DEF S
<1>2. q \in Seq(S) /\ Len(q) = 2 /\ q[1] = c /\ q[2] = d
  BY <1>1
<1>. HIDE DEF q
<1>3. \A i : i \in 1..Len(q) <=> i = 1 \/ i = 2
  BY <1>2
<1>4. GoodCalls(q, lf)
  <2>1. \A i \in 1..Len(q) : GoodCall(q[i], lf)
    BY <1>2, <1>3
  <2>2. LateIsLast(q)
    BY <1>2, <1>3 DEF LateIsLast
  <2>. QED  BY <1>2, <2>1, <2>2 DEF GoodCalls, S
<1>5. c.op \notin {"end", "retry"} /\ c.op # "resume"
  BY DEF LateOps
<1>6. \A f : Ends(q, f) <=> d.op \in {"end", "retry"} /\ d.f = f
  BY <1>2, <1>3, <1>5 DEF Ends
<1>7. \A f : Resumes(q, f) <=> d.op = "resume" /\ d.f = f
  BY <1>2, <1>3, <1>5 DEF Resumes
<1>. QED  BY <1>4, <1>6, <1>7 DEF q

\* Plain calls before others do not end or resume a fetch.
LEMMA PlainThenLate ==
  ASSUME NEW lf, NEW c, PlainCalls(c, lf), NEW q, GoodCalls(q, lf)
  PROVE  /\ GoodCalls(c \o q, lf)
         /\ \A f : Ends(c \o q, f) <=> Ends(q, f)
         /\ \A f : Resumes(c \o q, f) <=> Resumes(q, f)
<1>. DEFINE S == Call
            r == c \o q
<1>. HIDE DEF S
<1>1. q \in Seq(S) /\ c \in Seq(S)
  BY DEF S, GoodCalls, PlainCalls
<1>2. /\ r \in Seq(S) /\ Len(r) = Len(c) + Len(q)
      /\ \A i \in 1..Len(c) : r[i] = c[i]
      /\ \A i \in 1..Len(q) : r[Len(c) + i] = q[i]
  BY <1>1, ConcatFacts
<1>3. Len(c) \in Nat /\ Len(q) \in Nat
  BY <1>1
<1>. HIDE DEF r
<1>4. ASSUME NEW i \in 1..Len(r)
      PROVE  \/ i \in 1..Len(c) /\ r[i] = c[i]
             \/ \E j \in 1..Len(q) : i = Len(c) + j /\ r[i] = q[j]
  <2>1. CASE i <= Len(c)
    BY <2>1, <1>2, <1>3
  <2>2. CASE ~(i <= Len(c))
    <3>1. i - Len(c) \in 1..Len(q) /\ i = Len(c) + (i - Len(c))
      BY <2>2, <1>2, <1>3
    <3>. QED  BY <3>1, <1>2
  <2>. QED  BY <2>1, <2>2
<1>5. \A j \in 1..Len(q) : Len(c) + j \in 1..Len(r)
  BY <1>2, <1>3
<1>6. \A i \in 1..Len(r) : GoodCall(r[i], lf)
  BY <1>4 DEF PlainCalls, GoodCalls
<1>7. LateIsLast(r)
  <2>. SUFFICES ASSUME NEW i \in 1..Len(r), r[i].op \in LateOps PROVE i = Len(r)
    BY DEF LateIsLast
  <2>1. PICK j \in 1..Len(q) : i = Len(c) + j /\ r[i] = q[j]
    BY <1>4 DEF PlainCalls
  <2>2. j = Len(q)
    BY <2>1 DEF GoodCalls, LateIsLast
  <2>. QED  BY <2>1, <2>2, <1>2
<1>8. ASSUME NEW f, NEW ops \in SUBSET LateOps
      PROVE  (\E i \in 1..Len(r) : r[i].op \in ops /\ r[i].f = f)
             <=> (\E i \in 1..Len(q) : q[i].op \in ops /\ q[i].f = f)
  <2>1. ASSUME NEW i \in 1..Len(r), r[i].op \in ops, r[i].f = f
        PROVE  \E j \in 1..Len(q) : q[j].op \in ops /\ q[j].f = f
    BY <2>1, <1>4 DEF PlainCalls
  <2>2. ASSUME NEW j \in 1..Len(q), q[j].op \in ops, q[j].f = f
        PROVE  \E i \in 1..Len(r) : r[i].op \in ops /\ r[i].f = f
    BY <2>2, <1>2, <1>5
  <2>. QED  BY <2>1, <2>2
<1>9. {"end", "retry"} \in SUBSET LateOps /\ {"resume"} \in SUBSET LateOps
  BY DEF LateOps
<1>10. \A f : Ends(r, f) <=> Ends(q, f)
  BY <1>8, <1>9 DEF Ends
<1>11. ASSUME NEW f PROVE Resumes(r, f) <=> Resumes(q, f)
  <2>1. (\E i \in 1..Len(r) : r[i].op \in {"resume"} /\ r[i].f = f)
        <=> (\E i \in 1..Len(q) : q[i].op \in {"resume"} /\ q[i].f = f)
    BY <1>8, <1>9
  <2>. QED  BY <2>1 DEF Resumes
<1>. QED  BY <1>2, <1>6, <1>7, <1>10, <1>11 DEF GoodCalls, S, r

-----------------------------------------------------------------------------
(* Steps, by what they change. *)

\* The url side of a step keeps its types, and knows only what was made.
UrlsGood ==
  /\ fetch' \in [Urls -> Fetches \cup {NoFetch}]
  /\ rfetch' \in [Urls -> Fetches \cup {NoFetch}]
  /\ vfetch' \in [Urls -> Fetches \cup {NoFetch}]
  /\ movedto' \in [Urls -> Urls \cup {NoUrl}]
  /\ waitrequests' \subseteq Urls \cup {NoUrl}
  /\ \A u \in Urls : \A f \in Fetches :
        f \in {fetch'[u], rfetch'[u], vfetch'[u]} => life'[f] # "new"

\* No fetch starts, ends, waits or is freed.
Quiet ==
  /\ GoodCalls(todo', life)
  /\ \A f \in Fetches : Ends(todo', f) => Ends(todo, f)
  /\ flags' \in [Fetches -> SUBSET Flags]
  /\ \A f \in Fetches :
       /\ \A c \in {"RUNNING", "USESLOT", "NETSLOT", "LOCALSLOT"} :
             c \in flags'[f] <=> c \in flags[f]
       /\ "INCOMPLETE" \in flags'[f] =>
             "INCOMPLETE" \in flags[f] /\ (Resumes(todo, f) => Resumes(todo', f))
       /\ life[f] = "new" => flags'[f] = {}
  /\ stop' \in [Fetches -> BOOLEAN]
  /\ UNCHANGED <<life, url, task, queueVars>>

\* Only f starts, ends, waits or is freed, and its flags become fs.
OneFetch(f, fs) ==
  /\ flags' = [flags EXCEPT ![f] = fs]
  /\ life' \in [Fetches -> {"new", "live", "freed"}]
  /\ url' \in [Fetches -> Urls \cup {NoUrl}]
  /\ task' \in [Fetches -> BOOLEAN] /\ stop' \in [Fetches -> BOOLEAN]
  /\ \A g \in Fetches \ {f} :
        life'[g] = life[g] /\ url'[g] = url[g] /\ task'[g] = task[g]
  /\ life'[f] # "new" /\ url'[f] \in Urls

CallsOf(f, fs) ==
  /\ GoodCalls(todo', life')
  /\ \A g \in Fetches \ {f} :
       (Ends(todo', g) => Ends(todo, g)) /\ (Resumes(todo, g) => Resumes(todo', g))
  /\ Ends(todo', f) => "RUNNING" \in fs /\ "USESLOT" \notin fs /\ ~task'[f]

FlagsOf(f, fs) ==
  /\ ~({"NETSLOT", "LOCALSLOT"} \subseteq fs)
  /\ "USESLOT" \in fs => "RUNNING" \in fs
  /\ "RUNNING" \in fs => life'[f] = "live"
  /\ task'[f] => "RUNNING" \in fs
  /\ "INCOMPLETE" \in fs =>
       Resumes(todo', f) \/ ("RUNNING" \notin fs /\ ~In(netqueue', f) /\ ~In(localqueue', f))
  /\ In(netqueue', f) \/ In(localqueue', f) => life'[f] = "live" /\ "RUNNING" \notin fs

\* A queue q becomes r, of which only f may be new.
QueueOf(q, r, f, fs, slot) ==
  /\ r \in Seq(Fetches) /\ Distinct(r)
  /\ \A g \in Fetches \ {f} : In(r, g) => In(q, g)
  /\ In(r, f) => slot \in fs

Occupies(fs, slot) == IF {"USESLOT", slot} \subseteq fs THEN 1 ELSE 0

CountOf(f, fs) ==
  /\ nrnet' = nrnet - Occupies(flags[f], "NETSLOT") + Occupies(fs, "NETSLOT")
  /\ nrlocal' = nrlocal - Occupies(flags[f], "LOCALSLOT") + Occupies(fs, "LOCALSLOT")
  /\ nrnet' <= Maxconnect /\ nrlocal' <= Maxdiskread

\* A quiet step keeps the invariant.
LEMMA QuietStep ==
  ASSUME SlotsInv, Quiet, UrlsGood
  PROVE  SlotsInv'
<1>. USE DEF SlotsInv
<1>1. /\ life' = life /\ url' = url /\ task' = task
      /\ netqueue' = netqueue /\ localqueue' = localqueue
      /\ nrnet' = nrnet /\ nrlocal' = nrlocal
  BY DEF Quiet, queueVars
<1>2. TypeOK'
  <2>1. todo' \in Seq(Call)
    BY DEF Quiet, GoodCalls
  <2>. QED  BY <1>1, <2>1 DEF TypeOK, Quiet, UrlsGood
<1>3. Known'
  <2>1. GoodCalls(todo', life')
    BY <1>1 DEF Quiet
  <2>. QED  BY <1>1, <2>1 DEF Known, Quiet, UrlsGood
<1>4. SlotRuns'
  BY <1>1 DEF SlotRuns, Quiet
<1>5. WaitsApart'
  BY <1>1 DEF WaitsApart, Quiet
<1>6. QueuesApart'
  <2>1. ASSUME NEW i \in 1..Len(netqueue) PROVE "NETSLOT" \in flags'[netqueue[i]]
    <3>1. netqueue[i] \in Fetches
      BY ElementOfSeq DEF TypeOK
    <3>. QED  BY <3>1 DEF Quiet, QueuesApart
  <2>2. ASSUME NEW i \in 1..Len(localqueue) PROVE "LOCALSLOT" \in flags'[localqueue[i]]
    <3>1. localqueue[i] \in Fetches
      BY ElementOfSeq DEF TypeOK
    <3>. QED  BY <3>1 DEF Quiet, QueuesApart
  <2>. QED  BY <1>1, <2>1, <2>2 DEF QueuesApart
<1>7. SlotsCounted'
  <2>1. Occupying("NETSLOT")' = Occupying("NETSLOT")
    BY DEF Occupying, Quiet
  <2>2. Occupying("LOCALSLOT")' = Occupying("LOCALSLOT")
    BY DEF Occupying, Quiet
  <2>. QED  BY <1>1, <2>1, <2>2 DEF SlotsCounted
<1>. QED  BY <1>2, <1>3, <1>4, <1>5, <1>6, <1>7

\* An element counts once.
LEMMA CardinalityWithout ==
  ASSUME NEW A, IsFiniteSet(A), NEW x
  PROVE  Cardinality(A) = Cardinality(A \ {x}) + IF x \in A THEN 1 ELSE 0
<1>1. Cardinality(A) \in Nat
  BY FS_CardinalityType
<1>2. CASE x \in A
  <2>1. Cardinality(A \ {x}) = Cardinality(A) - 1
    BY <1>2, FS_RemoveElement
  <2>. QED  BY <1>1, <1>2, <2>1
<1>3. CASE x \notin A
  <2>1. A \ {x} = A
    BY <1>3
  <2>2. Cardinality(A \ {x}) = Cardinality(A)
    BY <2>1
  <2>. QED  BY <1>1, <1>3, <2>2
<1>. QED  BY <1>2, <1>3

\* Those that occupy a slot of this kind, by the flags fl.
Occ(fl, slot) == {h \in Fetches : {"USESLOT", slot} \subseteq fl[h]}

\* The counter of a slot follows the fetches that occupy it.
LEMMA CountFacts ==
  ASSUME NEW fl \in [Fetches -> SUBSET Flags], NEW f \in Fetches,
         NEW fs \in SUBSET Flags, NEW slot
  PROVE  /\ Cardinality(Occ(fl, slot)) \in Nat
         /\ Cardinality(Occ([fl EXCEPT ![f] = fs], slot))
              = Cardinality(Occ(fl, slot)) - Occupies(fl[f], slot) + Occupies(fs, slot)
         /\ Occupies(fl[f], slot) <= Cardinality(Occ(fl, slot))
<1>. DEFINE A == Occ(fl, slot)
            B == Occ([fl EXCEPT ![f] = fs], slot)
<1>1. IsFiniteSet(Fetches)
  BY FetchAssumption
<1>2. IsFiniteSet(A) /\ IsFiniteSet(A \ {f}) /\ IsFiniteSet(B)
  <2>1. A \subseteq Fetches /\ A \ {f} \subseteq Fetches /\ B \subseteq Fetches
    BY DEF Occ
  <2>. QED  BY <1>1, <2>1, FS_Subset
<1>3. /\ f \in A <=> {"USESLOT", slot} \subseteq fl[f]
      /\ f \in B <=> {"USESLOT", slot} \subseteq fs
      /\ B \ {f} = A \ {f}
  BY DEF Occ
<1>. HIDE DEF A, B
<1>4. Cardinality(A) \in Nat /\ Cardinality(B) \in Nat /\ Cardinality(A \ {f}) \in Nat
  BY <1>2, FS_CardinalityType
<1>5. Cardinality(A) = Cardinality(A \ {f}) + Occupies(fl[f], slot)
  <2>1. Occupies(fl[f], slot) = IF f \in A THEN 1 ELSE 0
    BY <1>3 DEF Occupies
  <2>. QED  BY <2>1, <1>2, CardinalityWithout
<1>6. Cardinality(B) = Cardinality(A \ {f}) + Occupies(fs, slot)
  <2>1. Occupies(fs, slot) = IF f \in B THEN 1 ELSE 0
    BY <1>3 DEF Occupies
  <2>2. Cardinality(B) = Cardinality(B \ {f}) + Occupies(fs, slot)
    BY <2>1, <1>2, CardinalityWithout
  <2>. QED  BY <2>2, <1>3
<1>7. Occupies(fl[f], slot) \in {0, 1} /\ Occupies(fs, slot) \in {0, 1}
  BY DEF Occupies
<1>8. /\ Cardinality(A) \in Nat
      /\ Cardinality(B) = Cardinality(A) - Occupies(fl[f], slot) + Occupies(fs, slot)
      /\ Occupies(fl[f], slot) <= Cardinality(A)
  BY <1>4, <1>5, <1>6, <1>7
<1>. QED  BY <1>8 DEF A, B

\* What a fetch step changes keeps the invariant.
LEMMA FetchStep ==
  ASSUME SlotsInv, UrlsGood, NEW f \in Fetches, NEW fs \in SUBSET Flags,
         OneFetch(f, fs), CallsOf(f, fs), FlagsOf(f, fs), CountOf(f, fs),
         QueueOf(netqueue, netqueue', f, fs, "NETSLOT"),
         QueueOf(localqueue, localqueue', f, fs, "LOCALSLOT")
  PROVE  SlotsInv'
<1>1. flags \in [Fetches -> SUBSET Flags]
  BY DEF SlotsInv, TypeOK
<1>2. /\ flags' \in [Fetches -> SUBSET Flags]
      /\ flags'[f] = fs
      /\ \A g \in Fetches \ {f} : flags'[g] = flags[g]
  BY <1>1 DEF OneFetch
<1>3. nrnet' = Cardinality(Occupying("NETSLOT")') /\ nrnet' \in 0..Maxconnect
  <2>1. /\ Cardinality(Occ(flags, "NETSLOT")) \in Nat
        /\ Cardinality(Occ(flags', "NETSLOT"))
             = Cardinality(Occ(flags, "NETSLOT"))
               - Occupies(flags[f], "NETSLOT") + Occupies(fs, "NETSLOT")
        /\ Occupies(flags[f], "NETSLOT") <= Cardinality(Occ(flags, "NETSLOT"))
    <3>1. /\ Cardinality(Occ(flags, "NETSLOT")) \in Nat
          /\ Cardinality(Occ([flags EXCEPT ![f] = fs], "NETSLOT"))
               = Cardinality(Occ(flags, "NETSLOT"))
                 - Occupies(flags[f], "NETSLOT") + Occupies(fs, "NETSLOT")
          /\ Occupies(flags[f], "NETSLOT") <= Cardinality(Occ(flags, "NETSLOT"))
      BY <1>1, CountFacts
    <3>2. flags' = [flags EXCEPT ![f] = fs]
      BY DEF OneFetch
    <3>. QED  BY <3>1, <3>2
  <2>2. nrnet = Cardinality(Occ(flags, "NETSLOT"))
    BY DEF SlotsInv, SlotsCounted, Occupying, Occ
  <2>3. nrnet' = Cardinality(Occ(flags', "NETSLOT"))
    BY <2>1, <2>2 DEF CountOf
  <2>4. Occupies(flags[f], "NETSLOT") \in {0, 1} /\ Occupies(fs, "NETSLOT") \in {0, 1}
    BY DEF Occupies
  <2>5. nrnet' \in Nat /\ nrnet' <= Maxconnect
    <3>1. nrnet \in Nat /\ Occupies(flags[f], "NETSLOT") <= nrnet
      BY <2>1, <2>2
    <3>. QED  BY <3>1, <2>4 DEF CountOf
  <2>6. nrnet' \in 0..Maxconnect
    BY <2>5, FetchAssumption
  <2>7. Occupying("NETSLOT")' = Occ(flags', "NETSLOT")
    BY DEF Occupying, Occ
  <2>. QED  BY <2>3, <2>6, <2>7
<1>4. nrlocal' = Cardinality(Occupying("LOCALSLOT")') /\ nrlocal' \in 0..Maxdiskread
  <2>1. /\ Cardinality(Occ(flags, "LOCALSLOT")) \in Nat
        /\ Cardinality(Occ(flags', "LOCALSLOT"))
             = Cardinality(Occ(flags, "LOCALSLOT"))
               - Occupies(flags[f], "LOCALSLOT") + Occupies(fs, "LOCALSLOT")
        /\ Occupies(flags[f], "LOCALSLOT") <= Cardinality(Occ(flags, "LOCALSLOT"))
    <3>1. /\ Cardinality(Occ(flags, "LOCALSLOT")) \in Nat
          /\ Cardinality(Occ([flags EXCEPT ![f] = fs], "LOCALSLOT"))
               = Cardinality(Occ(flags, "LOCALSLOT"))
                 - Occupies(flags[f], "LOCALSLOT") + Occupies(fs, "LOCALSLOT")
          /\ Occupies(flags[f], "LOCALSLOT") <= Cardinality(Occ(flags, "LOCALSLOT"))
      BY <1>1, CountFacts
    <3>2. flags' = [flags EXCEPT ![f] = fs]
      BY DEF OneFetch
    <3>. QED  BY <3>1, <3>2
  <2>2. nrlocal = Cardinality(Occ(flags, "LOCALSLOT"))
    BY DEF SlotsInv, SlotsCounted, Occupying, Occ
  <2>3. nrlocal' = Cardinality(Occ(flags', "LOCALSLOT"))
    BY <2>1, <2>2 DEF CountOf
  <2>4. Occupies(flags[f], "LOCALSLOT") \in {0, 1} /\ Occupies(fs, "LOCALSLOT") \in {0, 1}
    BY DEF Occupies
  <2>5. nrlocal' \in Nat /\ nrlocal' <= Maxdiskread
    <3>1. nrlocal \in Nat /\ Occupies(flags[f], "LOCALSLOT") <= nrlocal
      BY <2>1, <2>2
    <3>. QED  BY <3>1, <2>4 DEF CountOf
  <2>6. nrlocal' \in 0..Maxdiskread
    BY <2>5, FetchAssumption
  <2>7. Occupying("LOCALSLOT")' = Occ(flags', "LOCALSLOT")
    BY DEF Occupying, Occ
  <2>. QED  BY <2>3, <2>6, <2>7
<1>5. netqueue' \in Seq(Fetches) /\ localqueue' \in Seq(Fetches)
  BY DEF QueueOf
<1>6. TypeOK'
  <2>1. todo' \in Seq(Call)
    BY DEF CallsOf, GoodCalls
  <2>. QED  BY <1>2, <1>3, <1>4, <1>5, <2>1 DEF TypeOK, OneFetch, UrlsGood
<1>7. Known'
  <2>1. GoodCalls(todo', life')
    BY DEF CallsOf
  <2>2. ASSUME NEW g \in Fetches
        PROVE  /\ life'[g] # "new" => url'[g] \in Urls
               /\ life'[g] = "new" => flags'[g] = {} /\ ~task'[g]
    BY <1>2, <2>2 DEF SlotsInv, Known, OneFetch
  <2>. QED  BY <2>1, <2>2 DEF Known, UrlsGood
<1>8. SlotRuns'
  <2>. SUFFICES ASSUME NEW g \in Fetches
                PROVE  /\ ~({"NETSLOT", "LOCALSLOT"} \subseteq flags'[g])
                       /\ "USESLOT" \in flags'[g] => "RUNNING" \in flags'[g]
                       /\ "RUNNING" \in flags'[g] => life'[g] = "live"
                       /\ task'[g] => "RUNNING" \in flags'[g]
                       /\ Ends(todo', g) => /\ "RUNNING" \in flags'[g]
                                            /\ "USESLOT" \notin flags'[g] /\ ~task'[g]
    BY DEF SlotRuns
  <2>1. CASE g = f
    BY <2>1, <1>2 DEF CallsOf, FlagsOf
  <2>2. CASE g # f
    BY <2>2, <1>2 DEF SlotsInv, SlotRuns, CallsOf, OneFetch
  <2>. QED  BY <2>1, <2>2
<1>9. WaitsApart'
  <2>. SUFFICES ASSUME NEW g \in Fetches
                PROVE  /\ "INCOMPLETE" \in flags'[g] =>
                            \/ Resumes(todo', g)
                            \/ /\ "RUNNING" \notin flags'[g]
                               /\ ~In(netqueue', g) /\ ~In(localqueue', g)
                       /\ In(netqueue', g) \/ In(localqueue', g) =>
                            life'[g] = "live" /\ "RUNNING" \notin flags'[g]
    BY DEF WaitsApart
  <2>1. CASE g = f
    BY <2>1, <1>2 DEF FlagsOf
  <2>2. CASE g # f
    BY <2>2, <1>2 DEF SlotsInv, WaitsApart, CallsOf, OneFetch, QueueOf
  <2>. QED  BY <2>1, <2>2
<1>10. QueuesApart'
  <2>1. ASSUME NEW i \in 1..Len(netqueue') PROVE "NETSLOT" \in flags'[netqueue'[i]]
    <3>1. netqueue'[i] \in Fetches /\ In(netqueue', netqueue'[i])
      BY <1>5, ElementOfSeq DEF In
    <3>2. CASE netqueue'[i] = f
      BY <3>1, <3>2, <1>2 DEF QueueOf
    <3>3. CASE netqueue'[i] # f
      <4>1. In(netqueue, netqueue'[i])
        BY <3>1, <3>3 DEF QueueOf
      <4>2. "NETSLOT" \in flags[netqueue'[i]]
        BY <4>1 DEF SlotsInv, QueuesApart, In
      <4>. QED  BY <4>2, <3>1, <3>3, <1>2
    <3>. QED  BY <3>2, <3>3
  <2>2. ASSUME NEW i \in 1..Len(localqueue') PROVE "LOCALSLOT" \in flags'[localqueue'[i]]
    <3>1. localqueue'[i] \in Fetches /\ In(localqueue', localqueue'[i])
      BY <1>5, ElementOfSeq DEF In
    <3>2. CASE localqueue'[i] = f
      BY <3>1, <3>2, <1>2 DEF QueueOf
    <3>3. CASE localqueue'[i] # f
      <4>1. In(localqueue, localqueue'[i])
        BY <3>1, <3>3 DEF QueueOf
      <4>2. "LOCALSLOT" \in flags[localqueue'[i]]
        BY <4>1 DEF SlotsInv, QueuesApart, In
      <4>. QED  BY <4>2, <3>1, <3>3, <1>2
    <3>. QED  BY <3>2, <3>3
  <2>. QED  BY <2>1, <2>2 DEF QueuesApart, QueueOf
<1>11. SlotsCounted'
  BY <1>3, <1>4 DEF SlotsCounted
<1>. QED  BY <1>6, <1>7, <1>8, <1>9, <1>10, <1>11 DEF SlotsInv

-----------------------------------------------------------------------------
(* The queues. *)

\* A queue that only loses elements.
Shorter(q, r) ==
  /\ r \in Seq(Fetches) /\ Distinct(r)
  /\ \A g \in Fetches : In(r, g) => In(q, g)

\* Taking the first of a queue.
LEMMA TailOfQueue ==
  ASSUME NEW q \in Seq(Fetches), Distinct(q), q # <<>>
  PROVE  /\ Head(q) \in Fetches /\ In(q, Head(q)) /\ Head(q) = q[1]
         /\ Shorter(q, Tail(q)) /\ ~In(Tail(q), Head(q))
<1>. DEFINE t == Tail(q)
<1>1. Len(q) \in Nat \ {0} /\ Head(q) = q[1] /\ 1 \in 1..Len(q)
  BY EmptySeq
<1>2. Head(q) \in Fetches /\ In(q, Head(q))
  BY <1>1, ElementOfSeq DEF In
<1>3. t \in Seq(Fetches) /\ Len(t) = Len(q) - 1 /\ \A i \in 1..(Len(q) - 1) : t[i] = q[i + 1]
  BY <1>1
<1>. HIDE DEF t
<1>4. ASSUME NEW i \in 1..Len(t)
      PROVE  t[i] = q[i + 1] /\ i + 1 \in 1..Len(q) /\ i + 1 # 1
  BY <1>1, <1>3
<1>5. Distinct(t)
  <2>. SUFFICES ASSUME NEW i \in 1..Len(t), NEW j \in 1..Len(t), t[i] = t[j] PROVE i = j
    BY DEF Distinct
  <2>1. i + 1 = j + 1
    BY <1>4 DEF Distinct
  <2>. QED  BY <2>1
<1>6. \A g \in Fetches : In(t, g) => In(q, g)
  BY <1>4 DEF In
<1>7. ~In(t, Head(q))
  BY <1>1, <1>4 DEF In, Distinct
<1>. QED  BY <1>1, <1>2, <1>3, <1>5, <1>6, <1>7 DEF Shorter, t

\* REMOVE() takes a fetch out of the queue, since it is there once.
LEMMA UnlinkFacts ==
  ASSUME NEW q \in Seq(Fetches), Distinct(q), NEW f \in Fetches
  PROVE  Shorter(q, Unlink(q, f)) /\ ~In(Unlink(q, f), f)
<1>. DEFINE k == CHOOSE i \in Places(q, f) : TRUE
            r == RemoveAt(q, k)
<1>1. CASE Places(q, f) = {}
  <2>1. ~In(q, f) /\ Unlink(q, f) = q
    BY <1>1 DEF In, Places, Unlink
  <2>. QED  BY <2>1 DEF Shorter
<1>2. CASE Places(q, f) # {}
  <2>1. k \in Places(q, f)
    BY <1>2
  <2>2. Unlink(q, f) = r
    BY <1>2 DEF Unlink
  <2>. HIDE DEF k
  <2>3. k \in 1..Len(q) /\ q[k] = f
    BY <2>1 DEF Places
  <2>4. /\ r \in Seq(Fetches)
        /\ Len(r) = Len(q) - 1
        /\ \A j \in 1..(Len(q) - 1) : r[j] = IF j < k THEN q[j] ELSE q[j + 1]
    BY <2>3, RemoveAtFacts
  <2>5. Len(q) \in Nat
    OBVIOUS
  <2>. HIDE DEF r
  <2>6. ASSUME NEW j \in 1..Len(r)
        PROVE  \/ j < k /\ j \in 1..Len(q) /\ r[j] = q[j]
               \/ j >= k /\ j + 1 \in 1..Len(q) /\ r[j] = q[j + 1]
    BY <2>3, <2>4, <2>5
  <2>7. Distinct(r)
    <3>. SUFFICES ASSUME NEW i \in 1..Len(r), NEW j \in 1..Len(r), r[i] = r[j] PROVE i = j
      BY DEF Distinct
    <3>1. \/ i < k /\ j < k /\ i = j
          \/ i < k /\ j >= k /\ i = j + 1
          \/ i >= k /\ j < k /\ i + 1 = j
          \/ i >= k /\ j >= k /\ i + 1 = j + 1
      BY <2>6 DEF Distinct
    <3>. QED  BY <3>1, <2>3
  <2>8. \A g \in Fetches : In(r, g) => In(q, g)
    BY <2>6 DEF In
  <2>9. ~In(r, f)
    <3>. SUFFICES ASSUME NEW j \in 1..Len(r), r[j] = f PROVE FALSE
      BY DEF In
    <3>1. (j < k /\ j = k) \/ (j >= k /\ j + 1 = k)
      BY <2>3, <2>6 DEF Distinct
    <3>. QED  BY <3>1, <2>3
  <2>. QED  BY <2>2, <2>4, <2>7, <2>8, <2>9 DEF Shorter
<1>. QED  BY <1>1, <1>2

\* Addtoqueue() adds one place for the fetch, before the images or at the end.
LEMMA AddtoqueueFacts ==
  ASSUME NEW q \in Seq(Fetches), Distinct(q), NEW f \in Fetches, ~In(q, f),
         NEW image \in BOOLEAN
  PROVE  LET r == Addtoqueue(q, f, image)
         IN /\ r \in Seq(Fetches) /\ Distinct(r)
            /\ \A g \in Fetches \ {f} : In(r, g) => In(q, g)
<1>. DEFINE k == CHOOSE i \in Images(q) : \A j \in Images(q) : i <= j
            r == Addtoqueue(q, f, image)
<1>1. Len(q) \in Nat
  OBVIOUS
<1>2. CASE image \/ Images(q) = {}
  <2>1. r = Append(q, f)
    BY <1>2 DEF Addtoqueue
  <2>2. /\ r \in Seq(Fetches) /\ Len(r) = Len(q) + 1
        /\ \A i \in 1..Len(q) : r[i] = q[i]
        /\ r[Len(q) + 1] = f
    BY <2>1, PushFacts
  <2>. HIDE DEF r
  <2>3. ASSUME NEW i \in 1..Len(r)
        PROVE  (i \in 1..Len(q) /\ r[i] = q[i]) \/ (i = Len(q) + 1 /\ r[i] = f)
    BY <1>1, <2>2
  <2>4. Distinct(r)
    BY <2>3 DEF Distinct, In
  <2>5. \A g \in Fetches \ {f} : In(r, g) => In(q, g)
    BY <2>3 DEF In
  <2>. QED  BY <2>2, <2>4, <2>5 DEF r
<1>3. CASE ~(image \/ Images(q) = {})
  <2>1. Images(q) \subseteq Nat /\ Images(q) # {} /\ Images(q) \subseteq 1..Len(q)
    BY <1>3, <1>1 DEF Images
  <2>2. \E i \in Images(q) : \A j \in Images(q) : i <= j
    BY <2>1, SmallestIn
  <2>3. k \in Images(q)
    BY <2>2
  <2>4. r = InsertAt(q, k, f)
    BY <1>3 DEF Addtoqueue
  <2>. HIDE DEF k
  <2>5. k \in 1..Len(q)
    BY <2>1, <2>3
  <2>6. /\ r \in Seq(Fetches) /\ Len(r) = Len(q) + 1
        /\ \A j \in 1..(Len(q) + 1) :
              r[j] = IF j < k THEN q[j] ELSE IF j = k THEN f ELSE q[j - 1]
    BY <2>4, <2>5, InsertAtFacts
  <2>. HIDE DEF r
  <2>7. ASSUME NEW i \in 1..Len(r)
        PROVE  \/ i < k /\ i \in 1..Len(q) /\ r[i] = q[i]
               \/ i = k /\ r[i] = f
               \/ i > k /\ i - 1 \in 1..Len(q) /\ r[i] = q[i - 1]
    BY <1>1, <2>5, <2>6
  <2>8. Distinct(r)
    <3>. SUFFICES ASSUME NEW i \in 1..Len(r), NEW j \in 1..Len(r), r[i] = r[j] PROVE i = j
      BY DEF Distinct
    <3>1. \/ i < k /\ j < k /\ i = j
          \/ i < k /\ j > k /\ i = j - 1
          \/ i > k /\ j < k /\ i - 1 = j
          \/ i > k /\ j > k /\ i - 1 = j - 1
          \/ i = k /\ j = k
      BY <2>7 DEF Distinct, In
    <3>. QED  BY <3>1, <2>5
  <2>9. \A g \in Fetches \ {f} : In(r, g) => In(q, g)
    BY <2>7 DEF In
  <2>. QED  BY <2>6, <2>8, <2>9 DEF r
<1>. QED  BY <1>2, <1>3

-----------------------------------------------------------------------------
(* Starting a driver. *)

\* f is there, and the other fetches stay as they are.
Made(f) ==
  /\ life' \in [Fetches -> {"new", "live", "freed"}]
  /\ url' \in [Fetches -> Urls \cup {NoUrl}]
  /\ \A g \in Fetches \ {f} : life'[g] = life[g] /\ url'[g] = url[g]
  /\ life'[f] = "live" /\ url'[f] \in Urls

\* The calls that are left when f, whose flags were fs, was started.
StartCalls(f, fs) ==
  /\ GoodCalls(todo', life')
  /\ \A g \in Fetches \ {f} :
       (Ends(todo', g) => Ends(todo, g)) /\ (Resumes(todo, g) => Resumes(todo', g))
  /\ ~Ends(todo', f)
  /\ "INCOMPLETE" \in fs => Resumes(todo', f)

\* A driver that starts takes the slot that is free.
LEMMA DostartdriverStep ==
  ASSUME SlotsInv, UrlsGood, NEW f \in Fetches, NEW fs \in SUBSET Flags,
         "USESLOT" \notin flags[f],
         ~({"NETSLOT", "LOCALSLOT"} \subseteq fs),
         "NETSLOT" \in fs => nrnet < Maxconnect,
         "LOCALSLOT" \in fs => nrlocal < Maxdiskread,
         Dostartdriver(f, fs), Made(f), StartCalls(f, fs),
         Shorter(netqueue, netqueue'), ~In(netqueue', f),
         Shorter(localqueue, localqueue'), ~In(localqueue', f)
  PROVE  SlotsInv'
<1>. DEFINE gs == fs \cup {"RUNNING", "USESLOT"}
<1>1. /\ flags \in [Fetches -> SUBSET Flags]
      /\ task \in [Fetches -> BOOLEAN] /\ stop \in [Fetches -> BOOLEAN]
      /\ nrnet \in 0..Maxconnect /\ nrlocal \in 0..Maxdiskread
  BY DEF SlotsInv, TypeOK
<1>2. gs \in SUBSET Flags /\ flags' = [flags EXCEPT ![f] = gs]
  BY DEF Flags, Dostartdriver
<1>3. /\ "RUNNING" \in gs
      /\ "NETSLOT" \in gs <=> "NETSLOT" \in fs
      /\ "LOCALSLOT" \in gs <=> "LOCALSLOT" \in fs
      /\ "INCOMPLETE" \in gs <=> "INCOMPLETE" \in fs
      /\ "USESLOT" \in gs
  OBVIOUS
<1>. HIDE DEF gs
<1>4. OneFetch(f, gs)
  <2>1. task' \in [Fetches -> BOOLEAN] /\ \A g \in Fetches \ {f} : task'[g] = task[g]
    BY <1>1 DEF Dostartdriver
  <2>2. stop' \in [Fetches -> BOOLEAN]
    BY <1>1 DEF Dostartdriver
  <2>. QED  BY <1>2, <2>1, <2>2 DEF OneFetch, Made
<1>5. CallsOf(f, gs)
  BY DEF CallsOf, StartCalls
<1>6. FlagsOf(f, gs)
  BY <1>3 DEF FlagsOf, StartCalls, Made
<1>7. CountOf(f, gs)
  <2>1. Occupies(flags[f], "NETSLOT") = 0 /\ Occupies(flags[f], "LOCALSLOT") = 0
    BY DEF Occupies
  <2>2. /\ Occupies(gs, "NETSLOT") = IF "NETSLOT" \in fs THEN 1 ELSE 0
        /\ Occupies(gs, "LOCALSLOT") = IF "LOCALSLOT" \in fs THEN 1 ELSE 0
    BY <1>3 DEF Occupies
  <2>3. CASE "NETSLOT" \in fs
    <3>1. nrnet' = nrnet + 1 /\ nrlocal' = nrlocal
      BY <2>3 DEF Dostartdriver
    <3>. QED  BY <3>1, <2>1, <2>2, <2>3, <1>1, FetchAssumption DEF CountOf
  <2>4. CASE "LOCALSLOT" \in fs
    <3>1. nrnet' = nrnet /\ nrlocal' = nrlocal + 1
      BY <2>4 DEF Dostartdriver
    <3>. QED  BY <3>1, <2>1, <2>2, <2>4, <1>1, FetchAssumption DEF CountOf
  <2>5. CASE "NETSLOT" \notin fs /\ "LOCALSLOT" \notin fs
    <3>1. nrnet' = nrnet /\ nrlocal' = nrlocal
      BY <2>5 DEF Dostartdriver
    <3>. QED  BY <3>1, <2>1, <2>2, <2>5, <1>1, FetchAssumption DEF CountOf
  <2>. QED  BY <2>3, <2>4, <2>5
<1>8. /\ QueueOf(netqueue, netqueue', f, gs, "NETSLOT")
      /\ QueueOf(localqueue, localqueue', f, gs, "LOCALSLOT")
  BY DEF QueueOf, Shorter
<1>. QED  BY <1>2, <1>4, <1>5, <1>6, <1>7, <1>8, FetchStep

\* A fetch that is not at work starts, or waits in a queue.
LEMMA StartdriverStep ==
  ASSUME SlotsInv, UrlsGood, NEW f \in Fetches, NEW fs \in SUBSET Flags,
         "USESLOT" \notin flags[f], ~task[f],
         ~In(netqueue, f), ~In(localqueue, f),
         "USESLOT" \notin fs, "RUNNING" \notin fs,
         ~({"NETSLOT", "LOCALSLOT"} \subseteq fs),
         Startdriver(f, fs), Made(f), StartCalls(f, fs)
  PROVE  SlotsInv'
<1>1. /\ flags \in [Fetches -> SUBSET Flags]
      /\ task \in [Fetches -> BOOLEAN] /\ stop \in [Fetches -> BOOLEAN]
      /\ nrnet \in 0..Maxconnect /\ nrlocal \in 0..Maxdiskread
      /\ netqueue \in Seq(Fetches) /\ localqueue \in Seq(Fetches)
      /\ Distinct(netqueue) /\ Distinct(localqueue)
  BY DEF SlotsInv, TypeOK, QueuesApart
<1>. DEFINE full == \/ "LOCALSLOT" \in fs /\ nrlocal >= Maxdiskread
                    \/ "NETSLOT" \in fs /\ nrnet >= Maxconnect
            gs == fs \cup {"QUEUED"}
<1>2. CASE ~full
  <2>1. /\ Dostartdriver(f, fs)
        /\ netqueue' = netqueue /\ localqueue' = localqueue
    BY <1>2 DEF Startdriver
  <2>2. /\ "NETSLOT" \in fs => nrnet < Maxconnect
        /\ "LOCALSLOT" \in fs => nrlocal < Maxdiskread
    BY <1>1, <1>2, FetchAssumption
  <2>3. Shorter(netqueue, netqueue') /\ Shorter(localqueue, localqueue')
    BY <1>1, <2>1 DEF Shorter
  <2>. QED  BY <2>1, <2>2, <2>3, DostartdriverStep
<1>3. CASE full
  <2>1. /\ flags' = [flags EXCEPT ![f] = gs]
        /\ \/ /\ "LOCALSLOT" \in fs
              /\ localqueue' = Addtoqueue(localqueue, f, "IMAGE" \in fs)
              /\ netqueue' = netqueue
           \/ /\ "NETSLOT" \in fs
              /\ netqueue' = Addtoqueue(netqueue, f, "IMAGE" \in fs)
              /\ localqueue' = localqueue
        /\ task' = task /\ stop' = stop /\ nrnet' = nrnet /\ nrlocal' = nrlocal
    BY <1>3 DEF Startdriver
  <2>2. /\ gs \in SUBSET Flags
        /\ "RUNNING" \notin gs /\ "USESLOT" \notin gs
        /\ "NETSLOT" \in gs <=> "NETSLOT" \in fs
        /\ "LOCALSLOT" \in gs <=> "LOCALSLOT" \in fs
        /\ "INCOMPLETE" \in gs <=> "INCOMPLETE" \in fs
    BY DEF Flags
  <2>. HIDE DEF gs
  <2>3. OneFetch(f, gs)
    BY <1>1, <2>1 DEF OneFetch, Made
  <2>4. CallsOf(f, gs)
    BY DEF CallsOf, StartCalls
  <2>5. FlagsOf(f, gs)
    BY <2>1, <2>2 DEF FlagsOf, StartCalls, Made
  <2>6. CountOf(f, gs)
    <3>1. /\ Occupies(flags[f], "NETSLOT") = 0 /\ Occupies(flags[f], "LOCALSLOT") = 0
          /\ Occupies(gs, "NETSLOT") = 0 /\ Occupies(gs, "LOCALSLOT") = 0
      BY <2>2 DEF Occupies
    <3>. QED  BY <3>1, <2>1, <1>1, FetchAssumption DEF CountOf
  <2>7. /\ QueueOf(netqueue, netqueue', f, gs, "NETSLOT")
        /\ QueueOf(localqueue, localqueue', f, gs, "LOCALSLOT")
    <3>. DEFINE image == "IMAGE" \in fs
    <3>1. image \in BOOLEAN
      OBVIOUS
    <3>. HIDE DEF image
    <3>2. /\ Addtoqueue(netqueue, f, image) \in Seq(Fetches)
          /\ Distinct(Addtoqueue(netqueue, f, image))
          /\ \A g \in Fetches \ {f} :
                In(Addtoqueue(netqueue, f, image), g) => In(netqueue, g)
      BY <1>1, <3>1, AddtoqueueFacts
    <3>3. /\ Addtoqueue(localqueue, f, image) \in Seq(Fetches)
          /\ Distinct(Addtoqueue(localqueue, f, image))
          /\ \A g \in Fetches \ {f} :
                In(Addtoqueue(localqueue, f, image), g) => In(localqueue, g)
      BY <1>1, <3>1, AddtoqueueFacts
    <3>4. \/ /\ "LOCALSLOT" \in fs
             /\ localqueue' = Addtoqueue(localqueue, f, image)
             /\ netqueue' = netqueue
          \/ /\ "NETSLOT" \in fs
             /\ netqueue' = Addtoqueue(netqueue, f, image)
             /\ localqueue' = localqueue
      BY <2>1 DEF image
    <3>. QED  BY <3>2, <3>3, <3>4, <2>2, <1>1 DEF QueueOf
  <2>. QED  BY <2>1, <2>2, <2>3, <2>4, <2>5, <2>6, <2>7, FetchStep
<1>. QED  BY <1>2, <1>3

-----------------------------------------------------------------------------
(* The parts of a step. *)

\* The next call is a good one.
LEMMA HeadGood ==
  ASSUME SlotsInv, todo # <<>>
  PROVE  /\ GoodCall(Head(todo), life)
         /\ Head(todo).f \in Fetches \cup {NoFetch}
         /\ Head(todo).tags \in TagSets
<1>1. todo \in Seq(Call)
  BY DEF SlotsInv, TypeOK
<1>. DEFINE S == Call
<1>. HIDE DEF S
<1>2. todo \in Seq(S)
  BY <1>1 DEF S
<1>3. Len(todo) \in Nat \ {0} /\ Head(todo) = todo[1] /\ 1 \in 1..Len(todo)
  BY <1>2, EmptySeq
<1>4. GoodCall(Head(todo), life)
  BY <1>3 DEF SlotsInv, Known, GoodCalls
<1>. QED  BY <1>4 DEF GoodCall, Call, TagSets

\* A call that is not late makes plain calls: those that end or resume a
\* fetch stay.
LEMMA QuietDo ==
  ASSUME SlotsInv, todo # <<>>, Head(todo).op \notin LateOps,
         NEW c, NEW lg, PlainCalls(c, lg), \A f \in Fetches : life[f] # "new" => lg[f] # "new",
         Do(c)
  PROVE  /\ GoodCalls(todo', lg)
         /\ \A f : Ends(todo', f) <=> Ends(todo, f)
         /\ \A f : Resumes(todo', f) <=> Resumes(todo, f)
<1>1. GoodCalls(todo, life)
  BY DEF SlotsInv, Known
<1>2. todo' = c \o Tail(todo)
  BY DEF Do
<1>3. /\ GoodCalls(c \o Tail(todo), lg)
      /\ \A f : Ends(c \o Tail(todo), f) <=> Ends(todo, f)
      /\ \A f : Resumes(c \o Tail(todo), f) <=> Resumes(todo, f)
  BY <1>1, EarlyCall
<1>. QED  BY <1>2, <1>3

\* A late call makes plain calls: nothing ends or resumes any more.
LEMMA LateDo ==
  ASSUME SlotsInv, todo # <<>>, Head(todo).op \in LateOps,
         NEW c, NEW lg, PlainCalls(c, lg), Do(c)
  PROVE  /\ GoodCalls(todo', lg)
         /\ \A f : ~Ends(todo', f) /\ ~Resumes(todo', f)
         /\ \A f : Ends(todo, f) <=> Head(todo).op \in {"end", "retry"} /\ Head(todo).f = f
         /\ \A f : Resumes(todo, f) <=> Head(todo).op = "resume" /\ Head(todo).f = f
<1>1. GoodCalls(todo, life)
  BY DEF SlotsInv, Known
<1>2. todo' = c \o Tail(todo)
  BY DEF Do
<1>. QED  BY <1>1, <1>2, LateCall

\* Between two events nothing ends or resumes.
LEMMA IdleFacts ==
  ASSUME Idle
  PROVE  \A f : ~Ends(todo, f) /\ ~Resumes(todo, f)
<1>1. Len(todo) = 0
  BY EmptySeq DEF Idle
<1>. QED  BY <1>1 DEF Ends, Resumes

\* The url side stays as it was.
LEMMA UrlsSame ==
  ASSUME SlotsInv, UNCHANGED <<urlVars, waitrequests>>,
         \A f \in Fetches : life[f] # "new" => life'[f] # "new"
  PROVE  UrlsGood
<1>1. /\ fetch' = fetch /\ rfetch' = rfetch /\ vfetch' = vfetch
      /\ movedto' = movedto /\ waitrequests' = waitrequests
  BY DEF urlVars
<1>. QED  BY <1>1 DEF SlotsInv, TypeOK, Known, UrlsGood

\* Main goes on with its calls, and nothing happens to a fetch but that flags
\* change that say how it is to end.
LEMMA QuietDoStep ==
  ASSUME SlotsInv, todo # <<>>, Head(todo).op \notin LateOps,
         NEW c, PlainCalls(c, life), Do(c),
         UNCHANGED <<life, url, task, queueVars>>,
         flags' \in [Fetches -> SUBSET Flags], stop' \in [Fetches -> BOOLEAN],
         \A f \in Fetches :
           /\ \A x \in {"RUNNING", "USESLOT", "NETSLOT", "LOCALSLOT"} :
                x \in flags'[f] <=> x \in flags[f]
           /\ "INCOMPLETE" \in flags'[f] => "INCOMPLETE" \in flags[f]
           /\ life[f] = "new" => flags'[f] = {},
         UrlsGood
  PROVE  SlotsInv'
<1>1. /\ GoodCalls(todo', life)
      /\ \A f : Ends(todo', f) <=> Ends(todo, f)
      /\ \A f : Resumes(todo', f) <=> Resumes(todo, f)
  BY QuietDo
<1>2. Quiet
  BY <1>1 DEF Quiet
<1>. QED  BY <1>2, QuietStep

\* The same for an event that main takes.
LEMMA QuietEventStep ==
  ASSUME SlotsInv, NEW c, PlainCalls(c, life), Event(c),
         UNCHANGED <<life, url, task, queueVars>>,
         flags' \in [Fetches -> SUBSET Flags], stop' \in [Fetches -> BOOLEAN],
         \A f \in Fetches :
           /\ \A x \in {"RUNNING", "USESLOT", "NETSLOT", "LOCALSLOT"} :
                x \in flags'[f] <=> x \in flags[f]
           /\ "INCOMPLETE" \in flags'[f] => "INCOMPLETE" \in flags[f]
           /\ life[f] = "new" => flags'[f] = {},
         UrlsGood
  PROVE  SlotsInv'
<1>1. todo' = c /\ Idle
  BY DEF Event
<1>2. GoodCalls(todo', life) /\ \A f : ~Ends(todo', f) /\ ~Resumes(todo', f)
  BY <1>1, PlainFacts
<1>3. \A f : ~Resumes(todo, f)
  BY <1>1, IdleFacts
<1>4. Quiet
  BY <1>2, <1>3 DEF Quiet
<1>. QED  BY <1>4, QuietStep

\* The same when no fetch changes at all.
LEMMA KeptDoStep ==
  ASSUME SlotsInv, todo # <<>>, Head(todo).op \notin LateOps,
         NEW c, PlainCalls(c, life), Do(c),
         UNCHANGED <<fetchVars, queueVars>>, UrlsGood
  PROVE  SlotsInv'
<1>1. /\ UNCHANGED <<life, url, task, queueVars>>
      /\ flags' = flags /\ stop' = stop
  BY DEF fetchVars
<1>2. flags \in [Fetches -> SUBSET Flags] /\ stop \in [Fetches -> BOOLEAN]
  BY DEF SlotsInv, TypeOK
<1>3. \A f \in Fetches : life[f] = "new" => flags[f] = {}
  BY DEF SlotsInv, Known
<1>. QED  BY <1>1, <1>2, <1>3, QuietDoStep

\* An event that changes no fetch.
LEMMA KeptEventStep ==
  ASSUME SlotsInv, NEW c, PlainCalls(c, life), Event(c),
         UNCHANGED <<fetchVars, queueVars>>, UrlsGood
  PROVE  SlotsInv'
<1>1. /\ UNCHANGED <<life, url, task, queueVars>>
      /\ flags' = flags /\ stop' = stop
  BY DEF fetchVars
<1>2. flags \in [Fetches -> SUBSET Flags] /\ stop \in [Fetches -> BOOLEAN]
  BY DEF SlotsInv, TypeOK
<1>3. \A f \in Fetches : life[f] = "new" => flags[f] = {}
  BY DEF SlotsInv, Known
<1>. QED  BY <1>1, <1>2, <1>3, QuietEventStep

\* A flag that says how f is to end does not touch the slots.
LEMMA FlagAdded ==
  ASSUME SlotsInv, NEW f \in Fetches, life[f] # "new",
         NEW x \in {"CANCELLED", "DISPOSED", "NOTMODIFIED", "POSTNOGOOD"},
         flags' = With(f, {x})
  PROVE  /\ flags' \in [Fetches -> SUBSET Flags]
         /\ \A g \in Fetches :
              /\ \A c \in {"RUNNING", "USESLOT", "NETSLOT", "LOCALSLOT"} :
                   c \in flags'[g] <=> c \in flags[g]
              /\ "INCOMPLETE" \in flags'[g] => "INCOMPLETE" \in flags[g]
              /\ life[g] = "new" => flags'[g] = {}
<1>1. flags \in [Fetches -> SUBSET Flags] /\ \A g \in Fetches : life[g] = "new" => flags[g] = {}
  BY DEF SlotsInv, TypeOK, Known
<1>2. x \in Flags /\ x \notin {"RUNNING", "USESLOT", "NETSLOT", "LOCALSLOT", "INCOMPLETE"}
  BY DEF Flags
<1>3. flags' = [flags EXCEPT ![f] = flags[f] \cup {x}]
  BY DEF With
<1>. QED  BY <1>1, <1>2, <1>3

\* Disposing, cancelling and telling a url are plain calls about a fetch.
LEMMA FetchCallPlain ==
  ASSUME NEW op \in {"forward", "srcupdate", "discard", "dispose"}, NEW f \in Fetches,
         NEW lf, lf[f] # "new", NEW tags \in TagSets
  PROVE  GoodCall(CallF(op, f, tags), lf) /\ CallF(op, f, tags).op \notin LateOps
<1>1. op \in OfFetch \cup OfQueues /\ op \notin LateOps
  BY DEF OfFetch, LateOps
<1>. QED  BY <1>1, CallFIn

\* So is disposing of a pointer that may be NULL,
LEMMA DisposePlain ==
  ASSUME NEW f \in Fetches \cup {NoFetch}, NEW lf, f \in Fetches => lf[f] # "new"
  PROVE  GoodCall(CallF("dispose", f, {}), lf) /\ CallF("dispose", f, {}).op \notin LateOps
<1>1. "dispose" \in OfFetch \cup OfQueues /\ "dispose" \notin LateOps /\ {} \in TagSets
  BY DEF OfFetch, LateOps, TagSets
<1>. QED  BY <1>1, CallFIn

\* and Checkqueues(),
LEMMA CheckqueuesPlain ==
  ASSUME NEW lf
  PROVE  PlainCalls(Checkqueues, lf)
<1>1. {} \in TagSets /\ NoFetch \notin Fetches
  BY FetchAssumption DEF TagSets
<1>2. /\ "netqueue" \in OfFetch \cup OfQueues /\ "netqueue" \notin LateOps
      /\ "localqueue" \in OfFetch \cup OfQueues /\ "localqueue" \notin LateOps
      /\ "netqueue" \in OfQueues /\ "localqueue" \in OfQueues
  BY DEF OfQueues, LateOps
<1>3. ASSUME NEW op \in OfQueues, op \notin LateOps
      PROVE  GoodCall(CallF(op, NoFetch, {}), lf) /\ CallF(op, NoFetch, {}).op \notin LateOps
  <2>1. op \in OfFetch \cup OfQueues /\ (op \notin {"dispose"} \cup OfQueues => NoFetch \in Fetches)
    OBVIOUS
  <2>2. NoFetch \in Fetches => lf[NoFetch] # "new"
    BY <1>1
  <2>3. /\ GoodCall(CallF(op, NoFetch, {}), lf)
        /\ CallF(op, NoFetch, {}).op = op
    BY <1>1, <2>1, <2>2, CallFIn
  <2>. QED  BY <2>3, <1>3
<1>4. /\ GoodCall(CallF("netqueue", NoFetch, {}), lf)
      /\ CallF("netqueue", NoFetch, {}).op \notin LateOps
      /\ GoodCall(CallF("localqueue", NoFetch, {}), lf)
      /\ CallF("localqueue", NoFetch, {}).op \notin LateOps
  BY <1>2, <1>3
<1>. QED  BY <1>4, PlainTwo DEF Checkqueues

\* and a call about a url.
LEMMA UrlCallPlain ==
  ASSUME NEW op \in OfUrl, NEW u \in Urls, NEW tags \in TagSets, NEW lf
  PROVE  GoodCall(CallU(op, u, tags), lf) /\ CallU(op, u, tags).op \notin LateOps
<1>1. op \notin LateOps
  BY DEF OfUrl, LateOps
<1>. QED  BY <1>1, CallUIn

\* The tags that occur.
LEMMA TagsIn ==
  /\ {} \in TagSets /\ {"history"} \in TagSets /\ {"reload"} \in TagSets
  /\ {"Data"} \in TagSets /\ {"Error"} \in TagSets /\ {"Moved"} \in TagSets
  /\ {"Terminate"} \in TagSets /\ {"Reload"} \in TagSets
  /\ {"Error", "Terminate"} \in TagSets /\ {"Terminate", "Error"} \in TagSets
<1>1. \A t \in SUBSET Tags : t \in TagSets
  BY DEF TagSets
<1>2. {"history"} \in TagSets /\ {"reload"} \in TagSets
  BY DEF TagSets
<1>3. {} \in SUBSET Tags /\ {"Data"} \in SUBSET Tags /\ {"Error"} \in SUBSET Tags
  BY DEF Tags
<1>4. {"Moved"} \in SUBSET Tags /\ {"Terminate"} \in SUBSET Tags /\ {"Reload"} \in SUBSET Tags
  BY DEF Tags
<1>5. {"Error", "Terminate"} \in SUBSET Tags /\ {"Terminate", "Error"} \in SUBSET Tags
  BY DEF Tags
<1>. QED  BY <1>1, <1>2, <1>3, <1>4, <1>5

-----------------------------------------------------------------------------
(* The steps of the url, the user and the drivers keep the invariant. *)

LEMMA ForwardTerminateStep ==
  ASSUME SlotsInv, ForwardTerminate
  PROVE  SlotsInv'
<1>. DEFINE d == CallF("srcupdate", F, Head(todo).tags)
            c == IF flags[F] \cap {"DISPOSED", "POSTNOGOOD"} = {} THEN <<d>> ELSE <<>>
<1>1. todo # <<>> /\ Head(todo).op = "forward" /\ Head(todo).op \notin LateOps
  BY DEF ForwardTerminate, At, LateOps
<1>2. F \in Fetches /\ life[F] # "new" /\ Head(todo).tags \in TagSets
  <2>1. "forward" \in OfFetch \ {"dispose"}
    BY DEF OfFetch
  <2>. QED  BY <1>1, <2>1, HeadGood DEF GoodCall, F
<1>3. GoodCall(d, life) /\ d.op \notin LateOps
  BY <1>2, FetchCallPlain
<1>. HIDE DEF d
<1>4. PlainCalls(c, life)
  BY <1>3, PlainOne, PlainNone
<1>5. Do(c)
  BY DEF ForwardTerminate, d
<1>. HIDE DEF c
<1>6. UrlsGood
  BY UrlsSame DEF ForwardTerminate, fetchVars
<1>. QED  BY <1>1, <1>4, <1>5, <1>6, KeptDoStep DEF ForwardTerminate

LEMMA SrcupdateIgnoredStep ==
  ASSUME SlotsInv, SrcupdateIgnored
  PROVE  SlotsInv'
<1>1. todo # <<>> /\ Head(todo).op \notin LateOps
  BY DEF SrcupdateIgnored, At, LateOps
<1>2. UrlsGood
  BY UrlsSame DEF SrcupdateIgnored, fetchVars
<1>. QED  BY <1>1, <1>2, PlainNone, KeptDoStep DEF SrcupdateIgnored

\* What an update is about.
LEMMA SrcupdateHead ==
  ASSUME SlotsInv, At("srcupdate")
  PROVE  /\ todo # <<>> /\ Head(todo).op \notin LateOps
         /\ F \in Fetches /\ life[F] # "new" /\ url[F] \in Urls
         /\ Head(todo).tags \in TagSets
         /\ GoodCall(Head(todo), life)
<1>1. todo # <<>> /\ Head(todo).op = "srcupdate" /\ Head(todo).op \notin LateOps
  BY DEF At, LateOps
<1>2. "srcupdate" \in OfFetch \ {"dispose"}
  BY DEF OfFetch
<1>3. F \in Fetches /\ life[F] # "new" /\ Head(todo).tags \in TagSets
  BY <1>1, <1>2, HeadGood DEF GoodCall, F
<1>. QED  BY <1>1, <1>3, HeadGood DEF SlotsInv, Known

\* The pointers of the urls are to fetches that were made.
LEMMA PointerFacts ==
  ASSUME SlotsInv, NEW u \in Urls
  PROVE  /\ fetch[u] \in Fetches \cup {NoFetch} /\ rfetch[u] \in Fetches \cup {NoFetch}
         /\ vfetch[u] \in Fetches \cup {NoFetch}
         /\ fetch[u] \in Fetches => life[fetch[u]] # "new"
         /\ rfetch[u] \in Fetches => life[rfetch[u]] # "new"
         /\ vfetch[u] \in Fetches => life[vfetch[u]] # "new"
<1>1. \A f \in Fetches : f \in {fetch[u], rfetch[u], vfetch[u]} => life[f] # "new"
  BY DEF SlotsInv, Known
<1>. QED  BY <1>1 DEF SlotsInv, TypeOK

LEMMA PromoteStep ==
  ASSUME SlotsInv, Promote
  PROVE  SlotsInv'
<1>. DEFINE u == url[F]
            d == CallF("dispose", rfetch[u], {})
<1>1. /\ todo # <<>> /\ Head(todo).op \notin LateOps
      /\ F \in Fetches /\ life[F] # "new" /\ u \in Urls /\ GoodCall(Head(todo), life)
  BY SrcupdateHead DEF Promote
<1>2. /\ fetch' = Set(fetch, u, F) /\ vfetch' = Set(vfetch, u, NoFetch)
      /\ rfetch' = Set(rfetch, u, NoFetch)
      /\ movedto' = movedto /\ waitrequests' = waitrequests
      /\ UNCHANGED <<fetchVars, queueVars>> /\ Do(<<d, Head(todo)>>)
  BY DEF Promote
<1>. HIDE DEF u
<1>3. GoodCall(d, life) /\ d.op \notin LateOps
  BY <1>1, PointerFacts, DisposePlain
<1>. HIDE DEF d
<1>4. PlainCalls(<<d, Head(todo)>>, life)
  BY <1>1, <1>3, PlainTwo
<1>5. UrlsGood
  <2>1. life' = life
    BY <1>2 DEF fetchVars
  <2>2. NoFetch \notin Fetches
    BY FetchAssumption
  <2>3. /\ fetch \in [Urls -> Fetches \cup {NoFetch}] /\ rfetch \in [Urls -> Fetches \cup {NoFetch}]
        /\ vfetch \in [Urls -> Fetches \cup {NoFetch}] /\ movedto \in [Urls -> Urls \cup {NoUrl}]
        /\ waitrequests \subseteq Urls \cup {NoUrl}
        /\ \A v \in Urls : \A f \in Fetches : f \in {fetch[v], rfetch[v], vfetch[v]} => life[f] # "new"
    BY DEF SlotsInv, TypeOK, Known
  <2>. QED  BY <1>1, <1>2, <2>1, <2>2, <2>3 DEF UrlsGood, Set
<1>. QED  BY <1>1, <1>2, <1>4, <1>5, KeptDoStep

LEMMA VerifiedStep ==
  ASSUME SlotsInv, Verified
  PROVE  SlotsInv'
<1>. DEFINE u == url[F]
            d == CallF("dispose", F, {})
            e == CallU("load", u, {"history"})
            p == IF "Error" \in Head(todo).tags THEN <<d>> ELSE <<>>
            q(fast) == IF fast THEN <<>> ELSE <<e>>
<1>1. /\ todo # <<>> /\ Head(todo).op \notin LateOps
      /\ F \in Fetches /\ life[F] # "new" /\ u \in Urls
  BY SrcupdateHead DEF Verified
<1>2. PICK fast \in Fastresponse :
        /\ vfetch' = Set(vfetch, u, NoFetch)
        /\ Do(p \o q(fast))
        /\ UNCHANGED <<fetchVars, queueVars, fetch, rfetch, movedto, waitrequests>>
  BY DEF Verified
<1>3. GoodCall(d, life) /\ d.op \notin LateOps
  BY <1>1, DisposePlain
<1>4. GoodCall(e, life) /\ e.op \notin LateOps
  <2>1. "load" \in OfUrl
    BY DEF OfUrl
  <2>. QED  BY <2>1, <1>1, UrlCallPlain, TagsIn
<1>5. PlainCalls(p, life)
  BY <1>3, PlainOne, PlainNone
<1>6. PlainCalls(q(fast), life)
  BY <1>4, PlainOne, PlainNone
<1>. HIDE DEF p, q
<1>7. PlainCalls(p \o q(fast), life)
  BY <1>5, <1>6, PlainConcat
<1>. HIDE DEF u
<1>8. UrlsGood
  <2>1. life' = life
    BY <1>2 DEF fetchVars
  <2>2. NoFetch \notin Fetches
    BY FetchAssumption
  <2>3. /\ fetch \in [Urls -> Fetches \cup {NoFetch}] /\ rfetch \in [Urls -> Fetches \cup {NoFetch}]
        /\ vfetch \in [Urls -> Fetches \cup {NoFetch}] /\ movedto \in [Urls -> Urls \cup {NoUrl}]
        /\ waitrequests \subseteq Urls \cup {NoUrl}
        /\ \A v \in Urls : \A f \in Fetches : f \in {fetch[v], rfetch[v], vfetch[v]} => life[f] # "new"
    BY DEF SlotsInv, TypeOK, Known
  <2>. QED  BY <1>1, <1>2, <2>1, <2>2, <2>3 DEF UrlsGood, Set
<1>9. UNCHANGED <<fetchVars, queueVars>>
  BY <1>2
<1>. QED  BY <1>1, <1>2, <1>7, <1>8, <1>9, KeptDoStep

LEMMA MoveurlStep ==
  ASSUME SlotsInv, Moveurl
  PROVE  SlotsInv'
<1>1. /\ todo # <<>> /\ Head(todo).op \notin LateOps
      /\ F \in Fetches /\ url[F] \in Urls
  BY SrcupdateHead DEF Moveurl
<1>2. PICK v \in Urls :
        /\ movedto' = Set(movedto, url[F], v)
        /\ \/ Do(<<>>)
           \/ \E how \in {{}, {"reload"}} : Do(<<CallU("load", v, how)>>)
  BY DEF Moveurl
<1>3. UNCHANGED <<fetchVars, queueVars, fetch, rfetch, vfetch, waitrequests>>
  BY DEF Moveurl
<1>4. UrlsGood
  <2>1. life' = life
    BY <1>3 DEF fetchVars
  <2>2. /\ fetch \in [Urls -> Fetches \cup {NoFetch}] /\ rfetch \in [Urls -> Fetches \cup {NoFetch}]
        /\ vfetch \in [Urls -> Fetches \cup {NoFetch}] /\ movedto \in [Urls -> Urls \cup {NoUrl}]
        /\ waitrequests \subseteq Urls \cup {NoUrl}
        /\ \A w \in Urls : \A f \in Fetches : f \in {fetch[w], rfetch[w], vfetch[w]} => life[f] # "new"
    BY DEF SlotsInv, TypeOK, Known
  <2>. QED  BY <1>1, <1>2, <1>3, <2>1, <2>2 DEF UrlsGood, Set
<1>5. UNCHANGED <<fetchVars, queueVars>>
  BY <1>3
<1>6. CASE Do(<<>>)
  BY <1>1, <1>4, <1>5, <1>6, PlainNone, KeptDoStep
<1>7. ASSUME NEW how \in {{}, {"reload"}}, Do(<<CallU("load", v, how)>>)
      PROVE  SlotsInv'
  <2>. DEFINE e == CallU("load", v, how)
  <2>1. "load" \in OfUrl /\ how \in TagSets
    BY TagsIn DEF OfUrl
  <2>2. GoodCall(e, life) /\ e.op \notin LateOps
    BY <2>1, UrlCallPlain
  <2>3. Do(<<e>>)
    BY <1>7
  <2>. HIDE DEF e
  <2>4. PlainCalls(<<e>>, life)
    BY <2>2, PlainOne
  <2>. QED  BY <1>1, <1>4, <1>5, <2>3, <2>4, KeptDoStep
<1>. QED  BY <1>2, <1>6, <1>7

LEMMA SrcupdatefetchStep ==
  ASSUME SlotsInv, Srcupdatefetch
  PROVE  SlotsInv'
<1>1. /\ todo # <<>> /\ Head(todo).op \notin LateOps
      /\ F \in Fetches /\ life[F] # "new" /\ url[F] \in Urls
  BY SrcupdateHead DEF Srcupdatefetch
<1>2. /\ UNCHANGED <<life, url, task, queueVars, vfetch, movedto, waitrequests>>
      /\ Do(<<>>)
      /\ \/ fetch' = Set(fetch, url[F], NoFetch) /\ rfetch' = Set(rfetch, url[F], NoFetch)
         \/ fetch' = fetch /\ rfetch' = rfetch
      /\ \/ flags' = flags /\ stop' = stop
         \/ flags' = With(F, {"CANCELLED"}) /\ stop' = [stop EXCEPT ![F] = TRUE]
  BY DEF Srcupdatefetch, Stop
<1>3. flags \in [Fetches -> SUBSET Flags] /\ stop \in [Fetches -> BOOLEAN]
      /\ \A f \in Fetches : life[f] = "new" => flags[f] = {}
  BY DEF SlotsInv, TypeOK, Known
<1>4. stop' \in [Fetches -> BOOLEAN]
  BY <1>2, <1>3
<1>5. /\ flags' \in [Fetches -> SUBSET Flags]
      /\ \A g \in Fetches :
           /\ \A c \in {"RUNNING", "USESLOT", "NETSLOT", "LOCALSLOT"} :
                c \in flags'[g] <=> c \in flags[g]
           /\ "INCOMPLETE" \in flags'[g] => "INCOMPLETE" \in flags[g]
           /\ life[g] = "new" => flags'[g] = {}
  <2>1. CASE flags' = flags
    BY <2>1, <1>3
  <2>2. CASE flags' = With(F, {"CANCELLED"})
    BY <2>2, <1>1, FlagAdded
  <2>. QED  BY <2>1, <2>2, <1>2
<1>6. UrlsGood
  <2>1. NoFetch \notin Fetches
    BY FetchAssumption
  <2>2. /\ fetch \in [Urls -> Fetches \cup {NoFetch}] /\ rfetch \in [Urls -> Fetches \cup {NoFetch}]
        /\ vfetch \in [Urls -> Fetches \cup {NoFetch}] /\ movedto \in [Urls -> Urls \cup {NoUrl}]
        /\ waitrequests \subseteq Urls \cup {NoUrl}
        /\ \A v \in Urls : \A f \in Fetches : f \in {fetch[v], rfetch[v], vfetch[v]} => life[f] # "new"
    BY DEF SlotsInv, TypeOK, Known
  <2>. QED  BY <1>1, <1>2, <2>1, <2>2 DEF UrlsGood, Set
<1>7. UNCHANGED <<life, url, task, queueVars>>
  BY <1>2
<1>. QED  BY <1>1, <1>2, <1>4, <1>5, <1>6, <1>7, PlainNone, QuietDoStep

\* The calls of a plan of Loadurl() or Cancelfetch().
LEMMA CallsUPlain ==
  ASSUME NEW ops \in Seq(OfUrl), NEW u \in Urls, NEW lf
  PROVE  PlainCalls(CallsU(ops, u), lf)
<1>. DEFINE S == Call
<1>. HIDE DEF S
<1>1. Len(ops) \in Nat /\ \A i \in 1..Len(ops) : ops[i] \in OfUrl
  BY ElementOfSeq
<1>2. \A i \in 1..Len(ops) :
        GoodCall(CallU(ops[i], u, {}), lf) /\ CallU(ops[i], u, {}).op \notin LateOps
  BY <1>1, TagsIn, UrlCallPlain
<1>3. \A i \in 1..Len(ops) : CallU(ops[i], u, {}) \in S
  BY <1>2 DEF GoodCall, S
<1>. DEFINE n == Len(ops)
            q == [i \in 1..n |-> CallU(ops[i], u, {})]
<1>. HIDE DEF n
<1>4. q \in Seq(S) /\ Len(q) = n /\ \A i \in 1..n : q[i] = CallU(ops[i], u, {})
  BY <1>1, <1>3 DEF n
<1>5. PlainCalls(q, lf)
  BY <1>2, <1>4 DEF PlainCalls, S, n
<1>. QED  BY <1>5 DEF CallsU, n

LEMMA LoadurlStep ==
  ASSUME SlotsInv, Loadurl
  PROVE  SlotsInv'
<1>1. /\ todo # <<>> /\ Head(todo).op \notin LateOps
      /\ UNCHANGED <<fetchVars, queueVars, urlVars, waitrequests>>
  BY DEF Loadurl, At, LateOps
<1>2. PICK u \in Finalurls(U) :
        \/ Do(<<>>)
        \/ \E history \in BOOLEAN : \E plan \in Plans(history) : Do(CallsU(plan, u))
  BY DEF Loadurl
<1>3. u \in Urls
  BY <1>2 DEF Finalurls, Reach
<1>4. UrlsGood
  BY <1>1, UrlsSame DEF fetchVars
<1>5. UNCHANGED <<fetchVars, queueVars>>
  BY <1>1
<1>6. CASE Do(<<>>)
  BY <1>1, <1>4, <1>5, <1>6, PlainNone, KeptDoStep
<1>7. ASSUME NEW history \in BOOLEAN, NEW plan \in Plans(history), Do(CallsU(plan, u))
      PROVE  SlotsInv'
  <2>1. plan \in Seq(OfUrl)
    <3>1. {"newfetch", "newrfetch", "newvfetch"} \subseteq OfUrl
      BY DEF OfUrl
    <3>. DEFINE S == OfUrl
    <3>. HIDE DEF S
    <3>2. "newfetch" \in S /\ "newrfetch" \in S /\ "newvfetch" \in S
      BY <3>1 DEF S
    <3>3. /\ <<>> \in Seq(S) /\ <<"newfetch">> \in Seq(S) /\ <<"newrfetch">> \in Seq(S)
          /\ <<"newvfetch">> \in Seq(S) /\ <<"newrfetch", "newvfetch">> \in Seq(S)
      BY <3>2
    <3>4. \/ plan = <<>> \/ plan = <<"newfetch">> \/ plan = <<"newrfetch">>
          \/ plan = <<"newvfetch">> \/ plan = <<"newrfetch", "newvfetch">>
      BY DEF Plans
    <3>. QED  BY <3>3, <3>4 DEF S
  <2>2. PlainCalls(CallsU(plan, u), life)
    BY <1>3, <2>1, CallsUPlain
  <2>. QED  BY <1>1, <1>4, <1>5, <1>7, <2>2, KeptDoStep
<1>. QED  BY <1>2, <1>6, <1>7

LEMMA ReloadStep ==
  ASSUME SlotsInv, Reload
  PROVE  SlotsInv'
<1>. DEFINE a == CallF("dispose", fetch[U], {})
            b == CallF("dispose", rfetch[U], {})
            c == CallF("dispose", vfetch[U], {})
            d == CallU("newfetch", U, {})
<1>1. /\ todo # <<>> /\ Head(todo).op = "load" /\ Head(todo).op \notin LateOps
      /\ Do(<<a, b, c, d>>)
      /\ fetch' = Set(fetch, U, NoFetch) /\ rfetch' = Set(rfetch, U, NoFetch)
      /\ vfetch' = Set(vfetch, U, NoFetch) /\ movedto' = Set(movedto, U, NoUrl)
      /\ UNCHANGED <<fetchVars, queueVars, waitrequests>>
  BY DEF Reload, At, LateOps
<1>2. U \in Urls
  <2>1. "load" \in OfUrl
    BY DEF OfUrl
  <2>. QED  BY <1>1, <2>1, HeadGood DEF GoodCall, U
<1>3. /\ GoodCall(a, life) /\ a.op \notin LateOps
      /\ GoodCall(b, life) /\ b.op \notin LateOps
      /\ GoodCall(c, life) /\ c.op \notin LateOps
  BY <1>2, PointerFacts, DisposePlain
<1>4. GoodCall(d, life) /\ d.op \notin LateOps
  <2>1. "newfetch" \in OfUrl
    BY DEF OfUrl
  <2>. QED  BY <2>1, <1>2, TagsIn, UrlCallPlain
<1>. HIDE DEF a, b, c, d
<1>5. PlainCalls(<<a, b, c, d>>, life)
  BY <1>3, <1>4, PlainFour
<1>6. UrlsGood
  <2>1. life' = life
    BY <1>1 DEF fetchVars
  <2>2. NoFetch \notin Fetches
    BY FetchAssumption
  <2>3. /\ fetch \in [Urls -> Fetches \cup {NoFetch}] /\ rfetch \in [Urls -> Fetches \cup {NoFetch}]
        /\ vfetch \in [Urls -> Fetches \cup {NoFetch}] /\ movedto \in [Urls -> Urls \cup {NoUrl}]
        /\ waitrequests \subseteq Urls \cup {NoUrl}
        /\ \A v \in Urls : \A f \in Fetches : f \in {fetch[v], rfetch[v], vfetch[v]} => life[f] # "new"
    BY DEF SlotsInv, TypeOK, Known
  <2>. QED  BY <1>1, <1>2, <2>1, <2>2, <2>3 DEF UrlsGood, Set
<1>7. UNCHANGED <<fetchVars, queueVars>>
  BY <1>1
<1>. QED  BY <1>1, <1>5, <1>6, <1>7, KeptDoStep

-----------------------------------------------------------------------------
(* Cancelling, the user's events, and what drivers send. *)

\* The calls that Setfetch() with AOFCH_Cancel makes.
CancelCalls(f) ==
  IF Has(f, "RUNNING") THEN <<CallF("srcupdate", f, {"Error"})>>
  ELSE IF Has(f, "QUEUED")
  THEN <<CallF("srcupdate", f, {"Terminate"}), CallF("dispose", f, {})>>
  ELSE <<>>

\* AOFCH_Cancel only marks the fetch and tells its driver to stop.
LEMMA CancelFacts ==
  ASSUME SlotsInv, NEW f \in Fetches, life[f] # "new", NEW calls, Cancel(f, calls)
  PROVE  /\ todo' = CancelCalls(f) \o calls /\ PlainCalls(CancelCalls(f), life)
         /\ flags' \in [Fetches -> SUBSET Flags] /\ stop' \in [Fetches -> BOOLEAN]
         /\ \A g \in Fetches :
              /\ \A c \in {"RUNNING", "USESLOT", "NETSLOT", "LOCALSLOT"} :
                   c \in flags'[g] <=> c \in flags[g]
              /\ "INCOMPLETE" \in flags'[g] => "INCOMPLETE" \in flags[g]
              /\ life[g] = "new" => flags'[g] = {}
<1>. DEFINE a == CallF("srcupdate", f, {"Error"})
            b == CallF("srcupdate", f, {"Terminate"})
            d == CallF("dispose", f, {})
<1>1. todo' = CancelCalls(f) \o calls /\ flags' = With(f, {"CANCELLED"})
  BY DEF Cancel, CancelCalls
<1>2. stop' \in [Fetches -> BOOLEAN]
  <2>1. stop \in [Fetches -> BOOLEAN]
    BY DEF SlotsInv, TypeOK
  <2>2. Has(f, "RUNNING") \in BOOLEAN
    BY DEF Has
  <2>3. stop' = [stop EXCEPT ![f] = stop[f] \/ Has(f, "RUNNING")]
    BY DEF Cancel
  <2>. QED  BY <2>1, <2>2, <2>3
<1>3. /\ GoodCall(a, life) /\ a.op \notin LateOps
      /\ GoodCall(b, life) /\ b.op \notin LateOps
      /\ GoodCall(d, life) /\ d.op \notin LateOps
  BY TagsIn, FetchCallPlain
<1>. HIDE DEF a, b, d
<1>4. PlainCalls(<<a>>, life) /\ PlainCalls(<<b, d>>, life) /\ PlainCalls(<<>>, life)
  BY <1>3, PlainOne, PlainTwo, PlainNone
<1>5. CancelCalls(f) = <<a>> \/ CancelCalls(f) = <<b, d>> \/ CancelCalls(f) = <<>>
  BY DEF CancelCalls, a, b, d
<1>6. /\ flags' \in [Fetches -> SUBSET Flags]
      /\ \A g \in Fetches :
           /\ \A c \in {"RUNNING", "USESLOT", "NETSLOT", "LOCALSLOT"} :
                c \in flags'[g] <=> c \in flags[g]
           /\ "INCOMPLETE" \in flags'[g] => "INCOMPLETE" \in flags[g]
           /\ life[g] = "new" => flags'[g] = {}
  BY <1>1, FlagAdded
<1>. QED  BY <1>1, <1>2, <1>4, <1>5, <1>6

LEMMA CancelpointerStep ==
  ASSUME SlotsInv, NEW op \in {"cancelfetch", "cancelrfetch", "cancelvfetch"},
         \/ Cancelpointer(op, fetch) \/ Cancelpointer(op, rfetch) \/ Cancelpointer(op, vfetch)
  PROVE  SlotsInv'
<1>1. /\ todo # <<>> /\ Head(todo).op \notin LateOps /\ Head(todo).op \in OfUrl
      /\ UNCHANGED <<life, url, task, queueVars, urlVars, waitrequests>>
  BY DEF Cancelpointer, At, LateOps, OfUrl
<1>2. U \in Urls
  BY <1>1, HeadGood DEF GoodCall, U
<1>3. UrlsGood
  BY <1>1, UrlsSame
<1>4. PICK f \in {fetch[U], rfetch[U], vfetch[U]} :
        \/ f = NoFetch /\ Do(<<>>) /\ UNCHANGED <<flags, stop>>
        \/ f # NoFetch /\ Cancel(f, Tail(todo))
  BY DEF Cancelpointer
<1>5. f \in Fetches \cup {NoFetch} /\ (f \in Fetches => life[f] # "new")
  BY <1>2, PointerFacts
<1>6. CASE Do(<<>>) /\ UNCHANGED <<flags, stop>>
  <2>1. UNCHANGED <<fetchVars, queueVars>>
    BY <1>1, <1>6 DEF fetchVars
  <2>. QED  BY <1>1, <1>3, <1>6, <2>1, PlainNone, KeptDoStep
<1>7. CASE f # NoFetch /\ Cancel(f, Tail(todo))
  <2>1. f \in Fetches /\ life[f] # "new"
    BY <1>5, <1>7
  <2>2. /\ todo' = CancelCalls(f) \o Tail(todo) /\ PlainCalls(CancelCalls(f), life)
        /\ flags' \in [Fetches -> SUBSET Flags] /\ stop' \in [Fetches -> BOOLEAN]
        /\ \A g \in Fetches :
             /\ \A c \in {"RUNNING", "USESLOT", "NETSLOT", "LOCALSLOT"} :
                  c \in flags'[g] <=> c \in flags[g]
             /\ "INCOMPLETE" \in flags'[g] => "INCOMPLETE" \in flags[g]
             /\ life[g] = "new" => flags'[g] = {}
    BY <1>7, <2>1, CancelFacts
  <2>3. Do(CancelCalls(f))
    BY <2>2 DEF Do
  <2>. QED  BY <1>1, <1>3, <2>2, <2>3, QuietDoStep
<1>. QED  BY <1>4, <1>6, <1>7

LEMMA CancelnetstatStep ==
  ASSUME SlotsInv, NEW f \in Fetches, Cancelnetstat(f)
  PROVE  SlotsInv'
<1>1. /\ Idle /\ life[f] # "new" /\ Cancel(f, <<>>)
      /\ UNCHANGED <<life, url, task, queueVars, urlVars, waitrequests>>
  BY DEF Cancelnetstat
<1>2. /\ todo' = CancelCalls(f) \o <<>> /\ PlainCalls(CancelCalls(f), life)
      /\ flags' \in [Fetches -> SUBSET Flags] /\ stop' \in [Fetches -> BOOLEAN]
      /\ \A g \in Fetches :
           /\ \A c \in {"RUNNING", "USESLOT", "NETSLOT", "LOCALSLOT"} :
                c \in flags'[g] <=> c \in flags[g]
           /\ "INCOMPLETE" \in flags'[g] => "INCOMPLETE" \in flags[g]
           /\ life[g] = "new" => flags'[g] = {}
  BY <1>1, CancelFacts
<1>3. CancelCalls(f) \o <<>> = CancelCalls(f)
  <2>. DEFINE S == Call
  <2>. HIDE DEF S
  <2>1. CancelCalls(f) \in Seq(S)
    BY <1>2 DEF PlainCalls, S
  <2>. QED  BY <2>1, ConcatEmptySeq
<1>4. Event(CancelCalls(f))
  BY <1>1, <1>2, <1>3 DEF Event
<1>5. UrlsGood
  BY <1>1, UrlsSame
<1>. QED  BY <1>1, <1>2, <1>4, <1>5, QuietEventStep

LEMMA AuloadStep ==
  ASSUME SlotsInv, NEW u \in Urls, Auload(u)
  PROVE  SlotsInv'
<1>1. /\ UNCHANGED <<fetchVars, queueVars, urlVars, waitrequests>>
      /\ \E how \in {{}, {"reload"}} : Event(<<CallU("load", u, how)>>)
  BY DEF Auload
<1>2. PICK how \in {{}, {"reload"}} : Event(<<CallU("load", u, how)>>)
  BY <1>1
<1>. DEFINE e == CallU("load", u, how)
<1>3. "load" \in OfUrl /\ how \in TagSets
  BY TagsIn DEF OfUrl
<1>4. GoodCall(e, life) /\ e.op \notin LateOps
  BY <1>3, UrlCallPlain
<1>5. Event(<<e>>)
  BY <1>2
<1>. HIDE DEF e
<1>6. PlainCalls(<<e>>, life)
  BY <1>4, PlainOne
<1>7. UrlsGood
  BY <1>1, UrlsSame DEF fetchVars
<1>. QED  BY <1>1, <1>5, <1>6, <1>7, KeptEventStep

LEMMA CancelfetchStep ==
  ASSUME SlotsInv, NEW u \in Urls, Cancelfetch(u)
  PROVE  SlotsInv'
<1>. DEFINE ops == <<"cancelfetch", "cancelrfetch", "cancelvfetch">>
<1>1. UNCHANGED <<fetchVars, queueVars, urlVars, waitrequests>>
  BY DEF Cancelfetch
<1>2. PICK v \in Finalurls(u) : Event(CallsU(ops, v))
  BY DEF Cancelfetch
<1>3. v \in Urls
  BY <1>2 DEF Finalurls, Reach
<1>4. ops \in Seq(OfUrl)
  <2>. DEFINE S == OfUrl
  <2>1. "cancelfetch" \in S /\ "cancelrfetch" \in S /\ "cancelvfetch" \in S
    BY DEF OfUrl
  <2>. HIDE DEF S
  <2>2. ops \in Seq(S)
    BY <2>1
  <2>. QED  BY <2>2 DEF S
<1>. HIDE DEF ops
<1>5. PlainCalls(CallsU(ops, v), life)
  BY <1>3, <1>4, CallsUPlain
<1>6. UrlsGood
  BY <1>1, UrlsSame DEF fetchVars
<1>. QED  BY <1>1, <1>2, <1>5, <1>6, KeptEventStep

LEMMA AddwaitrequestStep ==
  ASSUME SlotsInv, NEW w \in Urls \cup {NoUrl}, Addwaitrequest(w)
  PROVE  SlotsInv'
<1>1. /\ Idle /\ todo' = todo
      /\ UNCHANGED <<fetchVars, queueVars, urlVars>>
      /\ waitrequests' = waitrequests \cup {w} \/ waitrequests' = waitrequests
  BY DEF Addwaitrequest
<1>2. UrlsGood
  BY <1>1 DEF SlotsInv, TypeOK, Known, UrlsGood, fetchVars, urlVars
<1>3. Event(<<>>)
  BY <1>1 DEF Event, Idle
<1>. QED  BY <1>1, <1>2, <1>3, PlainNone, KeptEventStep

\* An update is of a fetch that has a driver.
LEMMA UpdateHead ==
  ASSUME SlotsInv, NEW f \in Fetches, NEW name, Updatefetch(f, name)
  PROVE  /\ Idle /\ life[f] = "live" /\ task[f] /\ "RUNNING" \in flags[f]
         /\ ~In(netqueue, f) /\ ~In(localqueue, f)
BY DEF Updatefetch, SlotsInv, SlotRuns, WaitsApart

\* An update is forwarded as a plain call.
LEMMA ForwardPlain ==
  ASSUME SlotsInv, NEW f \in Fetches, life[f] # "new", NEW tags \in TagSets, Forward(f, tags)
  PROVE  \E c : PlainCalls(c, life) /\ Event(c)
<1>. DEFINE d == CallF("srcupdate", f, tags)
<1>1. GoodCall(d, life) /\ d.op \notin LateOps
  BY FetchCallPlain
<1>2. Event(<<d>>) \/ Event(<<>>)
  BY DEF Forward
<1>. HIDE DEF d
<1>3. PlainCalls(<<d>>, life) /\ PlainCalls(<<>>, life)
  BY <1>1, PlainOne, PlainNone
<1>. QED  BY <1>2, <1>3

LEMMA DriverUpdateStep ==
  ASSUME SlotsInv, NEW f \in Fetches, DriverUpdate(f)
  PROVE  SlotsInv'
<1>1. /\ life[f] # "new"
      /\ UNCHANGED <<life, url, task, queueVars, urlVars, waitrequests>>
  BY DEF DriverUpdate, UpdateData, UpdateError, UpdateMoved, UpdateNotmodified,
         UpdatePostnogood, Updatefetch, fetchVars
<1>2. UrlsGood
  BY <1>1, UrlsSame
<1>3. stop \in [Fetches -> BOOLEAN] /\ flags \in [Fetches -> SUBSET Flags]
  BY DEF SlotsInv, TypeOK
<1>4. stop' \in [Fetches -> BOOLEAN]
  <2>1. stop' = stop \/ stop' = [stop EXCEPT ![f] = TRUE]
    BY DEF DriverUpdate, UpdateData, UpdateError, UpdateMoved, UpdateNotmodified,
           UpdatePostnogood, Stop, fetchVars
  <2>. QED  BY <1>3, <2>1
<1>5. /\ flags' \in [Fetches -> SUBSET Flags]
      /\ \A g \in Fetches :
           /\ \A c \in {"RUNNING", "USESLOT", "NETSLOT", "LOCALSLOT"} :
                c \in flags'[g] <=> c \in flags[g]
           /\ "INCOMPLETE" \in flags'[g] => "INCOMPLETE" \in flags[g]
           /\ life[g] = "new" => flags'[g] = {}
  <2>1. \/ flags' = flags
        \/ flags' = With(f, {"NOTMODIFIED"}) \/ flags' = With(f, {"POSTNOGOOD"})
    BY DEF DriverUpdate, UpdateData, UpdateError, UpdateMoved, UpdateNotmodified,
           UpdatePostnogood, fetchVars
  <2>2. \A g \in Fetches : life[g] = "new" => flags[g] = {}
    BY DEF SlotsInv, Known
  <2>3. CASE flags' = flags
    BY <2>2, <2>3, <1>3
  <2>4. CASE flags' = With(f, {"NOTMODIFIED"})
    BY <1>1, <2>4, FlagAdded
  <2>5. CASE flags' = With(f, {"POSTNOGOOD"})
    BY <1>1, <2>5, FlagAdded
  <2>. QED  BY <2>1, <2>3, <2>4, <2>5
<1>6. \E c : PlainCalls(c, life) /\ Event(c)
  <2>1. \/ Event(<<>>) \/ Forward(f, {"Data"}) \/ Forward(f, {"Error"}) \/ Forward(f, {"Moved"})
    BY DEF DriverUpdate, UpdateData, UpdateError, UpdateMoved, UpdateNotmodified,
           UpdatePostnogood
  <2>2. CASE Event(<<>>)
    BY <2>2, PlainNone
  <2>3. ASSUME NEW tags \in TagSets, Forward(f, tags)
        PROVE  \E c : PlainCalls(c, life) /\ Event(c)
    BY <1>1, <2>3, ForwardPlain
  <2>. QED  BY <2>1, <2>2, <2>3, TagsIn
<1>7. PICK c : PlainCalls(c, life) /\ Event(c)
  BY <1>6
<1>8. UNCHANGED <<life, url, task, queueVars>>
  BY <1>1
<1>. QED  BY <1>2, <1>4, <1>5, <1>7, <1>8, QuietEventStep

-----------------------------------------------------------------------------
(* So do the steps that start, end, queue or free a fetch. *)

LEMMA DisposefetchStep ==
  ASSUME SlotsInv, Disposefetch
  PROVE  SlotsInv'
<1>1. /\ todo # <<>> /\ Head(todo).op = "dispose" /\ Head(todo).op \notin LateOps
      /\ Do(<<>>)
      /\ url' = url /\ task' = task /\ nrnet' = nrnet /\ nrlocal' = nrlocal
      /\ UNCHANGED urlVars
  BY DEF Disposefetch, At, LateOps
<1>2. F \in Fetches \cup {NoFetch} /\ (F \in Fetches => life[F] # "new")
  BY <1>1, HeadGood DEF GoodCall, F
<1>3. /\ flags \in [Fetches -> SUBSET Flags] /\ stop \in [Fetches -> BOOLEAN]
      /\ \A g \in Fetches : life[g] = "new" => flags[g] = {}
  BY DEF SlotsInv, TypeOK, Known
<1>4. CASE UNCHANGED <<life, flags, stop, netqueue, localqueue, waitrequests>>
  <2>1. UNCHANGED <<fetchVars, queueVars>>
    BY <1>1, <1>4 DEF fetchVars, queueVars
  <2>2. UrlsGood
    BY <1>1, <1>4, UrlsSame
  <2>. QED  BY <1>1, <2>1, <2>2, PlainNone, KeptDoStep
<1>5. CASE /\ F # NoFetch /\ flags' = With(F, {"DISPOSED"})
           /\ stop' = [stop EXCEPT ![F] = stop[F] \/ Has(F, "RUNNING")]
           /\ UNCHANGED <<life, netqueue, localqueue, waitrequests>>
  <2>1. F \in Fetches /\ life[F] # "new"
    BY <1>2, <1>5
  <2>2. stop' \in [Fetches -> BOOLEAN]
    <3>1. Has(F, "RUNNING") \in BOOLEAN
      BY DEF Has
    <3>. QED  BY <3>1, <1>3, <1>5
  <2>3. UrlsGood
    BY <1>1, <1>5, UrlsSame
  <2>4. UNCHANGED <<life, url, task, queueVars>>
    BY <1>1, <1>5 DEF queueVars
  <2>5. /\ flags' \in [Fetches -> SUBSET Flags]
        /\ \A g \in Fetches :
             /\ \A c \in {"RUNNING", "USESLOT", "NETSLOT", "LOCALSLOT"} :
                  c \in flags'[g] <=> c \in flags[g]
             /\ "INCOMPLETE" \in flags'[g] => "INCOMPLETE" \in flags[g]
             /\ life[g] = "new" => flags'[g] = {}
    BY <2>1, <1>5, FlagAdded
  <2>. QED  BY <1>1, <2>2, <2>3, <2>4, <2>5, PlainNone, QuietDoStep
<1>6. CASE F # NoFetch /\ ~Has(F, "RUNNING") /\ Free(F)
  <2>. DEFINE f == F
  <2>1. f \in Fetches
    BY <1>2, <1>6
  <2>2. /\ life' = [life EXCEPT ![f] = "freed"] /\ flags' = [flags EXCEPT ![f] = {}]
        /\ stop' = [stop EXCEPT ![f] = FALSE]
        /\ netqueue' = Unlink(netqueue, f) /\ localqueue' = Unlink(localqueue, f)
        /\ waitrequests' \subseteq waitrequests
        /\ "RUNNING" \notin flags[f]
    BY <1>6 DEF Free, Checkwaitrequests, Has
  <2>3. life[f] # "new"
    BY <1>2, <1>6
  <2>. HIDE DEF f
  <2>4. /\ life \in [Fetches -> {"new", "live", "freed"}]
        /\ url \in [Fetches -> Urls \cup {NoUrl}] /\ task \in [Fetches -> BOOLEAN]
        /\ netqueue \in Seq(Fetches) /\ localqueue \in Seq(Fetches)
        /\ Distinct(netqueue) /\ Distinct(localqueue)
        /\ nrnet \in 0..Maxconnect /\ nrlocal \in 0..Maxdiskread
        /\ url[f] \in Urls
    BY <2>1, <2>3 DEF SlotsInv, TypeOK, Known, QueuesApart
  <2>5. life' \in [Fetches -> {"new", "live", "freed"}] /\ life'[f] = "freed"
        /\ \A g \in Fetches \ {f} : life'[g] = life[g]
    BY <2>1, <2>2, <2>4
  <2>6. \A g \in Fetches : life[g] # "new" => life'[g] # "new"
    BY <2>5
  <2>7. /\ GoodCalls(todo', life')
        /\ \A g : Ends(todo', g) <=> Ends(todo, g)
        /\ \A g : Resumes(todo', g) <=> Resumes(todo, g)
    BY <1>1, <2>6, PlainNone, QuietDo
  <2>8. "USESLOT" \notin flags[f] /\ ~task[f] /\ ~Ends(todo, f)
    BY <2>1, <2>2 DEF SlotsInv, SlotRuns
  <2>9. /\ Shorter(netqueue, netqueue') /\ ~In(netqueue', f)
        /\ Shorter(localqueue, localqueue') /\ ~In(localqueue', f)
    BY <2>1, <2>2, <2>4, UnlinkFacts
  <2>10. UrlsGood
    <3>1. /\ fetch' = fetch /\ rfetch' = rfetch /\ vfetch' = vfetch /\ movedto' = movedto
      BY <1>1 DEF urlVars
    <3>. QED  BY <3>1, <2>2, <2>6 DEF SlotsInv, TypeOK, Known, UrlsGood
  <2>11. OneFetch(f, {})
    BY <1>1, <1>3, <2>1, <2>2, <2>4, <2>5 DEF OneFetch
  <2>12. CallsOf(f, {})
    BY <2>7, <2>8 DEF CallsOf
  <2>13. FlagsOf(f, {})
    BY <1>1, <2>8, <2>9 DEF FlagsOf
  <2>14. CountOf(f, {})
    <3>1. /\ Occupies(flags[f], "NETSLOT") = 0 /\ Occupies(flags[f], "LOCALSLOT") = 0
          /\ Occupies({}, "NETSLOT") = 0 /\ Occupies({}, "LOCALSLOT") = 0
      BY <2>8 DEF Occupies
    <3>. QED  BY <3>1, <1>1, <2>4, FetchAssumption DEF CountOf
  <2>15. /\ QueueOf(netqueue, netqueue', f, {}, "NETSLOT")
         /\ QueueOf(localqueue, localqueue', f, {}, "LOCALSLOT")
    BY <2>9 DEF QueueOf, Shorter
  <2>. QED  BY <2>1, <2>10, <2>11, <2>12, <2>13, <2>14, <2>15, FetchStep
<1>. QED  BY <1>4, <1>5, <1>6 DEF Disposefetch

LEMMA DiscardStep ==
  ASSUME SlotsInv, Discard
  PROVE  SlotsInv'
<1>. DEFINE d == CallF("dispose", F, {})
<1>1. /\ todo # <<>> /\ Head(todo).op = "discard" /\ Head(todo).op \notin LateOps
      /\ Do(<<d>>)
      /\ flags' = [flags EXCEPT ![F] = (flags[F] \ {"INCOMPLETE"}) \cup {"DISPOSED"}]
      /\ UNCHANGED <<life, url, task, stop, queueVars, urlVars, waitrequests>>
  BY DEF Discard, At, LateOps
<1>2. F \in Fetches /\ life[F] # "new"
  <2>1. "discard" \in OfFetch \ {"dispose"}
    BY DEF OfFetch
  <2>. QED  BY <1>1, <2>1, HeadGood DEF GoodCall, F
<1>3. GoodCall(d, life) /\ d.op \notin LateOps
  BY <1>2, DisposePlain
<1>. HIDE DEF d
<1>4. PlainCalls(<<d>>, life)
  BY <1>3, PlainOne
<1>5. UrlsGood
  BY <1>1, UrlsSame
<1>6. /\ flags \in [Fetches -> SUBSET Flags] /\ stop \in [Fetches -> BOOLEAN]
      /\ \A g \in Fetches : life[g] = "new" => flags[g] = {}
  BY DEF SlotsInv, TypeOK, Known
<1>7. /\ flags' \in [Fetches -> SUBSET Flags]
      /\ \A g \in Fetches :
           /\ \A c \in {"RUNNING", "USESLOT", "NETSLOT", "LOCALSLOT"} :
                c \in flags'[g] <=> c \in flags[g]
           /\ "INCOMPLETE" \in flags'[g] => "INCOMPLETE" \in flags[g]
           /\ life[g] = "new" => flags'[g] = {}
  <2>1. "DISPOSED" \in Flags
    BY DEF Flags
  <2>. QED  BY <2>1, <1>1, <1>2, <1>6
<1>8. stop' \in [Fetches -> BOOLEAN] /\ UNCHANGED <<life, url, task, queueVars>>
  BY <1>1, <1>6
<1>. QED  BY <1>1, <1>4, <1>5, <1>7, <1>8, QuietDoStep

LEMMA ResumeStep ==
  ASSUME SlotsInv, Resume
  PROVE  SlotsInv'
<1>. DEFINE d == CallF("dispose", F, {})
            c == IF Has(F, "DISPOSED") THEN <<d>> ELSE <<>>
<1>1. /\ todo # <<>> /\ Head(todo).op = "resume" /\ Head(todo).op \in LateOps
      /\ Do(c)
      /\ flags' = [flags EXCEPT ![F] = flags[F] \ {"INCOMPLETE"}]
      /\ UNCHANGED <<life, url, task, stop, queueVars, urlVars, waitrequests>>
  BY DEF Resume, At, LateOps, Without
<1>2. F \in Fetches /\ life[F] # "new"
  <2>1. "resume" \in OfFetch \ {"dispose"}
    BY DEF OfFetch
  <2>. QED  BY <1>1, <2>1, HeadGood DEF GoodCall, F
<1>3. GoodCall(d, life) /\ d.op \notin LateOps
  BY <1>2, DisposePlain
<1>. HIDE DEF d
<1>4. PlainCalls(c, life)
  BY <1>3, PlainOne, PlainNone
<1>. HIDE DEF c
<1>5. UrlsGood
  BY <1>1, UrlsSame
<1>6. /\ flags \in [Fetches -> SUBSET Flags] /\ stop \in [Fetches -> BOOLEAN]
      /\ \A g \in Fetches : life[g] = "new" => flags[g] = {}
  BY DEF SlotsInv, TypeOK, Known
<1>7. /\ GoodCalls(todo', life)
      /\ \A f : ~Ends(todo', f) /\ ~Resumes(todo', f)
      /\ \A f : Resumes(todo, f) <=> Head(todo).op = "resume" /\ Head(todo).f = f
  BY <1>1, <1>4, LateDo
<1>8. /\ flags' \in [Fetches -> SUBSET Flags]
      /\ \A g \in Fetches : g # F => flags'[g] = flags[g]
      /\ flags'[F] = flags[F] \ {"INCOMPLETE"}
  BY <1>1, <1>2, <1>6
<1>9. ASSUME NEW g \in Fetches
      PROVE  /\ \A x \in {"RUNNING", "USESLOT", "NETSLOT", "LOCALSLOT"} :
                  x \in flags'[g] <=> x \in flags[g]
             /\ "INCOMPLETE" \in flags'[g] =>
                  "INCOMPLETE" \in flags[g] /\ (Resumes(todo, g) => Resumes(todo', g))
             /\ life[g] = "new" => flags'[g] = {}
  <2>1. CASE g = F
    <3>1. flags'[g] = flags[g] \ {"INCOMPLETE"} /\ life[g] # "new"
      <4>1. flags'[g] = flags[g] \ {"INCOMPLETE"}
        BY <2>1, <1>8, Zenon
      <4>2. life[g] # "new"
        BY <2>1, <1>2, Zenon
      <4>. QED  BY <4>1, <4>2
    <3>2. \A x : x # "INCOMPLETE" => (x \in flags'[g] <=> x \in flags[g])
      BY <3>1
    <3>3. "INCOMPLETE" \notin flags'[g]
      BY <3>1
    <3>. QED  BY <3>1, <3>2, <3>3
  <2>2. CASE g # F
    BY <2>2, <1>6, <1>7, <1>8 DEF F
  <2>. QED  BY <2>1, <2>2
<1>10. Quiet
  BY <1>1, <1>6, <1>7, <1>8, <1>9 DEF Quiet
<1>. QED  BY <1>5, <1>10, QuietStep

\* What is known when a driver has ended.
LEMMA EndsFacts ==
  ASSUME SlotsInv, todo # <<>>, Head(todo).op \in {"end", "retry"}
  PROVE  /\ Head(todo).op \in LateOps /\ F \in Fetches /\ life[F] = "live"
         /\ "RUNNING" \in flags[F] /\ "USESLOT" \notin flags[F] /\ ~task[F]
         /\ "INCOMPLETE" \notin flags[F]
         /\ ~In(netqueue, F) /\ ~In(localqueue, F)
<1>1. Head(todo).op \in LateOps /\ Head(todo).op \in OfFetch \ {"dispose"}
  BY DEF LateOps, OfFetch
<1>2. F \in Fetches
  BY <1>1, HeadGood DEF GoodCall, F
<1>3. /\ \A f : Ends(todo, f) <=> Head(todo).op \in {"end", "retry"} /\ Head(todo).f = f
      /\ \A f : Resumes(todo, f) <=> Head(todo).op = "resume" /\ Head(todo).f = f
  <2>1. GoodCalls(todo, life)
    BY DEF SlotsInv, Known
  <2>. QED  BY <1>1, <2>1, PlainNone, LateCall
<1>4. Ends(todo, F) /\ ~Resumes(todo, F)
  BY <1>3 DEF F
<1>. QED  BY <1>1, <1>2, <1>4 DEF SlotsInv, SlotRuns, WaitsApart

\* A fetch that has no driver and no slot is left with the flags fs, in no queue.
LEMMA StoppedStep ==
  ASSUME SlotsInv, UrlsGood, NEW f \in Fetches, NEW fs \in SUBSET Flags,
         life[f] # "new", "USESLOT" \notin flags[f], ~task[f],
         "RUNNING" \notin fs, "USESLOT" \notin fs,
         ~({"NETSLOT", "LOCALSLOT"} \subseteq fs),
         flags' = [flags EXCEPT ![f] = fs],
         UNCHANGED <<life, url, task, stop, nrnet, nrlocal>>,
         Shorter(netqueue, netqueue'), ~In(netqueue', f),
         Shorter(localqueue, localqueue'), ~In(localqueue', f),
         GoodCalls(todo', life), ~Ends(todo', f),
         \A g \in Fetches \ {f} :
           (Ends(todo', g) => Ends(todo, g)) /\ (Resumes(todo, g) => Resumes(todo', g))
  PROVE  SlotsInv'
<1>1. /\ life \in [Fetches -> {"new", "live", "freed"}]
      /\ url \in [Fetches -> Urls \cup {NoUrl}] /\ task \in [Fetches -> BOOLEAN]
      /\ stop \in [Fetches -> BOOLEAN] /\ url[f] \in Urls
      /\ nrnet \in 0..Maxconnect /\ nrlocal \in 0..Maxdiskread
  BY DEF SlotsInv, TypeOK, Known
<1>2. OneFetch(f, fs)
  BY <1>1 DEF OneFetch
<1>3. CallsOf(f, fs)
  BY DEF CallsOf
<1>4. FlagsOf(f, fs)
  BY DEF FlagsOf
<1>5. CountOf(f, fs)
  <2>1. /\ Occupies(flags[f], "NETSLOT") = 0 /\ Occupies(flags[f], "LOCALSLOT") = 0
        /\ Occupies(fs, "NETSLOT") = 0 /\ Occupies(fs, "LOCALSLOT") = 0
    BY DEF Occupies
  <2>. QED  BY <2>1, <1>1, FetchAssumption DEF CountOf
<1>6. /\ QueueOf(netqueue, netqueue', f, fs, "NETSLOT")
      /\ QueueOf(localqueue, localqueue', f, fs, "LOCALSLOT")
  BY DEF QueueOf, Shorter
<1>. QED  BY <1>2, <1>3, <1>4, <1>5, <1>6, FetchStep

\* A queue that stays as it is.
LEMMA SameQueues ==
  ASSUME SlotsInv
  PROVE  Shorter(netqueue, netqueue) /\ Shorter(localqueue, localqueue)
BY DEF SlotsInv, TypeOK, QueuesApart, Shorter

LEMMA EndStep ==
  ASSUME SlotsInv, End
  PROVE  SlotsInv'
<1>. DEFINE f == F
            fs == flags[f] \ {"RUNNING"}
            d == CallF("dispose", f, {})
<1>1. /\ todo # <<>> /\ Head(todo).op \in {"end", "retry"}
      /\ Do(<<d>>) /\ flags' = [flags EXCEPT ![f] = fs]
      /\ UNCHANGED <<life, url, task, stop, nrnet, nrlocal, urlVars, waitrequests>>
      /\ netqueue' = netqueue /\ localqueue' = localqueue
  BY DEF End, At, Without, queueVars
<1>2. /\ Head(todo).op \in LateOps /\ f \in Fetches /\ life[f] = "live"
      /\ "RUNNING" \in flags[f] /\ "USESLOT" \notin flags[f] /\ ~task[f]
      /\ ~In(netqueue, f) /\ ~In(localqueue, f)
  BY <1>1, EndsFacts
<1>3. GoodCall(d, life) /\ d.op \notin LateOps
  BY <1>2, DisposePlain
<1>. HIDE DEF d, f
<1>4. PlainCalls(<<d>>, life)
  BY <1>3, PlainOne
<1>5. /\ GoodCalls(todo', life) /\ \A g : ~Ends(todo', g) /\ ~Resumes(todo', g)
      /\ \A g : Resumes(todo, g) <=> Head(todo).op = "resume" /\ Head(todo).f = g
  BY <1>1, <1>2, <1>4, LateDo
<1>6. UrlsGood
  BY <1>1, UrlsSame
<1>7. flags \in [Fetches -> SUBSET Flags] /\ ~({"NETSLOT", "LOCALSLOT"} \subseteq flags[f])
  BY <1>2 DEF SlotsInv, TypeOK, SlotRuns
<1>8. /\ fs \in SUBSET Flags /\ "RUNNING" \notin fs /\ "USESLOT" \notin fs
      /\ ~({"NETSLOT", "LOCALSLOT"} \subseteq fs)
  BY <1>2, <1>7
<1>. HIDE DEF fs
<1>9. /\ Shorter(netqueue, netqueue') /\ ~In(netqueue', f)
      /\ Shorter(localqueue, localqueue') /\ ~In(localqueue', f)
  BY <1>1, <1>2, SameQueues
<1>. QED  BY <1>1, <1>2, <1>5, <1>6, <1>8, <1>9, StoppedStep

LEMMA RetryStep ==
  ASSUME SlotsInv, Retry
  PROVE  SlotsInv'
<1>. DEFINE f == F
            fs == flags[f] \ {"RUNNING", "POSTNOGOOD", "POST"}
            s == CallF("srcupdate", f, {"Terminate"})
            d == CallF("dispose", f, {})
            q == Checkqueues
<1>1. /\ todo # <<>> /\ Head(todo).op \in {"end", "retry"}
      /\ \/ Startdriver(f, fs) /\ Do(<<>>)
         \/ /\ flags' = [flags EXCEPT ![f] = fs]
            /\ Do((<<s>> \o q) \o <<d>>)
            /\ UNCHANGED <<task, stop, nrnet, nrlocal, netqueue, localqueue>>
      /\ UNCHANGED <<life, url, urlVars, waitrequests>>
  BY DEF Retry, At, queueVars
<1>2. /\ Head(todo).op \in LateOps /\ f \in Fetches /\ life[f] = "live"
      /\ "RUNNING" \in flags[f] /\ "USESLOT" \notin flags[f] /\ ~task[f]
      /\ "INCOMPLETE" \notin flags[f]
      /\ ~In(netqueue, f) /\ ~In(localqueue, f)
  BY <1>1, EndsFacts
<1>3. /\ GoodCall(d, life) /\ d.op \notin LateOps
      /\ GoodCall(s, life) /\ s.op \notin LateOps
  BY <1>2, DisposePlain, FetchCallPlain, TagsIn
<1>. HIDE DEF d, s, f
<1>4. PlainCalls(<<d>>, life) /\ PlainCalls(<<s>>, life) /\ PlainCalls(<<>>, life)
  BY <1>3, PlainOne, PlainNone
<1>5. PlainCalls(q, life)
  BY CheckqueuesPlain
<1>. HIDE DEF q
<1>6. PlainCalls((<<s>> \o q) \o <<d>>, life)
  BY <1>4, <1>5, PlainConcat
<1>7. PICK c : PlainCalls(c, life) /\ Do(c)
  BY <1>1, <1>4, <1>6
<1>8. /\ GoodCalls(todo', life) /\ \A g : ~Ends(todo', g) /\ ~Resumes(todo', g)
      /\ \A g : Resumes(todo, g) <=> Head(todo).op = "resume" /\ Head(todo).f = g
  BY <1>1, <1>2, <1>7, LateDo
<1>9. UrlsGood
  BY <1>1, UrlsSame
<1>10. /\ flags \in [Fetches -> SUBSET Flags] /\ ~({"NETSLOT", "LOCALSLOT"} \subseteq flags[f])
       /\ life \in [Fetches -> {"new", "live", "freed"}]
       /\ url \in [Fetches -> Urls \cup {NoUrl}] /\ url[f] \in Urls
  BY <1>2 DEF SlotsInv, TypeOK, Known, SlotRuns
<1>11. /\ fs \in SUBSET Flags /\ "RUNNING" \notin fs /\ "USESLOT" \notin fs
       /\ "INCOMPLETE" \notin fs /\ ~({"NETSLOT", "LOCALSLOT"} \subseteq fs)
  BY <1>2, <1>10
<1>. HIDE DEF fs
<1>12. CASE Startdriver(f, fs)
  <2>1. Made(f)
    BY <1>1, <1>2, <1>10 DEF Made
  <2>2. StartCalls(f, fs)
    BY <1>1, <1>2, <1>8, <1>11 DEF StartCalls
  <2>. QED  BY <1>2, <1>9, <1>11, <1>12, <2>1, <2>2, StartdriverStep
<1>13. CASE /\ flags' = [flags EXCEPT ![f] = fs]
            /\ UNCHANGED <<task, stop, nrnet, nrlocal, netqueue, localqueue>>
  <2>1. /\ Shorter(netqueue, netqueue') /\ ~In(netqueue', f)
        /\ Shorter(localqueue, localqueue') /\ ~In(localqueue', f)
    BY <1>2, <1>13, SameQueues
  <2>2. UNCHANGED <<life, url, task, stop, nrnet, nrlocal>>
    BY <1>1, <1>13
  <2>3. \A g \in Fetches \ {f} :
          (Ends(todo', g) => Ends(todo, g)) /\ (Resumes(todo, g) => Resumes(todo', g))
    BY <1>1, <1>8
  <2>. QED  BY <1>2, <1>8, <1>9, <1>11, <1>13, <2>1, <2>2, <2>3, StoppedStep
<1>. QED  BY <1>1, <1>12, <1>13

\* A fetch that was not made is in no queue.
LEMMA NewFacts ==
  ASSUME SlotsInv, NEW f \in Fetches, life[f] = "new"
  PROVE  /\ flags[f] = {} /\ ~task[f]
         /\ ~In(netqueue, f) /\ ~In(localqueue, f)
         /\ ~Ends(todo, f)
<1>1. flags[f] = {} /\ ~task[f]
  BY DEF SlotsInv, Known
<1>2. ~In(netqueue, f) /\ ~In(localqueue, f)
  BY DEF SlotsInv, WaitsApart
<1>3. ~Ends(todo, f)
  BY <1>1 DEF SlotsInv, SlotRuns
<1>. QED  BY <1>1, <1>2, <1>3

\* A new fetch needs at most one kind of slot, and occupies none.
LEMMA NewFlagsFacts ==
  ASSUME NEW op, NEW fs \in NewFlags(op)
  PROVE  /\ fs \ {"none"} \in SUBSET Flags
         /\ fs \cap {"USESLOT", "RUNNING", "INCOMPLETE"} = {}
         /\ ~({"NETSLOT", "LOCALSLOT"} \subseteq fs)
<1>1. PICK slot \in {"NETSLOT", "LOCALSLOT", "none"}, traits \in SUBSET {"IMAGE", "POST"} :
        fs = {slot} \cup traits \/ fs = {slot} \cup traits \cup {"VALIDATE"}
  BY FetchAssumption DEF NewFlags
<1>2. fs \ {"none"} \in SUBSET Flags
  BY <1>1 DEF Flags
<1>3. fs \cap {"USESLOT", "RUNNING", "INCOMPLETE"} = {}
  BY <1>1
<1>4. ~({"NETSLOT", "LOCALSLOT"} \subseteq fs)
  BY <1>1
<1>. QED  BY <1>2, <1>3, <1>4

LEMMA NewfetchStep ==
  ASSUME SlotsInv, NEW op \in {"newfetch", "newrfetch", "newvfetch"}, Newfetch(op)
  PROVE  SlotsInv'
<1>1. /\ todo # <<>> /\ Head(todo).op \notin LateOps /\ Head(todo).op \in OfUrl
      /\ Do(<<>>) /\ UNCHANGED <<movedto, waitrequests>>
  BY DEF Newfetch, At, LateOps, OfUrl
<1>2. U \in Urls
  BY <1>1, HeadGood DEF GoodCall, U
<1>3. CASE UNCHANGED <<fetchVars, queueVars, fetch, rfetch, vfetch>>
  <2>1. UNCHANGED <<fetchVars, queueVars, urlVars, waitrequests>>
    BY <1>1, <1>3 DEF urlVars
  <2>2. UrlsGood
    BY <2>1, UrlsSame DEF fetchVars
  <2>. QED  BY <1>1, <2>1, <2>2, PlainNone, KeptDoStep
<1>4. CASE \E f \in Fetches : \E fs \in NewFlags(op) :
             /\ life[f] = "new"
             /\ life' = [life EXCEPT ![f] = "live"]
             /\ url' = [url EXCEPT ![f] = U]
             /\ Startdriver(f, fs \ {"none"})
             /\ fetch' = IF op = "newfetch" THEN [fetch EXCEPT ![U] = f] ELSE fetch
             /\ rfetch' = IF op = "newrfetch" THEN [rfetch EXCEPT ![U] = f] ELSE rfetch
             /\ vfetch' = IF op = "newvfetch" THEN [vfetch EXCEPT ![U] = f] ELSE vfetch
  <2>1. PICK f \in Fetches, fs \in NewFlags(op) :
             /\ life[f] = "new"
             /\ life' = [life EXCEPT ![f] = "live"]
             /\ url' = [url EXCEPT ![f] = U]
             /\ Startdriver(f, fs \ {"none"})
             /\ fetch' = fetch \/ fetch' = [fetch EXCEPT ![U] = f]
             /\ rfetch' = rfetch \/ rfetch' = [rfetch EXCEPT ![U] = f]
             /\ vfetch' = vfetch \/ vfetch' = [vfetch EXCEPT ![U] = f]
    BY <1>4
  <2>. DEFINE gs == fs \ {"none"}
  <2>2. /\ flags[f] = {} /\ ~task[f]
        /\ ~In(netqueue, f) /\ ~In(localqueue, f) /\ ~Ends(todo, f)
    BY <2>1, NewFacts
  <2>3. /\ gs \in SUBSET Flags
        /\ "USESLOT" \notin gs /\ "RUNNING" \notin gs /\ "INCOMPLETE" \notin gs
        /\ ~({"NETSLOT", "LOCALSLOT"} \subseteq gs)
    BY NewFlagsFacts
  <2>4. Startdriver(f, gs)
    BY <2>1
  <2>. HIDE DEF gs
  <2>5. /\ life \in [Fetches -> {"new", "live", "freed"}]
        /\ url \in [Fetches -> Urls \cup {NoUrl}]
        /\ fetch \in [Urls -> Fetches \cup {NoFetch}]
        /\ rfetch \in [Urls -> Fetches \cup {NoFetch}]
        /\ vfetch \in [Urls -> Fetches \cup {NoFetch}]
        /\ movedto \in [Urls -> Urls \cup {NoUrl}]
        /\ waitrequests \subseteq Urls \cup {NoUrl}
        /\ \A u \in Urls : \A g \in Fetches :
              g \in {fetch[u], rfetch[u], vfetch[u]} => life[g] # "new"
    BY DEF SlotsInv, TypeOK, Known
  <2>6. /\ life' \in [Fetches -> {"new", "live", "freed"}] /\ life'[f] = "live"
        /\ \A g \in Fetches \ {f} : life'[g] = life[g]
    BY <2>1, <2>5
  <2>7. /\ url' \in [Fetches -> Urls \cup {NoUrl}] /\ url'[f] \in Urls
        /\ \A g \in Fetches \ {f} : url'[g] = url[g]
    BY <1>2, <2>1, <2>5
  <2>8. Made(f)
    BY <2>6, <2>7 DEF Made
  <2>9. \A g \in Fetches : life[g] # "new" => life'[g] # "new"
    BY <2>6
  <2>10. /\ GoodCalls(todo', life')
         /\ \A g : Ends(todo', g) <=> Ends(todo, g)
         /\ \A g : Resumes(todo', g) <=> Resumes(todo, g)
    BY <1>1, <2>9, PlainNone, QuietDo
  <2>11. StartCalls(f, gs)
    BY <2>2, <2>3, <2>10 DEF StartCalls
  <2>12. UrlsGood
    <3>1. /\ fetch' \in [Urls -> Fetches \cup {NoFetch}]
          /\ \A u \in Urls : fetch'[u] \in {f, fetch[u]}
      BY <1>2, <2>1, <2>5
    <3>2. /\ rfetch' \in [Urls -> Fetches \cup {NoFetch}]
          /\ \A u \in Urls : rfetch'[u] \in {f, rfetch[u]}
      BY <1>2, <2>1, <2>5
    <3>3. /\ vfetch' \in [Urls -> Fetches \cup {NoFetch}]
          /\ \A u \in Urls : vfetch'[u] \in {f, vfetch[u]}
      BY <1>2, <2>1, <2>5
    <3>4. movedto' \in [Urls -> Urls \cup {NoUrl}] /\ waitrequests' \subseteq Urls \cup {NoUrl}
      BY <1>1, <2>5
    <3>5. ASSUME NEW u \in Urls, NEW g \in Fetches, g \in {fetch'[u], rfetch'[u], vfetch'[u]}
          PROVE  life'[g] # "new"
      <4>1. g = f \/ g \in {fetch[u], rfetch[u], vfetch[u]}
        BY <3>1, <3>2, <3>3, <3>5
      <4>. QED  BY <4>1, <2>5, <2>6
    <3>. QED  BY <3>1, <3>2, <3>3, <3>4, <3>5 DEF UrlsGood
  <2>13. "USESLOT" \notin flags[f]
    BY <2>2
  <2>. QED  BY <2>2, <2>3, <2>4, <2>8, <2>11, <2>12, <2>13, StartdriverStep
<1>. QED  BY <1>3, <1>4 DEF Newfetch

\* The fetch f, that was the first of a queue, gets its slot.
LEMMA NextOfStep ==
  ASSUME SlotsInv, todo # <<>>, Head(todo).op \in OfQueues, NEW f \in Fetches,
         In(netqueue, f) \/ In(localqueue, f),
         UNCHANGED <<life, url, urlVars, waitrequests>>,
         Shorter(netqueue, netqueue'), ~In(netqueue', f),
         Shorter(localqueue, localqueue'), ~In(localqueue', f),
         "NETSLOT" \in flags[f] => nrnet < Maxconnect,
         "LOCALSLOT" \in flags[f] => nrlocal < Maxdiskread,
         \/ Dostartdriver(f, flags[f] \ {"QUEUED"}) /\ todo' = todo
         \/ /\ flags' = Without(f, {"QUEUED"})
            /\ Do(<<CallF("srcupdate", f, {"Terminate"}), CallF("dispose", f, {}), Head(todo)>>)
            /\ UNCHANGED <<task, stop, nrnet, nrlocal>>
  PROVE  SlotsInv'
<1>. DEFINE fs == flags[f] \ {"QUEUED"}
            s == CallF("srcupdate", f, {"Terminate"})
            d == CallF("dispose", f, {})
            h == Head(todo)
<1>1. /\ life[f] = "live" /\ "RUNNING" \notin flags[f] /\ "USESLOT" \notin flags[f]
      /\ ~task[f] /\ ~Ends(todo, f)
      /\ "INCOMPLETE" \in flags[f] => Resumes(todo, f)
      /\ ~({"NETSLOT", "LOCALSLOT"} \subseteq flags[f])
  BY DEF SlotsInv, SlotRuns, WaitsApart
<1>2. /\ flags \in [Fetches -> SUBSET Flags]
      /\ life \in [Fetches -> {"new", "live", "freed"}]
      /\ url \in [Fetches -> Urls \cup {NoUrl}] /\ url[f] \in Urls
      /\ GoodCalls(todo, life)
  BY <1>1 DEF SlotsInv, TypeOK, Known
<1>3. /\ fs \in SUBSET Flags /\ "RUNNING" \notin fs /\ "USESLOT" \notin fs
      /\ ~({"NETSLOT", "LOCALSLOT"} \subseteq fs)
      /\ "NETSLOT" \in fs => nrnet < Maxconnect
      /\ "LOCALSLOT" \in fs => nrlocal < Maxdiskread
      /\ "INCOMPLETE" \in fs => Resumes(todo, f)
  BY <1>1, <1>2
<1>4. UrlsGood
  BY UrlsSame
<1>5. Head(todo).op \notin LateOps
  BY DEF OfQueues, LateOps
<1>6. CASE Dostartdriver(f, fs) /\ todo' = todo
  <2>. HIDE DEF fs
  <2>1. Made(f)
    BY <1>1, <1>2 DEF Made
  <2>2. StartCalls(f, fs)
    <3>1. GoodCalls(todo', life')
      BY <1>2, <1>6
    <3>2. /\ \A g : Ends(todo', g) <=> Ends(todo, g)
          /\ \A g : Resumes(todo', g) <=> Resumes(todo, g)
      BY <1>6
    <3>. QED  BY <3>1, <3>2, <1>1, <1>3 DEF StartCalls
  <2>. QED  BY <1>1, <1>3, <1>4, <1>6, <2>1, <2>2, DostartdriverStep
<1>7. CASE flags' = Without(f, {"QUEUED"}) /\ Do(<<s, d, h>>) /\ UNCHANGED <<task, stop, nrnet, nrlocal>>
  <2>1. flags' = [flags EXCEPT ![f] = fs]
    BY <1>7 DEF Without
  <2>2. /\ GoodCall(s, life) /\ s.op \notin LateOps
        /\ GoodCall(d, life) /\ d.op \notin LateOps
        /\ GoodCall(h, life) /\ h.op \notin LateOps
    BY <1>1, <1>5, FetchCallPlain, DisposePlain, TagsIn, HeadGood
  <2>. HIDE DEF fs, s, d, h
  <2>3. PlainCalls(<<s, d, h>>, life)
    BY <2>2, PlainThree
  <2>4. /\ GoodCalls(todo', life)
        /\ \A g : Ends(todo', g) <=> Ends(todo, g)
        /\ \A g : Resumes(todo', g) <=> Resumes(todo, g)
    BY <1>5, <1>7, <2>3, QuietDo
  <2>5. UNCHANGED <<life, url, task, stop, nrnet, nrlocal>>
    BY <1>7
  <2>6. ~Ends(todo', f)
    BY <1>1, <2>4
  <2>. QED  BY <1>1, <1>3, <1>4, <2>1, <2>4, <2>5, <2>6, StoppedStep
<1>. QED  BY <1>6, <1>7

LEMMA ChecknetqueueStep ==
  ASSUME SlotsInv, Checknetqueue
  PROVE  SlotsInv'
<1>1. /\ todo # <<>> /\ Head(todo).op \in OfQueues /\ Head(todo).op \notin LateOps
      /\ localqueue' = localqueue
      /\ UNCHANGED <<life, url, urlVars, waitrequests>>
  BY DEF Checknetqueue, At, OfQueues, LateOps
<1>2. CASE Do(<<>>) /\ UNCHANGED <<flags, task, stop, nrnet, nrlocal, netqueue>>
  <2>1. UNCHANGED <<fetchVars, queueVars>>
    BY <1>1, <1>2 DEF fetchVars, queueVars
  <2>. QED  BY <1>1, <1>2, <2>1, UrlsSame, PlainNone, KeptDoStep
<1>3. CASE nrnet < Maxconnect /\ netqueue # <<>> /\ NextOf(netqueue) /\ netqueue' = Tail(netqueue)
  <2>. DEFINE f == Head(netqueue)
  <2>1. netqueue \in Seq(Fetches) /\ Distinct(netqueue)
    BY DEF SlotsInv, TypeOK, QueuesApart
  <2>2. /\ f \in Fetches /\ In(netqueue, f) /\ f = netqueue[1]
        /\ Shorter(netqueue, netqueue') /\ ~In(netqueue', f)
    BY <1>3, <2>1, TailOfQueue
  <2>3. 1 \in 1..Len(netqueue)
    BY <1>3, <2>1, EmptySeq
  <2>4. "NETSLOT" \in flags[f]
    BY <2>2, <2>3 DEF SlotsInv, QueuesApart
  <2>5. "LOCALSLOT" \notin flags[f]
    BY <2>2, <2>4 DEF SlotsInv, SlotRuns
  <2>6. Shorter(localqueue, localqueue') /\ ~In(localqueue', f)
    <3>1. ~In(localqueue, f)
      BY <2>5 DEF SlotsInv, QueuesApart, In
    <3>. QED  BY <3>1, <1>1, SameQueues
  <2>7. \/ Dostartdriver(f, flags[f] \ {"QUEUED"}) /\ todo' = todo
        \/ /\ flags' = Without(f, {"QUEUED"})
           /\ Do(<<CallF("srcupdate", f, {"Terminate"}), CallF("dispose", f, {}), Head(todo)>>)
           /\ UNCHANGED <<task, stop, nrnet, nrlocal>>
    BY <1>3 DEF NextOf
  <2>. HIDE DEF f
  <2>. QED  BY <1>1, <1>3, <2>2, <2>4, <2>5, <2>6, <2>7, NextOfStep
<1>. QED  BY <1>2, <1>3 DEF Checknetqueue

LEMMA ChecklocalqueueStep ==
  ASSUME SlotsInv, Checklocalqueue
  PROVE  SlotsInv'
<1>1. /\ todo # <<>> /\ Head(todo).op \in OfQueues /\ Head(todo).op \notin LateOps
      /\ netqueue' = netqueue
      /\ UNCHANGED <<life, url, urlVars, waitrequests>>
  BY DEF Checklocalqueue, At, OfQueues, LateOps
<1>2. CASE Do(<<>>) /\ UNCHANGED <<flags, task, stop, nrnet, nrlocal, localqueue>>
  <2>1. UNCHANGED <<fetchVars, queueVars>>
    BY <1>1, <1>2 DEF fetchVars, queueVars
  <2>. QED  BY <1>1, <1>2, <2>1, UrlsSame, PlainNone, KeptDoStep
<1>3. CASE /\ nrlocal < Maxdiskread /\ localqueue # <<>>
           /\ NextOf(localqueue) /\ localqueue' = Tail(localqueue)
  <2>. DEFINE f == Head(localqueue)
  <2>1. localqueue \in Seq(Fetches) /\ Distinct(localqueue)
    BY DEF SlotsInv, TypeOK, QueuesApart
  <2>2. /\ f \in Fetches /\ In(localqueue, f) /\ f = localqueue[1]
        /\ Shorter(localqueue, localqueue') /\ ~In(localqueue', f)
    BY <1>3, <2>1, TailOfQueue
  <2>3. 1 \in 1..Len(localqueue)
    BY <1>3, <2>1, EmptySeq
  <2>4. "LOCALSLOT" \in flags[f]
    BY <2>2, <2>3 DEF SlotsInv, QueuesApart
  <2>5. "NETSLOT" \notin flags[f]
    BY <2>2, <2>4 DEF SlotsInv, SlotRuns
  <2>6. Shorter(netqueue, netqueue') /\ ~In(netqueue', f)
    <3>1. ~In(netqueue, f)
      BY <2>5 DEF SlotsInv, QueuesApart, In
    <3>. QED  BY <3>1, <1>1, SameQueues
  <2>7. \/ Dostartdriver(f, flags[f] \ {"QUEUED"}) /\ todo' = todo
        \/ /\ flags' = Without(f, {"QUEUED"})
           /\ Do(<<CallF("srcupdate", f, {"Terminate"}), CallF("dispose", f, {}), Head(todo)>>)
           /\ UNCHANGED <<task, stop, nrnet, nrlocal>>
    BY <1>3 DEF NextOf
  <2>. HIDE DEF f
  <2>. QED  BY <1>1, <1>3, <2>2, <2>4, <2>5, <2>6, <2>7, NextOfStep
<1>. QED  BY <1>2, <1>3 DEF Checklocalqueue

LEMMA IncompletereturnStep ==
  ASSUME SlotsInv, NEW f \in Fetches, Incompletereturn(f)
  PROVE  SlotsInv'
<1>1. /\ life[f] = "live" /\ "INCOMPLETE" \in flags[f]
      /\ UNCHANGED <<life, url, urlVars, waitrequests>>
  BY DEF Incompletereturn, Has
<1>2. UrlsGood
  BY <1>1, UrlsSame
<1>3. CASE \E tags \in {{"Error", "Terminate"}, {"Terminate"}} :
             /\ Event(<<CallF("srcupdate", f, tags), CallF("discard", f, {})>>)
             /\ UNCHANGED <<flags, task, stop, queueVars>>
  <2>1. PICK tags \in {{"Error", "Terminate"}, {"Terminate"}} :
             /\ Event(<<CallF("srcupdate", f, tags), CallF("discard", f, {})>>)
             /\ UNCHANGED <<flags, task, stop, queueVars>>
    BY <1>3
  <2>. DEFINE s == CallF("srcupdate", f, tags)
              d == CallF("discard", f, {})
  <2>2. tags \in TagSets /\ {} \in TagSets
    BY TagsIn
  <2>3. GoodCall(s, life) /\ s.op \notin LateOps /\ GoodCall(d, life) /\ d.op \notin LateOps
    BY <1>1, <2>2, FetchCallPlain
  <2>4. Event(<<s, d>>)
    BY <2>1
  <2>. HIDE DEF s, d
  <2>5. PlainCalls(<<s, d>>, life)
    BY <2>3, PlainTwo
  <2>6. UNCHANGED <<fetchVars, queueVars>>
    BY <1>1, <2>1 DEF fetchVars
  <2>. QED  BY <1>2, <2>4, <2>5, <2>6, KeptEventStep
<1>4. CASE /\ Event(<<CallF("srcupdate", f, {"Reload"}), CallF("resume", f, {})>>)
           /\ Startdriver(f, flags[f])
  <2>. DEFINE s == CallF("srcupdate", f, {"Reload"})
              r == CallF("resume", f, {})
              fs == flags[f]
  <2>1. GoodCall(s, life) /\ s.op \notin LateOps
    BY <1>1, TagsIn, FetchCallPlain
  <2>2. GoodCall(r, life) /\ r.op = "resume" /\ r.op \in LateOps /\ r.f = f
    <3>1. /\ "resume" \in OfFetch \cup OfQueues /\ "resume" \in LateOps
          /\ life[f] # "new"
      BY <1>1 DEF OfFetch, LateOps
    <3>. QED  BY <3>1, TagsIn, CallFIn
  <2>3. Idle /\ todo' = <<s, r>> /\ Startdriver(f, fs)
    BY <1>4 DEF Event
  <2>. HIDE DEF s, r
  <2>4. /\ GoodCalls(todo', life)
        /\ \A g : ~Ends(todo', g)
        /\ \A g : Resumes(todo', g) <=> f = g
    BY <2>1, <2>2, <2>3, LateTwo
  <2>5. \A g : ~Ends(todo, g) /\ ~Resumes(todo, g)
    BY <2>3, IdleFacts
  <2>6. /\ "RUNNING" \notin flags[f] /\ "USESLOT" \notin flags[f] /\ ~task[f]
        /\ ~In(netqueue, f) /\ ~In(localqueue, f)
        /\ ~({"NETSLOT", "LOCALSLOT"} \subseteq flags[f])
    BY <1>1, <2>5 DEF SlotsInv, SlotRuns, WaitsApart
  <2>7. /\ life \in [Fetches -> {"new", "live", "freed"}]
        /\ url \in [Fetches -> Urls \cup {NoUrl}] /\ url[f] \in Urls
        /\ flags[f] \in SUBSET Flags
    BY <1>1 DEF SlotsInv, TypeOK, Known
  <2>8. Made(f)
    BY <1>1, <2>7 DEF Made
  <2>9. StartCalls(f, fs)
    BY <1>1, <2>4, <2>5 DEF StartCalls
  <2>. QED  BY <1>2, <2>3, <2>6, <2>7, <2>8, <2>9, StartdriverStep
<1>. QED  BY <1>3, <1>4 DEF Incompletereturn

\* A fetch whose driver returns gives its slot back.
LEMMA ReleaseStep ==
  ASSUME SlotsInv, UrlsGood, Idle, NEW f \in Fetches, NEW fs \in SUBSET Flags,
         life[f] = "live", ~In(netqueue, f), ~In(localqueue, f),
         task' = [task EXCEPT ![f] = FALSE],
         UNCHANGED <<life, url, stop, netqueue, localqueue>>,
         Release(f, fs),
         "NETSLOT" \in fs <=> "NETSLOT" \in flags[f],
         "LOCALSLOT" \in fs <=> "LOCALSLOT" \in flags[f],
         "INCOMPLETE" \in fs => "RUNNING" \notin fs,
         GoodCalls(todo', life),
         \A g : Ends(todo', g) => g = f /\ "RUNNING" \in fs
  PROVE  SlotsInv'
<1>. DEFINE gs == fs \ {"USESLOT"}
<1>1. /\ life \in [Fetches -> {"new", "live", "freed"}]
      /\ url \in [Fetches -> Urls \cup {NoUrl}] /\ task \in [Fetches -> BOOLEAN]
      /\ stop \in [Fetches -> BOOLEAN] /\ url[f] \in Urls
      /\ nrnet \in 0..Maxconnect /\ nrlocal \in 0..Maxdiskread
      /\ ~({"NETSLOT", "LOCALSLOT"} \subseteq flags[f])
  BY DEF SlotsInv, TypeOK, Known, SlotRuns
<1>2. /\ gs \in SUBSET Flags /\ "USESLOT" \notin gs
      /\ "NETSLOT" \in gs <=> "NETSLOT" \in flags[f]
      /\ "LOCALSLOT" \in gs <=> "LOCALSLOT" \in flags[f]
      /\ "RUNNING" \in gs <=> "RUNNING" \in fs
      /\ "INCOMPLETE" \in gs => "RUNNING" \notin gs
  OBVIOUS
<1>3. /\ flags' = [flags EXCEPT ![f] = gs]
      /\ nrnet' = IF "USESLOT" \in flags[f] /\ "NETSLOT" \in flags[f] THEN nrnet - 1 ELSE nrnet
      /\ nrlocal' = IF "USESLOT" \in flags[f] /\ "LOCALSLOT" \in flags[f] THEN nrlocal - 1 ELSE nrlocal
  BY DEF Release, Has
<1>. HIDE DEF gs
<1>4. \A g : ~Resumes(todo, g)
  BY IdleFacts
<1>5. task' \in [Fetches -> BOOLEAN] /\ ~task'[f] /\ \A g \in Fetches \ {f} : task'[g] = task[g]
  BY <1>1
<1>6. OneFetch(f, gs)
  BY <1>1, <1>3, <1>5 DEF OneFetch
<1>7. CallsOf(f, gs)
  <2>1. GoodCalls(todo', life')
    OBVIOUS
  <2>. QED  BY <2>1, <1>2, <1>4, <1>5 DEF CallsOf
<1>8. FlagsOf(f, gs)
  BY <1>1, <1>2, <1>5 DEF FlagsOf
<1>9. CountOf(f, gs)
  <2>1. /\ Occupies(gs, "NETSLOT") = 0 /\ Occupies(gs, "LOCALSLOT") = 0
        /\ nrnet' = nrnet - Occupies(flags[f], "NETSLOT")
        /\ nrlocal' = nrlocal - Occupies(flags[f], "LOCALSLOT")
    BY <1>1, <1>2, <1>3 DEF Occupies
  <2>2. Occupies(flags[f], "NETSLOT") \in {0, 1} /\ Occupies(flags[f], "LOCALSLOT") \in {0, 1}
    BY DEF Occupies
  <2>. QED  BY <2>1, <2>2, <1>1, FetchAssumption DEF CountOf
<1>10. /\ QueueOf(netqueue, netqueue', f, gs, "NETSLOT")
       /\ QueueOf(localqueue, localqueue', f, gs, "LOCALSLOT")
  BY SameQueues DEF QueueOf, Shorter
<1>. QED  BY <1>2, <1>6, <1>7, <1>8, <1>9, <1>10, FetchStep

\* What ends a fetch is the last call about it.
LEMMA LastCall ==
  ASSUME NEW op \in LateOps, NEW f \in Fetches, NEW lf, lf[f] # "new"
  PROVE  GoodCall(CallF(op, f, {}), lf) /\ CallF(op, f, {}).op = op /\ CallF(op, f, {}).f = f
<1>1. op \in OfFetch \cup OfQueues
  BY DEF OfFetch, LateOps
<1>. QED  BY <1>1, TagsIn, CallFIn

LEMMA UpdateTerminateStep ==
  ASSUME SlotsInv, NEW f \in Fetches, UpdateTerminate(f)
  PROVE  SlotsInv'
<1>. DEFINE q == Checkqueues
            r == CallF("retry", f, {})
            e == CallF("end", f, {})
            waiting == (flags[f] \ {"RUNNING"}) \cup {"INCOMPLETE"}
<1>1. /\ Idle /\ life[f] = "live" /\ "RUNNING" \in flags[f]
      /\ ~In(netqueue, f) /\ ~In(localqueue, f)
  BY UpdateHead DEF UpdateTerminate
<1>2. /\ task' = [task EXCEPT ![f] = FALSE]
      /\ UNCHANGED <<life, url, stop, netqueue, localqueue, urlVars, waitrequests>>
  BY DEF UpdateTerminate
<1>3. UrlsGood
  BY <1>2, UrlsSame
<1>4. PlainCalls(q, life)
  BY CheckqueuesPlain
<1>5. /\ GoodCall(r, life) /\ r.op \in LateOps /\ r.op = "retry" /\ r.f = f
      /\ GoodCall(e, life) /\ e.op \in LateOps /\ e.op = "end" /\ e.f = f
  <2>1. "retry" \in LateOps /\ "end" \in LateOps /\ life[f] # "new"
    BY <1>1 DEF LateOps
  <2>2. GoodCall(r, life) /\ r.op = "retry" /\ r.f = f
    BY <2>1, LastCall
  <2>3. GoodCall(e, life) /\ e.op = "end" /\ e.f = f
    BY <2>1, LastCall
  <2>. HIDE DEF r, e
  <2>. QED  BY <2>1, <2>2, <2>3
<1>6. /\ flags[f] \in SUBSET Flags /\ "INCOMPLETE" \notin flags[f]
  BY <1>1, IdleFacts DEF SlotsInv, TypeOK, WaitsApart
<1>7. /\ waiting \in SUBSET Flags /\ "RUNNING" \notin waiting
      /\ "NETSLOT" \in waiting <=> "NETSLOT" \in flags[f]
      /\ "LOCALSLOT" \in waiting <=> "LOCALSLOT" \in flags[f]
  BY <1>6 DEF Flags
<1>8. \/ Release(f, flags[f]) /\ todo' = q \o <<r>>
      \/ Release(f, waiting) /\ todo' = q
      \/ /\ Release(f, flags[f])
         /\ \E tags \in TagSets : todo' = q \o <<CallF("forward", f, tags), e>>
  <2>1. {"Terminate"} \cup {} \in TagSets /\ {"Terminate"} \cup {"Error"} \in TagSets
    BY DEF TagSets, Tags
  <2>. HIDE DEF q, r, e, waiting
  <2>2. CASE Release(f, flags[f]) /\ Event(q \o <<r>>)
    BY <2>2 DEF Event
  <2>3. CASE Release(f, waiting) /\ Event(q)
    BY <2>3 DEF Event
  <2>4. CASE /\ Release(f, flags[f])
             /\ \E error \in {{}, {"Error"}} :
                  Event(q \o <<CallF("forward", f, {"Terminate"} \cup error), e>>)
    BY <2>1, <2>4 DEF Event
  <2>. QED  BY <2>2, <2>3, <2>4 DEF UpdateTerminate, q, r, e, waiting
<1>. HIDE DEF q, r, e, waiting
<1>9. CASE Release(f, flags[f]) /\ todo' = q \o <<r>>
  <2>1. GoodCalls(<<r>>, life) /\ \A g : Ends(<<r>>, g) => g = f
    BY <1>5, LateOne
  <2>2. GoodCalls(todo', life) /\ \A g : Ends(todo', g) => g = f
    BY <1>4, <1>9, <2>1, PlainThenLate
  <2>. QED  BY <1>1, <1>2, <1>3, <1>6, <1>9, <2>2, ReleaseStep
<1>10. CASE Release(f, waiting) /\ todo' = q
  <2>1. GoodCalls(todo', life) /\ \A g : ~Ends(todo', g)
    BY <1>4, <1>10, PlainFacts
  <2>. QED  BY <1>1, <1>2, <1>3, <1>7, <1>10, <2>1, ReleaseStep
<1>11. CASE /\ Release(f, flags[f])
            /\ \E tags \in TagSets : todo' = q \o <<CallF("forward", f, tags), e>>
  <2>1. PICK tags \in TagSets : todo' = q \o <<CallF("forward", f, tags), e>>
    BY <1>11
  <2>. DEFINE d == CallF("forward", f, tags)
  <2>2. GoodCall(d, life) /\ d.op \notin LateOps
    BY <1>1, FetchCallPlain
  <2>3. todo' = q \o <<d, e>>
    BY <2>1
  <2>. HIDE DEF d
  <2>4. GoodCalls(<<d, e>>, life) /\ \A g : Ends(<<d, e>>, g) => g = f
    BY <1>5, <2>2, LateTwo
  <2>5. GoodCalls(todo', life) /\ \A g : Ends(todo', g) => g = f
    BY <1>4, <2>3, <2>4, PlainThenLate
  <2>. QED  BY <1>1, <1>2, <1>3, <1>6, <1>11, <2>5, ReleaseStep
<1>. QED  BY <1>8, <1>9, <1>10, <1>11

-----------------------------------------------------------------------------
(* The theorems. *)

\* Nothing is fetched when AWeb starts.
LEMMA SlotsInit ==
  ASSUME Init
  PROVE  SlotsInv
<1>1. /\ todo \in Seq(Call) /\ netqueue \in Seq(Fetches) /\ localqueue \in Seq(Fetches)
      /\ Len(todo) = 0 /\ Len(netqueue) = 0 /\ Len(localqueue) = 0
  BY DEF Init
<1>2. TypeOK
  <2>1. nrnet \in 0..Maxconnect /\ nrlocal \in 0..Maxdiskread
    BY FetchAssumption DEF Init
  <2>2. flags \in [Fetches -> SUBSET Flags]
    BY DEF Init
  <2>. QED  BY <1>1, <2>1, <2>2 DEF TypeOK, Init
<1>3. Known
  <2>1. GoodCalls(todo, life)
    BY <1>1 DEF GoodCalls, LateIsLast
  <2>. QED  BY <2>1, FetchAssumption DEF Known, Init
<1>4. SlotRuns
  BY <1>1 DEF SlotRuns, Init, Ends
<1>5. WaitsApart
  BY <1>1 DEF WaitsApart, Init, In
<1>6. QueuesApart
  BY <1>1 DEF QueuesApart, Distinct
<1>7. SlotsCounted
  <2>1. Occupying("NETSLOT") = {} /\ Occupying("LOCALSLOT") = {}
    BY DEF Occupying, Init
  <2>. QED  BY <2>1, FS_EmptySet DEF SlotsCounted, Init
<1>. QED  BY <1>2, <1>3, <1>4, <1>5, <1>6, <1>7 DEF SlotsInv

\* A step that changes nothing.
LEMMA SlotsStutter ==
  ASSUME SlotsInv, UNCHANGED vars
  PROVE  SlotsInv'
BY DEF SlotsInv, TypeOK, Known, SlotRuns, WaitsApart, QueuesApart, SlotsCounted, Occupying,
       vars, fetchVars, queueVars, urlVars

\* Every step of main, a driver or the user.
LEMMA SlotsNext ==
  ASSUME SlotsInv, Next
  PROVE  SlotsInv'
<1>1. ASSUME MainStep PROVE SlotsInv'
  <2>1. CASE Newfetch("newfetch") \/ Newfetch("newrfetch") \/ Newfetch("newvfetch")
    BY <2>1, NewfetchStep
  <2>2. CASE Checknetqueue \/ Checklocalqueue
    BY <2>2, ChecknetqueueStep, ChecklocalqueueStep
  <2>3. CASE Disposefetch \/ ForwardTerminate \/ End
    BY <2>3, DisposefetchStep, ForwardTerminateStep, EndStep
  <2>4. CASE Retry \/ Discard \/ Resume
    BY <2>4, RetryStep, DiscardStep, ResumeStep
  <2>5. CASE Promote \/ Verified \/ Moveurl
    BY <2>5, PromoteStep, VerifiedStep, MoveurlStep
  <2>6. CASE Srcupdatefetch \/ SrcupdateIgnored
    BY <2>6, SrcupdatefetchStep, SrcupdateIgnoredStep
  <2>7. CASE Loadurl \/ Reload
    BY <2>7, LoadurlStep, ReloadStep
  <2>8. CASE \/ Cancelpointer("cancelfetch", fetch) \/ Cancelpointer("cancelrfetch", rfetch)
             \/ Cancelpointer("cancelvfetch", vfetch)
    BY <2>8, CancelpointerStep
  <2>. QED
    BY <1>1, <2>1, <2>2, <2>3, <2>4, <2>5, <2>6, <2>7, <2>8 DEF MainStep
<1>2. ASSUME User PROVE SlotsInv'
  <2>1. ASSUME NEW u \in Urls, Auload(u) \/ Cancelfetch(u) PROVE SlotsInv'
    BY <2>1, AuloadStep, CancelfetchStep
  <2>2. ASSUME NEW f \in Fetches, Cancelnetstat(f) \/ Incompletereturn(f) PROVE SlotsInv'
    BY <2>2, CancelnetstatStep, IncompletereturnStep
  <2>3. ASSUME NEW w \in Urls \cup {NoUrl}, Addwaitrequest(w) PROVE SlotsInv'
    BY <2>3, AddwaitrequestStep
  <2>. QED  BY <1>2, <2>1, <2>2, <2>3 DEF User
<1>3. ASSUME NEW f \in Fetches, DriverUpdate(f) \/ UpdateTerminate(f) PROVE SlotsInv'
  BY <1>3, DriverUpdateStep, UpdateTerminateStep
<1>. QED  BY <1>1, <1>2, <1>3 DEF Next

\* What main, the drivers and the user do keeps the slots, the queues and the
\* calls that main still makes consistent with each other.
THEOREM SlotsInvariant == Spec => []SlotsInv
<1>1. Init => SlotsInv
  BY SlotsInit
<1>2. SlotsInv /\ [Next]_vars => SlotsInv'
  BY SlotsNext, SlotsStutter
<1>. QED  BY <1>1, <1>2, PTL DEF Spec

\* Type correctness: nrnet and nrlocal stay within prefs.maxconnect and
\* prefs.maxdiskread, and every queue and pointer holds fetch objects.
THEOREM FetchTypeCorrect == Spec => []TypeOK
<1>1. SlotsInv => TypeOK
  BY DEF SlotsInv
<1>. QED  BY <1>1, SlotsInvariant, PTL

\* However fetches start, wait, are cancelled, asked about or retried, the
\* counters that Startdriver() and Checkqueues() look at are the numbers of
\* connections and files in use.
THEOREM SlotsNeverLeak == Spec => []SlotsCounted
<1>1. SlotsInv => SlotsCounted
  BY DEF SlotsInv
<1>. QED  BY <1>1, SlotsInvariant, PTL

-----------------------------------------------------------------------------
(* The calls of a sequence, and their order. *)

CallsIn(q) == {q[i] : i \in 1..Len(q)}

Before(q, a, b) == \E i, j \in 1..Len(q) : i < j /\ q[i] = a /\ q[j] = b

\* What comes before something is one of the calls, and so is what comes after.
LEMMA BeforeIn ==
  ASSUME NEW q, NEW a, NEW b, Before(q, a, b)
  PROVE  a \in CallsIn(q) /\ b \in CallsIn(q)
BY DEF Before, CallsIn

LEMMA CallsNone ==
  CallsIn(<<>>) = {} /\ \A a, b : ~Before(<<>>, a, b)
<1>1. Len(<<>>) = 0
  OBVIOUS
<1>2. 1..0 = {}
  OBVIOUS
<1>. QED  BY <1>1, <1>2 DEF CallsIn, Before

\* Everything of p comes before everything of q.
LEMMA CallsConcat ==
  ASSUME NEW S, NEW p \in Seq(S), NEW q \in Seq(S)
  PROVE  /\ CallsIn(p \o q) = CallsIn(p) \cup CallsIn(q)
         /\ \A a, b : Before(p \o q, a, b) <=>
              \/ Before(p, a, b) \/ Before(q, a, b)
              \/ a \in CallsIn(p) /\ b \in CallsIn(q)
<1>. DEFINE r == p \o q
            m == Len(p)
            n == Len(q)
<1>1. /\ Len(r) = m + n
      /\ \A i \in 1..m : r[i] = p[i]
      /\ \A i \in 1..n : r[m + i] = q[i]
  BY ConcatFacts
<1>2. m \in Nat /\ n \in Nat
  OBVIOUS
<1>. HIDE DEF r, m, n
<1>3. \A i \in 1..m : i \in 1..Len(r)
  BY <1>1, <1>2
<1>4. \A i \in 1..n : m + i \in 1..Len(r)
  BY <1>1, <1>2
<1>5. ASSUME NEW i \in 1..Len(r)
      PROVE  \/ i \in 1..m /\ r[i] = p[i]
             \/ \E k \in 1..n : i = m + k /\ r[i] = q[k]
  <2>1. CASE i <= m
    BY <2>1, <1>1, <1>2
  <2>2. CASE ~(i <= m)
    <3>1. i - m \in 1..n /\ i = m + (i - m)
      BY <2>2, <1>1, <1>2
    <3>. QED  BY <3>1, <1>1
  <2>. QED  BY <2>1, <2>2
<1>6. CallsIn(r) = CallsIn(p) \cup CallsIn(q)
  <2>1. ASSUME NEW a \in CallsIn(r) PROVE a \in CallsIn(p) \cup CallsIn(q)
    BY <1>5 DEF CallsIn, m, n
  <2>2. ASSUME NEW a \in CallsIn(p) PROVE a \in CallsIn(r)
    BY <1>1, <1>3 DEF CallsIn, m
  <2>3. ASSUME NEW a \in CallsIn(q) PROVE a \in CallsIn(r)
    BY <1>1, <1>4 DEF CallsIn, n
  <2>. QED  BY <2>1, <2>2, <2>3
<1>7. ASSUME NEW a, NEW b, Before(r, a, b)
      PROVE  \/ Before(p, a, b) \/ Before(q, a, b)
             \/ a \in CallsIn(p) /\ b \in CallsIn(q)
  <2>1. PICK i \in 1..Len(r), j \in 1..Len(r) : i < j /\ r[i] = a /\ r[j] = b
    BY <1>7 DEF Before
  <2>2. CASE i \in 1..m /\ j \in 1..m
    BY <2>1, <2>2, <1>1 DEF Before, m
  <2>3. CASE i \in 1..m /\ j \notin 1..m
    <3>1. PICK k \in 1..n : r[j] = q[k]
      BY <2>3, <1>5
    <3>. QED  BY <2>1, <2>3, <3>1, <1>1 DEF CallsIn, m, n
  <2>4. CASE i \notin 1..m
    <3>1. PICK k \in 1..n : i = m + k /\ r[i] = q[k]
      BY <2>4, <1>5
    <3>2. j \notin 1..m
      BY <2>1, <3>1, <1>2
    <3>3. PICK l \in 1..n : j = m + l /\ r[j] = q[l]
      BY <3>2, <1>5
    <3>4. k < l
      BY <2>1, <3>1, <3>3, <1>2
    <3>. QED  BY <2>1, <3>1, <3>3, <3>4 DEF Before, n
  <2>. QED  BY <2>2, <2>3, <2>4
<1>8. ASSUME NEW a, NEW b, Before(p, a, b) PROVE Before(r, a, b)
  <2>1. PICK i \in 1..m, j \in 1..m : i < j /\ p[i] = a /\ p[j] = b
    BY <1>8 DEF Before, m
  <2>. QED  BY <2>1, <1>1, <1>3 DEF Before
<1>9. ASSUME NEW a, NEW b, Before(q, a, b) PROVE Before(r, a, b)
  <2>1. PICK i \in 1..n, j \in 1..n : i < j /\ q[i] = a /\ q[j] = b
    BY <1>9 DEF Before, n
  <2>2. m + i < m + j
    BY <2>1, <1>2
  <2>. QED  BY <2>1, <2>2, <1>1, <1>4 DEF Before
<1>10. ASSUME NEW a \in CallsIn(p), NEW b \in CallsIn(q) PROVE Before(r, a, b)
  <2>1. PICK i \in 1..m : p[i] = a
    BY DEF CallsIn, m
  <2>2. PICK j \in 1..n : q[j] = b
    BY DEF CallsIn, n
  <2>3. i < m + j
    BY <1>2
  <2>. QED  BY <2>1, <2>2, <2>3, <1>1, <1>3, <1>4 DEF Before
<1>. QED  BY <1>6, <1>7, <1>8, <1>9, <1>10 DEF r

\* One call before the others.
LEMMA CallsOne ==
  ASSUME NEW a
  PROVE  CallsIn(<<a>>) = {a} /\ \A x, y : ~Before(<<a>>, x, y)
<1>1. Len(<<a>>) = 1 /\ <<a>>[1] = a
  OBVIOUS
<1>2. \A i \in 1..1 : i = 1
  OBVIOUS
<1>3. \A i, j \in 1..1 : ~(i < j)
  OBVIOUS
<1>. QED  BY <1>1, <1>2, <1>3 DEF CallsIn, Before

\* A sequence is one of a larger set.
LEMMA SeqOfMore ==
  ASSUME NEW S, NEW q \in Seq(S), NEW T, S \subseteq T
  PROVE  q \in Seq(T)
OBVIOUS

LEMMA ConsCalls ==
  ASSUME NEW S, NEW q \in Seq(S), NEW a
  PROVE  /\ CallsIn(<<a>> \o q) = {a} \cup CallsIn(q)
         /\ \A x, y : Before(<<a>> \o q, x, y) <=>
              (x = a /\ y \in CallsIn(q)) \/ Before(q, x, y)
<1>. DEFINE T == S \cup {a}
<1>1. q \in Seq(T) /\ <<a>> \in Seq(T)
  <2>1. S \subseteq T
    OBVIOUS
  <2>. QED  BY <2>1, SeqOfMore
<1>. HIDE DEF T
<1>2. /\ CallsIn(<<a>> \o q) = CallsIn(<<a>>) \cup CallsIn(q)
      /\ \A x, y : Before(<<a>> \o q, x, y) <=>
           \/ Before(<<a>>, x, y) \/ Before(q, x, y)
           \/ x \in CallsIn(<<a>>) /\ y \in CallsIn(q)
  BY <1>1, CallsConcat
<1>. QED  BY <1>2, CallsOne

\* The calls main still has to make are the next one and those that are left.
LEMMA HeadCalls ==
  ASSUME NEW S, NEW q \in Seq(S), q # <<>>
  PROVE  /\ CallsIn(q) = {Head(q)} \cup CallsIn(Tail(q))
         /\ \A x, y : Before(q, x, y) <=>
              (x = Head(q) /\ y \in CallsIn(Tail(q))) \/ Before(Tail(q), x, y)
         /\ Tail(q) \in Seq(S)
<1>. DEFINE h == Head(q)
            t == Tail(q)
<1>1. t \in Seq(S) /\ h \in S
  OBVIOUS
<1>2. q = <<h>> \o t
  BY <1>1
<1>. HIDE DEF h, t
<1>3. /\ CallsIn(<<h>> \o t) = {h} \cup CallsIn(t)
      /\ \A x, y : Before(<<h>> \o t, x, y) <=>
           (x = h /\ y \in CallsIn(t)) \/ Before(t, x, y)
  BY <1>1, ConsCalls
<1>4. /\ CallsIn(q) = {h} \cup CallsIn(t)
      /\ \A x, y : Before(q, x, y) <=> (x = h /\ y \in CallsIn(t)) \/ Before(t, x, y)
  BY <1>2, <1>3
<1>. QED  BY <1>1, <1>4 DEF h, t

\* Two to four calls before the others.
LEMMA ConsTwo ==
  ASSUME NEW S, NEW q \in Seq(S), NEW a, NEW b
  PROVE  /\ CallsIn(<<a, b>> \o q) = {a, b} \cup CallsIn(q)
         /\ \A x, y : Before(<<a, b>> \o q, x, y) <=>
              \/ x = a /\ y = b
              \/ x \in {a, b} /\ y \in CallsIn(q)
              \/ Before(q, x, y)
<1>. DEFINE T == S \cup {a, b}
            p == <<a, b>>
<1>1. q \in Seq(T) /\ p \in Seq(T)
  <2>1. S \subseteq T
    OBVIOUS
  <2>. QED  BY <2>1, SeqOfMore
<1>. HIDE DEF T
<1>2. Len(p) = 2 /\ p[1] = a /\ p[2] = b
  OBVIOUS
<1>3. 1..2 = {1, 2} /\ \A i, j \in 1..2 : i < j <=> i = 1 /\ j = 2
  OBVIOUS
<1>. HIDE DEF p
<1>4. CallsIn(p) = {a, b} /\ \A x, y : Before(p, x, y) <=> x = a /\ y = b
  BY <1>2, <1>3 DEF CallsIn, Before
<1>5. /\ CallsIn(p \o q) = CallsIn(p) \cup CallsIn(q)
      /\ \A x, y : Before(p \o q, x, y) <=>
           \/ Before(p, x, y) \/ Before(q, x, y)
           \/ x \in CallsIn(p) /\ y \in CallsIn(q)
  BY <1>1, CallsConcat
<1>. QED  BY <1>4, <1>5 DEF p

LEMMA ConsThree ==
  ASSUME NEW S, NEW q \in Seq(S), NEW a, NEW b, NEW c
  PROVE  /\ CallsIn(<<a, b, c>> \o q) = {a, b, c} \cup CallsIn(q)
         /\ \A x, y : Before(<<a, b, c>> \o q, x, y) <=>
              \/ x = a /\ y \in {b, c}
              \/ x = b /\ y = c
              \/ x \in {a, b, c} /\ y \in CallsIn(q)
              \/ Before(q, x, y)
<1>. DEFINE T == S \cup {a, b, c}
<1>1. q \in Seq(T) /\ <<a>> \in Seq(T) /\ <<b, c>> \in Seq(T)
  <2>1. S \subseteq T
    OBVIOUS
  <2>. QED  BY <2>1, SeqOfMore
<1>. HIDE DEF T
<1>2. <<b, c>> \o q \in Seq(T) /\ <<a, b, c>> \o q = <<a>> \o (<<b, c>> \o q)
  BY <1>1
<1>3. /\ CallsIn(<<b, c>> \o q) = {b, c} \cup CallsIn(q)
      /\ \A x, y : Before(<<b, c>> \o q, x, y) <=>
           \/ x = b /\ y = c
           \/ x \in {b, c} /\ y \in CallsIn(q)
           \/ Before(q, x, y)
  BY <1>1, ConsTwo
<1>4. /\ CallsIn(<<a>> \o (<<b, c>> \o q)) = {a} \cup CallsIn(<<b, c>> \o q)
      /\ \A x, y : Before(<<a>> \o (<<b, c>> \o q), x, y) <=>
           (x = a /\ y \in CallsIn(<<b, c>> \o q)) \/ Before(<<b, c>> \o q, x, y)
  BY <1>2, ConsCalls
<1>. QED  BY <1>2, <1>3, <1>4

LEMMA ConsFour ==
  ASSUME NEW S, NEW q \in Seq(S), NEW a, NEW b, NEW c, NEW d
  PROVE  /\ CallsIn(<<a, b, c, d>> \o q) = {a, b, c, d} \cup CallsIn(q)
         /\ \A x, y : Before(<<a, b, c, d>> \o q, x, y) <=>
              \/ x = a /\ y \in {b, c, d}
              \/ x = b /\ y \in {c, d}
              \/ x = c /\ y = d
              \/ x \in {a, b, c, d} /\ y \in CallsIn(q)
              \/ Before(q, x, y)
<1>. DEFINE T == S \cup {a, b, c, d}
<1>1. q \in Seq(T) /\ <<a>> \in Seq(T) /\ <<b, c, d>> \in Seq(T)
  <2>1. S \subseteq T
    OBVIOUS
  <2>. QED  BY <2>1, SeqOfMore
<1>. HIDE DEF T
<1>2. <<b, c, d>> \o q \in Seq(T) /\ <<a, b, c, d>> \o q = <<a>> \o (<<b, c, d>> \o q)
  BY <1>1
<1>3. /\ CallsIn(<<b, c, d>> \o q) = {b, c, d} \cup CallsIn(q)
      /\ \A x, y : Before(<<b, c, d>> \o q, x, y) <=>
           \/ x = b /\ y \in {c, d}
           \/ x = c /\ y = d
           \/ x \in {b, c, d} /\ y \in CallsIn(q)
           \/ Before(q, x, y)
  BY <1>1, ConsThree
<1>4. /\ CallsIn(<<a>> \o (<<b, c, d>> \o q)) = {a} \cup CallsIn(<<b, c, d>> \o q)
      /\ \A x, y : Before(<<a>> \o (<<b, c, d>> \o q), x, y) <=>
           (x = a /\ y \in CallsIn(<<b, c, d>> \o q)) \/ Before(<<b, c, d>> \o q, x, y)
  BY <1>2, ConsCalls
<1>. QED  BY <1>2, <1>3, <1>4

-----------------------------------------------------------------------------
(* The calls that are left behind the one that runs. *)

Left == IF Idle THEN <<>> ELSE Tail(todo)

LEMMA LeftFacts ==
  ASSUME SlotsInv
  PROVE  /\ Left \in Seq(Call)
         /\ Idle => CallsIn(todo) = {} /\ CallsIn(Left) = {} /\ \A x, y : ~Before(todo, x, y)
         /\ ~Idle => /\ CallsIn(todo) = {Head(todo)} \cup CallsIn(Left)
                     /\ \A x, y : Before(todo, x, y) <=>
                          (x = Head(todo) /\ y \in CallsIn(Left)) \/ Before(Left, x, y)
         /\ CallsIn(Left) \subseteq CallsIn(todo)
         /\ \A x, y : Before(Left, x, y) =>
              Before(todo, x, y) /\ x \in CallsIn(Left) /\ y \in CallsIn(Left)
<1>. DEFINE S == Call
<1>1. todo \in Seq(S)
  BY DEF SlotsInv, TypeOK
<1>. HIDE DEF S
<1>2. CASE Idle
  <2>1. todo = <<>> /\ Left = <<>>
    BY <1>2 DEF Idle, Left
  <2>2. <<>> \in Seq(Call)
    OBVIOUS
  <2>. QED  BY <1>2, <2>1, <2>2, CallsNone
<1>3. CASE ~Idle
  <2>1. todo # <<>> /\ Left = Tail(todo)
    BY <1>3 DEF Idle, Left
  <2>2. /\ CallsIn(todo) = {Head(todo)} \cup CallsIn(Left)
        /\ \A x, y : Before(todo, x, y) <=>
             (x = Head(todo) /\ y \in CallsIn(Left)) \/ Before(Left, x, y)
        /\ Left \in Seq(S)
    BY <1>1, <2>1, HeadCalls
  <2>3. Left \in Seq(Call)
    BY <2>2 DEF S
  <2>4. \A x, y : Before(Left, x, y) => x \in CallsIn(Left) /\ y \in CallsIn(Left)
    BY BeforeIn
  <2>. QED  BY <1>3, <2>2, <2>3, <2>4
<1>. QED  BY <1>2, <1>3

LEMMA DoLeft ==
  ASSUME todo # <<>>, NEW c, Do(c)
  PROVE  todo' = c \o Left /\ ~Idle
BY DEF Do, Left, Idle

LEMMA EventLeft ==
  ASSUME NEW S, NEW c \in Seq(S), Event(c)
  PROVE  todo' = c \o Left /\ Idle
<1>1. Left = <<>> /\ todo' = c /\ Idle
  BY DEF Event, Left
<1>2. c \o <<>> = c
  OBVIOUS
<1>. QED  BY <1>1, <1>2

\* The calls that were left are still made.
LEMMA LeftKept ==
  ASSUME SlotsInv, NEW S, NEW c \in Seq(S), todo' = c \o Left
  PROVE  CallsIn(Left) \subseteq CallsIn(todo')
<1>. DEFINE T == S \cup Call
<1>1. Left \in Seq(Call)
  BY LeftFacts
<1>2. c \in Seq(T) /\ Left \in Seq(T)
  <2>1. S \subseteq T /\ Call \subseteq T
    OBVIOUS
  <2>. HIDE DEF T
  <2>. QED  BY <1>1, <2>1, SeqOfMore
<1>. HIDE DEF T
<1>3. CallsIn(c \o Left) = CallsIn(c) \cup CallsIn(Left)
  BY <1>2, CallsConcat
<1>. QED  BY <1>3

-----------------------------------------------------------------------------
(* The queues and what waits for them. *)

\* No image stands before something that is not an image.
Sorted(queue, fl) ==
  \A i, j \in 1..Len(queue) :
     i < j /\ "IMAGE" \in fl[queue[i]] => "IMAGE" \in fl[queue[j]]

\* Main will look at this queue in the event it handles.
Checks(op) == \E c \in CallsIn(todo) : c.op = op

\* While there is a slot for what is queued, Checkqueues() is at work.
QueuesChecked ==
  /\ netqueue # <<>> /\ nrnet < Maxconnect => Checks("netqueue")
  /\ localqueue # <<>> /\ nrlocal < Maxdiskread => Checks("localqueue")

QueueInv ==
  /\ Sorted(netqueue, flags) /\ Sorted(localqueue, flags)
  /\ QueuesChecked
  /\ WaitersHaveFetch

\* The order of a queue depends on what is an image in it.
LEMMA SortedSame ==
  ASSUME NEW q \in Seq(Fetches), NEW fl, NEW gl, Sorted(q, fl),
         \A f \in Fetches : In(q, f) => ("IMAGE" \in gl[f] <=> "IMAGE" \in fl[f])
  PROVE  Sorted(q, gl)
<1>1. ASSUME NEW i \in 1..Len(q) PROVE q[i] \in Fetches /\ In(q, q[i])
  BY ElementOfSeq DEF In
<1>. QED  BY <1>1 DEF Sorted

\* Without its first element a queue keeps its order.
LEMMA SortedTail ==
  ASSUME NEW q \in Seq(Fetches), q # <<>>, NEW fl, Sorted(q, fl)
  PROVE  Sorted(Tail(q), fl)
<1>. DEFINE t == Tail(q)
<1>1. Len(q) \in Nat \ {0}
  BY EmptySeq
<1>2. Len(t) = Len(q) - 1 /\ \A i \in 1..(Len(q) - 1) : t[i] = q[i + 1]
  BY <1>1
<1>. HIDE DEF t
<1>3. ASSUME NEW i \in 1..Len(t), NEW j \in 1..Len(t), i < j
      PROVE  /\ i + 1 \in 1..Len(q) /\ j + 1 \in 1..Len(q) /\ i + 1 < j + 1
             /\ t[i] = q[i + 1] /\ t[j] = q[j + 1]
  BY <1>1, <1>2, <1>3
<1>4. Sorted(t, fl)
  BY <1>3 DEF Sorted
<1>. QED  BY <1>4 DEF t

\* So it does when a fetch is taken out of it.
LEMMA SortedUnlink ==
  ASSUME NEW q \in Seq(Fetches), NEW f, NEW fl, Sorted(q, fl)
  PROVE  Sorted(Unlink(q, f), fl)
<1>. DEFINE k == CHOOSE i \in Places(q, f) : TRUE
            r == RemoveAt(q, k)
<1>1. CASE Places(q, f) = {}
  BY <1>1 DEF Unlink
<1>2. CASE Places(q, f) # {}
  <2>1. k \in Places(q, f) /\ Unlink(q, f) = r
    BY <1>2 DEF Unlink
  <2>. HIDE DEF k
  <2>2. k \in 1..Len(q)
    BY <2>1 DEF Places
  <2>3. /\ Len(r) = Len(q) - 1
        /\ \A j \in 1..(Len(q) - 1) : r[j] = IF j < k THEN q[j] ELSE q[j + 1]
    BY <2>2, RemoveAtFacts
  <2>4. Len(q) \in Nat
    OBVIOUS
  <2>. HIDE DEF r
  <2>5. ASSUME NEW i \in 1..Len(r), NEW j \in 1..Len(r), i < j
        PROVE  \E m, n \in 1..Len(q) : m < n /\ r[i] = q[m] /\ r[j] = q[n]
    <3>1. CASE j < k
      <4>1. i \in 1..Len(q) /\ j \in 1..Len(q) /\ r[i] = q[i] /\ r[j] = q[j]
        BY <3>1, <2>2, <2>3, <2>4, <2>5
      <4>. QED  BY <4>1, <2>5
    <3>2. CASE i < k /\ ~(j < k)
      <4>1. i \in 1..Len(q) /\ j + 1 \in 1..Len(q) /\ i < j + 1 /\ r[i] = q[i] /\ r[j] = q[j + 1]
        BY <3>2, <2>2, <2>3, <2>4, <2>5
      <4>. QED  BY <4>1
    <3>3. CASE ~(i < k)
      <4>1. /\ i + 1 \in 1..Len(q) /\ j + 1 \in 1..Len(q) /\ i + 1 < j + 1
            /\ r[i] = q[i + 1] /\ r[j] = q[j + 1]
        BY <3>3, <2>2, <2>3, <2>4, <2>5
      <4>. QED  BY <4>1
    <3>. QED  BY <3>1, <3>2, <3>3, <2>5
  <2>6. Sorted(r, fl)
    BY <2>5 DEF Sorted
  <2>. QED  BY <2>1, <2>6
<1>. QED  BY <1>1, <1>2

\* Addtoqueue() puts a fetch before the first image, or at the end when it is
\* one itself or when there is none.
LEMMA SortedAdd ==
  ASSUME NEW q \in Seq(Fetches), NEW f \in Fetches, ~In(q, f), NEW image \in BOOLEAN,
         Sorted(q, flags), NEW gl, "IMAGE" \in gl[f] <=> image,
         \A g \in Fetches : In(q, g) => ("IMAGE" \in gl[g] <=> "IMAGE" \in flags[g])
  PROVE  Sorted(Addtoqueue(q, f, image), gl) /\ Addtoqueue(q, f, image) # <<>>
<1>. DEFINE k == CHOOSE i \in Images(q) : \A j \in Images(q) : i <= j
            r == Addtoqueue(q, f, image)
<1>1. Len(q) \in Nat /\ Sorted(q, gl)
  BY SortedSame
<1>2. \A i \in 1..Len(q) : i \in Images(q) <=> "IMAGE" \in gl[q[i]]
  <2>1. ASSUME NEW i \in 1..Len(q) PROVE q[i] \in Fetches /\ In(q, q[i])
    BY ElementOfSeq DEF In
  <2>. QED  BY <2>1 DEF Images, Has
<1>3. CASE image \/ Images(q) = {}
  <2>1. r = Append(q, f)
    BY <1>3 DEF Addtoqueue
  <2>2. /\ Len(r) = Len(q) + 1
        /\ \A i \in 1..Len(q) : r[i] = q[i]
        /\ r[Len(q) + 1] = f
    BY <2>1, PushFacts
  <2>. HIDE DEF r
  <2>3. ASSUME NEW i \in 1..Len(r), NEW j \in 1..Len(r), i < j, "IMAGE" \in gl[r[i]]
        PROVE  "IMAGE" \in gl[r[j]]
    <3>1. i \in 1..Len(q) /\ r[i] = q[i]
      BY <1>1, <2>2, <2>3
    <3>2. image
      BY <1>2, <1>3, <2>3, <3>1
    <3>3. CASE j \in 1..Len(q)
      BY <1>1, <2>2, <2>3, <3>1, <3>3 DEF Sorted
    <3>4. CASE j \notin 1..Len(q)
      <4>1. j = Len(q) + 1
        BY <1>1, <2>2, <3>4
      <4>. QED  BY <2>2, <3>2, <4>1
    <3>. QED  BY <3>3, <3>4
  <2>4. r # <<>>
    BY <1>1, <2>2
  <2>. QED  BY <2>3, <2>4 DEF Sorted, r
<1>4. CASE ~(image \/ Images(q) = {})
  <2>1. Images(q) \subseteq Nat /\ Images(q) # {} /\ Images(q) \subseteq 1..Len(q)
    BY <1>4, <1>1 DEF Images
  <2>2. \E i \in Images(q) : \A j \in Images(q) : i <= j
    BY <2>1, SmallestIn
  <2>3. k \in Images(q) /\ \A j \in Images(q) : k <= j
    BY <2>2
  <2>4. r = InsertAt(q, k, f)
    BY <1>4 DEF Addtoqueue
  <2>. HIDE DEF k
  <2>5. k \in 1..Len(q) /\ k \in Nat
    BY <2>1, <2>3
  <2>6. /\ Len(r) = Len(q) + 1
        /\ \A j \in 1..(Len(q) + 1) :
              r[j] = IF j < k THEN q[j] ELSE IF j = k THEN f ELSE q[j - 1]
    BY <2>4, <2>5, InsertAtFacts
  <2>. HIDE DEF r
  <2>7. ASSUME NEW i \in 1..Len(r)
        PROVE  \/ i < k /\ i \in 1..Len(q) /\ r[i] = q[i]
               \/ i = k /\ r[i] = f
               \/ i > k /\ i - 1 \in 1..Len(q) /\ r[i] = q[i - 1]
    BY <1>1, <2>5, <2>6
  <2>8. ASSUME NEW i \in 1..Len(q), i < k PROVE "IMAGE" \notin gl[q[i]]
    <3>1. i \notin Images(q)
      BY <2>3, <2>5, <2>8
    <3>. QED  BY <1>2, <3>1
  <2>9. ASSUME NEW i \in 1..Len(q), i >= k PROVE "IMAGE" \in gl[q[i]]
    <3>1. "IMAGE" \in gl[q[k]]
      BY <1>2, <2>3, <2>5
    <3>. QED  BY <1>1, <2>5, <2>9, <3>1 DEF Sorted
  <2>10. ASSUME NEW i \in 1..Len(r), NEW j \in 1..Len(r), i < j, "IMAGE" \in gl[r[i]]
         PROVE  "IMAGE" \in gl[r[j]]
    <3>1. ~(i < k) /\ i # k
      <4>1. ASSUME i < k PROVE FALSE
        <5>1. i \in 1..Len(q) /\ r[i] = q[i]
          BY <2>5, <2>7, <4>1
        <5>. QED  BY <2>8, <2>10, <4>1, <5>1
      <4>2. ASSUME i = k PROVE FALSE
        <5>1. r[i] = f
          BY <2>5, <2>7, <4>2
        <5>. QED  BY <1>4, <2>10, <5>1
      <4>. QED  BY <4>1, <4>2
    <3>2. j > k /\ j - 1 >= k
      BY <2>5, <2>10, <3>1
    <3>3. j - 1 \in 1..Len(q) /\ r[j] = q[j - 1]
      BY <2>5, <2>7, <3>2
    <3>. QED  BY <2>9, <3>2, <3>3
  <2>11. r # <<>>
    BY <1>1, <2>6
  <2>. QED  BY <2>10, <2>11 DEF Sorted, r
<1>. QED  BY <1>3, <1>4

-----------------------------------------------------------------------------
(* Steps that leave the queues alone. *)

\* A loop of Checkqueues() that main still has to run stays to be run.
ChecksKept == \A c \in CallsIn(todo) : c.op \in OfQueues => c \in CallsIn(todo')

ImagesKept == \A f \in Fetches : "IMAGE" \in flags'[f] <=> "IMAGE" \in flags[f]

LEMMA DoKeeps ==
  ASSUME SlotsInv, todo # <<>>, Head(todo).op \notin OfQueues, NEW S, NEW c \in Seq(S), Do(c)
  PROVE  ChecksKept
<1>1. todo' = c \o Left /\ ~Idle
  BY DoLeft
<1>2. CallsIn(Left) \subseteq CallsIn(todo')
  BY <1>1, LeftKept
<1>3. CallsIn(todo) = {Head(todo)} \cup CallsIn(Left)
  BY <1>1, LeftFacts
<1>. QED  BY <1>2, <1>3 DEF ChecksKept

LEMMA EventKeeps ==
  ASSUME SlotsInv, Idle
  PROVE  ChecksKept
BY LeftFacts DEF ChecksKept

\* A flag that is not about images is set or cleared.
LEMMA ImageKept ==
  ASSUME SlotsInv, NEW f \in Fetches, NEW fs,
         flags' = [flags EXCEPT ![f] = fs], "IMAGE" \in fs <=> "IMAGE" \in flags[f]
  PROVE  ImagesKept
<1>1. flags \in [Fetches -> SUBSET Flags]
  BY DEF SlotsInv, TypeOK
<1>. QED  BY <1>1 DEF ImagesKept

LEMMA QueueQuiet ==
  ASSUME SlotsInv, QueueInv, ChecksKept, ImagesKept,
         UNCHANGED <<life, url, queueVars, waitrequests>>
  PROVE  QueueInv'
<1>1. /\ netqueue \in Seq(Fetches) /\ localqueue \in Seq(Fetches)
      /\ netqueue' = netqueue /\ localqueue' = localqueue
      /\ nrnet' = nrnet /\ nrlocal' = nrlocal
      /\ life' = life /\ url' = url /\ waitrequests' = waitrequests
  BY DEF SlotsInv, TypeOK, queueVars
<1>2. Sorted(netqueue, flags') /\ Sorted(localqueue, flags')
  <2>1. Sorted(netqueue, flags) /\ Sorted(localqueue, flags)
    BY DEF QueueInv
  <2>2. \A f \in Fetches : "IMAGE" \in flags'[f] <=> "IMAGE" \in flags[f]
    BY DEF ImagesKept
  <2>. QED  BY <1>1, <2>1, <2>2, SortedSame
<1>3. QueuesChecked'
  <2>1. Checks("netqueue") => Checks("netqueue")'
    BY DEF Checks, ChecksKept, OfQueues
  <2>2. Checks("localqueue") => Checks("localqueue")'
    BY DEF Checks, ChecksKept, OfQueues
  <2>. QED  BY <1>1, <2>1, <2>2 DEF QueueInv, QueuesChecked
<1>4. WaitersHaveFetch'
  BY <1>1 DEF QueueInv, WaitersHaveFetch, Waits, Live
<1>. QED  BY <1>1, <1>2, <1>3, <1>4 DEF QueueInv

LEMMA QueueForwardTerminate ==
  ASSUME SlotsInv, QueueInv, ForwardTerminate
  PROVE  QueueInv'
<1>. DEFINE d == CallF("srcupdate", F, Head(todo).tags)
            c == IF flags[F] \cap {"DISPOSED", "POSTNOGOOD"} = {} THEN <<d>> ELSE <<>>
<1>1. /\ todo # <<>> /\ Head(todo).op \notin OfQueues /\ Do(c)
      /\ UNCHANGED <<life, url, queueVars, waitrequests>> /\ flags' = flags
  BY DEF ForwardTerminate, At, OfQueues, fetchVars
<1>2. c \in Seq({d})
  <2>. HIDE DEF d
  <2>1. <<d>> \in Seq({d}) /\ <<>> \in Seq({d})
    OBVIOUS
  <2>. QED  BY <2>1
<1>. HIDE DEF c, d
<1>3. ChecksKept
  BY <1>1, <1>2, DoKeeps
<1>. QED  BY <1>1, <1>3, QueueQuiet DEF ImagesKept

LEMMA QueueEnd ==
  ASSUME SlotsInv, QueueInv, End \/ Discard \/ Resume
  PROVE  QueueInv'
<1>. DEFINE d == CallF("dispose", F, {})
            f == F
<1>1. /\ todo # <<>> /\ Head(todo).op \in {"end", "discard", "resume"}
      /\ Do(<<d>>) \/ Do(<<>>)
      /\ UNCHANGED <<life, url, queueVars, waitrequests>>
      /\ \/ flags' = [flags EXCEPT ![f] = flags[f] \ {"RUNNING"}]
         \/ flags' = [flags EXCEPT ![f] = (flags[f] \ {"INCOMPLETE"}) \cup {"DISPOSED"}]
         \/ flags' = [flags EXCEPT ![f] = flags[f] \ {"INCOMPLETE"}]
  BY DEF End, Discard, Resume, At, Without
<1>2. Head(todo).op \in OfFetch \ {"dispose"} /\ Head(todo).op \notin OfQueues
  BY <1>1 DEF OfFetch, OfQueues
<1>3. f \in Fetches
  BY <1>1, <1>2, HeadGood DEF GoodCall, F
<1>4. ChecksKept
  <2>. HIDE DEF d
  <2>1. <<d>> \in Seq({d}) /\ <<>> \in Seq({d})
    OBVIOUS
  <2>. QED  BY <1>1, <1>2, <2>1, DoKeeps
<1>. HIDE DEF f
<1>5. ImagesKept
  <2>1. CASE flags' = [flags EXCEPT ![f] = flags[f] \ {"RUNNING"}]
    BY <1>3, <2>1, ImageKept
  <2>2. CASE flags' = [flags EXCEPT ![f] = (flags[f] \ {"INCOMPLETE"}) \cup {"DISPOSED"}]
    BY <1>3, <2>2, ImageKept
  <2>3. CASE flags' = [flags EXCEPT ![f] = flags[f] \ {"INCOMPLETE"}]
    BY <1>3, <2>3, ImageKept
  <2>. QED  BY <1>1, <2>1, <2>2, <2>3
<1>. QED  BY <1>1, <1>4, <1>5, QueueQuiet

\* What a url does with an update changes no queue.
LEMMA QueueSrcupdate ==
  ASSUME SlotsInv, QueueInv,
         Promote \/ Verified \/ Moveurl \/ Srcupdatefetch \/ SrcupdateIgnored
  PROVE  QueueInv'
<1>1. At("srcupdate")
  BY DEF Promote, Verified, Moveurl, Srcupdatefetch, SrcupdateIgnored
<1>2. todo # <<>> /\ Head(todo).op \notin OfQueues /\ F \in Fetches
  BY <1>1, SrcupdateHead DEF At, OfQueues
<1>3. UNCHANGED <<life, url, queueVars, waitrequests>>
  BY DEF Promote, Verified, Moveurl, Srcupdatefetch, SrcupdateIgnored, fetchVars
<1>4. \E S : \E c \in Seq(S) : Do(c)
  <2>1. <<>> \in Seq({})
    OBVIOUS
  <2>2. CASE Promote
    <3>. DEFINE d == CallF("dispose", rfetch[url[F]], {})
                h == Head(todo)
    <3>1. Do(<<d, h>>)
      BY <2>2 DEF Promote
    <3>. HIDE DEF d, h
    <3>2. <<d, h>> \in Seq({d, h})
      OBVIOUS
    <3>. QED  BY <3>1, <3>2
  <2>3. CASE Verified
    <3>. DEFINE d == CallF("dispose", F, {})
                e == CallU("load", url[F], {"history"})
                p == IF "Error" \in Head(todo).tags THEN <<d>> ELSE <<>>
                q(fast) == IF fast THEN <<>> ELSE <<e>>
    <3>1. PICK fast \in Fastresponse : Do(p \o q(fast))
      BY <2>3 DEF Verified
    <3>. HIDE DEF d, e
    <3>2. p \in Seq({d, e}) /\ q(fast) \in Seq({d, e})
      <4>1. <<d>> \in Seq({d, e}) /\ <<e>> \in Seq({d, e}) /\ <<>> \in Seq({d, e})
        OBVIOUS
      <4>. QED  BY <4>1
    <3>. HIDE DEF p, q
    <3>3. p \o q(fast) \in Seq({d, e})
      BY <3>2
    <3>. QED  BY <3>1, <3>3
  <2>4. CASE Moveurl
    <3>1. PICK v \in Urls :
            \/ Do(<<>>)
            \/ \E how \in {{}, {"reload"}} : Do(<<CallU("load", v, how)>>)
      BY <2>4 DEF Moveurl
    <3>2. ASSUME NEW how, Do(<<CallU("load", v, how)>>)
          PROVE  \E S : \E c \in Seq(S) : Do(c)
      <4>. DEFINE e == CallU("load", v, how)
      <4>1. Do(<<e>>)
        BY <3>2
      <4>. HIDE DEF e
      <4>2. <<e>> \in Seq({e})
        OBVIOUS
      <4>. QED  BY <4>1, <4>2
    <3>. QED  BY <2>1, <3>1, <3>2
  <2>5. CASE Srcupdatefetch \/ SrcupdateIgnored
    BY <2>1, <2>5 DEF Srcupdatefetch, SrcupdateIgnored
  <2>. QED  BY <2>2, <2>3, <2>4, <2>5
<1>5. ChecksKept
  BY <1>2, <1>4, DoKeeps
<1>6. ImagesKept
  <2>1. CASE flags' = flags
    BY <2>1 DEF ImagesKept
  <2>2. CASE flags' = [flags EXCEPT ![F] = flags[F] \cup {"CANCELLED"}]
    BY <1>2, <2>2, ImageKept
  <2>. QED  BY <2>1, <2>2
       DEF Promote, Verified, Moveurl, Srcupdatefetch, SrcupdateIgnored, fetchVars, With
<1>. QED  BY <1>3, <1>5, <1>6, QueueQuiet

LEMMA QueueLoad ==
  ASSUME SlotsInv, QueueInv, Loadurl \/ Reload
  PROVE  QueueInv'
<1>1. /\ todo # <<>> /\ Head(todo).op \notin OfQueues /\ Head(todo).op \in OfUrl
      /\ UNCHANGED <<life, url, queueVars, waitrequests>> /\ flags' = flags
  BY DEF Loadurl, Reload, At, OfQueues, OfUrl, fetchVars
<1>2. \E S : \E c \in Seq(S) : Do(c)
  <2>1. CASE Loadurl
    <3>1. \/ Do(<<>>)
          \/ \E u \in Urls : \E plan \in Seq(OfUrl) : Do(CallsU(plan, u))
      <4>1. PICK u \in Finalurls(U) :
              \/ Do(<<>>)
              \/ \E history \in BOOLEAN : \E plan \in Plans(history) : Do(CallsU(plan, u))
        BY <2>1 DEF Loadurl
      <4>2. u \in Urls
        BY <4>1 DEF Finalurls, Reach
      <4>3. ASSUME NEW history, NEW plan \in Plans(history) PROVE plan \in Seq(OfUrl)
        <5>1. {"newfetch", "newrfetch", "newvfetch"} \subseteq OfUrl
          BY DEF OfUrl
        <5>. DEFINE S == OfUrl
        <5>. HIDE DEF S
        <5>2. "newfetch" \in S /\ "newrfetch" \in S /\ "newvfetch" \in S
          BY <5>1 DEF S
        <5>3. /\ <<>> \in Seq(S) /\ <<"newfetch">> \in Seq(S) /\ <<"newrfetch">> \in Seq(S)
              /\ <<"newvfetch">> \in Seq(S) /\ <<"newrfetch", "newvfetch">> \in Seq(S)
          BY <5>2
        <5>4. \/ plan = <<>> \/ plan = <<"newfetch">> \/ plan = <<"newrfetch">>
              \/ plan = <<"newvfetch">> \/ plan = <<"newrfetch", "newvfetch">>
          BY <4>3 DEF Plans
        <5>. QED  BY <5>3, <5>4 DEF S
      <4>. QED  BY <4>1, <4>2, <4>3
    <3>2. ASSUME NEW u \in Urls, NEW plan \in Seq(OfUrl)
          PROVE  CallsU(plan, u) \in Seq(Call)
      BY CallsUPlain DEF PlainCalls
    <3>3. <<>> \in Seq(Call)
      OBVIOUS
    <3>. QED  BY <3>1, <3>2, <3>3
  <2>2. CASE Reload
    <3>. DEFINE a == CallF("dispose", fetch[U], {})
                b == CallF("dispose", rfetch[U], {})
                c == CallF("dispose", vfetch[U], {})
                d == CallU("newfetch", U, {})
    <3>1. Do(<<a, b, c, d>>)
      BY <2>2 DEF Reload
    <3>. HIDE DEF a, b, c, d
    <3>2. <<a, b, c, d>> \in Seq({a, b, c, d})
      OBVIOUS
    <3>. QED  BY <3>1, <3>2
  <2>. QED  BY <2>1, <2>2
<1>3. ChecksKept
  BY <1>1, <1>2, DoKeeps
<1>. QED  BY <1>1, <1>3, QueueQuiet DEF ImagesKept

LEMMA QueueCancel ==
  ASSUME SlotsInv, QueueInv,
         \/ \E op \in OfUrl : \E pointer \in {fetch, rfetch, vfetch} : Cancelpointer(op, pointer)
         \/ \E f \in Fetches : Cancelnetstat(f)
  PROVE  QueueInv'
<1>1. UNCHANGED <<life, url, queueVars, waitrequests>>
  BY DEF Cancelpointer, Cancelnetstat
<1>2. CASE \E op \in OfUrl : \E pointer \in {fetch, rfetch, vfetch} : Cancelpointer(op, pointer)
  <2>1. PICK op \in OfUrl, pointer \in {fetch, rfetch, vfetch} : Cancelpointer(op, pointer)
    BY <1>2
  <2>2. /\ todo # <<>> /\ Head(todo).op = op /\ Head(todo).op \notin OfQueues
    BY <2>1 DEF Cancelpointer, At, OfUrl, OfQueues
  <2>3. U \in Urls
    BY <2>2, HeadGood DEF GoodCall, U
  <2>4. CASE Do(<<>>) /\ flags' = flags
    <3>1. <<>> \in Seq({})
      OBVIOUS
    <3>2. ChecksKept
      BY <2>2, <2>4, <3>1, DoKeeps
    <3>. QED  BY <1>1, <2>4, <3>2, QueueQuiet DEF ImagesKept
  <2>5. CASE pointer[U] # NoFetch /\ Cancel(pointer[U], Tail(todo))
    <3>1. PICK f \in Fetches : f = pointer[U] /\ life[f] # "new"
      BY <2>3, <2>5, PointerFacts
    <3>2. todo' = CancelCalls(f) \o Tail(todo) /\ PlainCalls(CancelCalls(f), life)
      BY <2>5, <3>1, CancelFacts
    <3>3. Do(CancelCalls(f)) /\ CancelCalls(f) \in Seq(Call)
      BY <3>2 DEF Do, PlainCalls
    <3>4. ChecksKept
      BY <2>2, <3>3, DoKeeps
    <3>5. ImagesKept
      <4>1. flags' = [flags EXCEPT ![f] = flags[f] \cup {"CANCELLED"}]
        BY <2>5, <3>1 DEF Cancel, With
      <4>. QED  BY <4>1, ImageKept
    <3>. QED  BY <1>1, <3>4, <3>5, QueueQuiet
  <2>. QED  BY <2>1, <2>4, <2>5 DEF Cancelpointer
<1>3. CASE \E f \in Fetches : Cancelnetstat(f)
  <2>1. PICK f \in Fetches : Cancelnetstat(f)
    BY <1>3
  <2>2. Idle /\ flags' = [flags EXCEPT ![f] = flags[f] \cup {"CANCELLED"}]
    BY <2>1 DEF Cancelnetstat, Cancel, With
  <2>. QED  BY <1>1, <2>2, EventKeeps, ImageKept, QueueQuiet
<1>. QED  BY <1>2, <1>3

LEMMA QueueEvent ==
  ASSUME SlotsInv, QueueInv,
         \/ \E u \in Urls : Auload(u) \/ Cancelfetch(u)
         \/ \E f \in Fetches : DriverUpdate(f)
  PROVE  QueueInv'
<1>1. UNCHANGED <<life, url, queueVars, waitrequests>> /\ Idle
  BY DEF Auload, Cancelfetch, DriverUpdate, UpdateData, UpdateError, UpdateMoved,
         UpdateNotmodified, UpdatePostnogood, Updatefetch, Event, fetchVars
<1>2. ChecksKept
  BY <1>1, EventKeeps
<1>3. ImagesKept
  <2>1. CASE flags' = flags
    BY <2>1 DEF ImagesKept
  <2>2. ASSUME NEW f \in Fetches,
               \/ flags' = [flags EXCEPT ![f] = flags[f] \cup {"NOTMODIFIED"}]
               \/ flags' = [flags EXCEPT ![f] = flags[f] \cup {"POSTNOGOOD"}]
        PROVE  ImagesKept
    BY <2>2, ImageKept
  <2>. QED  BY <2>1, <2>2
       DEF Auload, Cancelfetch, DriverUpdate, UpdateData, UpdateError, UpdateMoved,
           UpdateNotmodified, UpdatePostnogood, With, fetchVars
<1>. QED  BY <1>1, <1>2, <1>3, QueueQuiet

-----------------------------------------------------------------------------
(* Steps that change a queue. *)

\* A fetch gets a slot, or waits where it belongs because there is none.
LEMMA QueueStart ==
  ASSUME SlotsInv, QueueInv, NEW f \in Fetches, ~In(netqueue, f), ~In(localqueue, f),
         NEW fs, Startdriver(f, fs), ChecksKept
  PROVE  Sorted(netqueue, flags)' /\ Sorted(localqueue, flags)' /\ QueuesChecked'
<1>. DEFINE image == "IMAGE" \in fs
<1>1. /\ netqueue \in Seq(Fetches) /\ localqueue \in Seq(Fetches)
      /\ flags \in [Fetches -> SUBSET Flags]
      /\ nrnet \in Nat /\ nrlocal \in Nat /\ Maxconnect \in Nat /\ Maxdiskread \in Nat
      /\ Sorted(netqueue, flags) /\ Sorted(localqueue, flags) /\ QueuesChecked
  BY FetchAssumption DEF SlotsInv, TypeOK, QueueInv
<1>2. /\ Checks("netqueue") => Checks("netqueue")'
      /\ Checks("localqueue") => Checks("localqueue")'
  BY DEF Checks, ChecksKept, OfQueues
<1>3. image \in BOOLEAN
  OBVIOUS
<1>4. /\ "IMAGE" \in flags'[f] <=> image
      /\ \A g \in Fetches \ {f} : flags'[g] = flags[g]
  <2>1. \/ flags' = [flags EXCEPT ![f] = fs \cup {"QUEUED"}]
        \/ flags' = [flags EXCEPT ![f] = fs \cup {"RUNNING", "USESLOT"}]
    BY DEF Startdriver, Dostartdriver
  <2>. QED  BY <1>1, <2>1
<1>. HIDE DEF image
<1>5. /\ \A g \in Fetches : In(netqueue, g) => ("IMAGE" \in flags'[g] <=> "IMAGE" \in flags[g])
      /\ \A g \in Fetches : In(localqueue, g) => ("IMAGE" \in flags'[g] <=> "IMAGE" \in flags[g])
  BY <1>4
<1>6. Sorted(netqueue, flags') /\ Sorted(localqueue, flags')
  BY <1>1, <1>5, SortedSame
<1>7. CASE nrlocal >= Maxdiskread /\ localqueue' = Addtoqueue(localqueue, f, image)
           /\ UNCHANGED <<netqueue, nrnet, nrlocal>>
  <2>1. Sorted(Addtoqueue(localqueue, f, image), flags')
    BY <1>1, <1>3, <1>4, <1>5, SortedAdd
  <2>2. ~(nrlocal < Maxdiskread)
    BY <1>1, <1>7
  <2>. QED  BY <1>1, <1>2, <1>6, <1>7, <2>1, <2>2 DEF QueuesChecked
<1>8. CASE nrnet >= Maxconnect /\ netqueue' = Addtoqueue(netqueue, f, image)
           /\ UNCHANGED <<localqueue, nrnet, nrlocal>>
  <2>1. Sorted(Addtoqueue(netqueue, f, image), flags')
    BY <1>1, <1>3, <1>4, <1>5, SortedAdd
  <2>2. ~(nrnet < Maxconnect)
    BY <1>1, <1>8
  <2>. QED  BY <1>1, <1>2, <1>6, <1>8, <2>1, <2>2 DEF QueuesChecked
<1>9. CASE Dostartdriver(f, fs) /\ UNCHANGED <<netqueue, localqueue>>
  <2>1. /\ nrnet' \in {nrnet, nrnet + 1} /\ nrlocal' \in {nrlocal, nrlocal + 1}
    BY <1>9 DEF Dostartdriver
  <2>2. /\ nrnet' < Maxconnect => nrnet < Maxconnect
        /\ nrlocal' < Maxdiskread => nrlocal < Maxdiskread
    BY <1>1, <2>1
  <2>. QED  BY <1>1, <1>2, <1>6, <1>9, <2>2 DEF QueuesChecked
<1>. QED  BY <1>7, <1>8, <1>9 DEF Startdriver, image

\* What waits still finds what it waits for.
LEMMA WaitersSame ==
  ASSUME QueueInv, UNCHANGED <<life, url, waitrequests>>
  PROVE  WaitersHaveFetch'
BY DEF QueueInv, WaitersHaveFetch, Waits, Live

LEMMA QueueNewfetch ==
  ASSUME SlotsInv, QueueInv, NEW op \in {"newfetch", "newrfetch", "newvfetch"}, Newfetch(op)
  PROVE  QueueInv'
<1>1. /\ todo # <<>> /\ Head(todo).op \notin OfQueues
      /\ Do(<<>>) /\ waitrequests' = waitrequests
  BY DEF Newfetch, At, OfQueues
<1>2. ChecksKept
  <2>1. <<>> \in Seq({})
    OBVIOUS
  <2>. QED  BY <1>1, <2>1, DoKeeps
<1>3. CASE UNCHANGED <<fetchVars, queueVars, fetch, rfetch, vfetch>>
  BY <1>1, <1>2, <1>3, QueueQuiet DEF ImagesKept, fetchVars
<1>4. ASSUME NEW f \in Fetches, NEW fs \in NewFlags(op), life[f] = "new",
             life' = [life EXCEPT ![f] = "live"], url' = [url EXCEPT ![f] = U],
             Startdriver(f, fs \ {"none"})
      PROVE  QueueInv'
  <2>. DEFINE gs == fs \ {"none"}
  <2>1. ~In(netqueue, f) /\ ~In(localqueue, f)
    BY <1>4, NewFacts
  <2>2. Startdriver(f, gs)
    BY <1>4
  <2>. HIDE DEF gs
  <2>3. Sorted(netqueue, flags)' /\ Sorted(localqueue, flags)' /\ QueuesChecked'
    BY <1>2, <2>1, <2>2, QueueStart
  <2>4. WaitersHaveFetch'
    <3>1. /\ life \in [Fetches -> {"new", "live", "freed"}]
          /\ url \in [Fetches -> Urls \cup {NoUrl}]
      BY DEF SlotsInv, TypeOK
    <3>2. \A g \in Fetches : life[g] = "live" => life'[g] = "live" /\ url'[g] = url[g]
      BY <1>4, <3>1
    <3>. QED  BY <1>1, <3>2 DEF QueueInv, WaitersHaveFetch, Waits, Live
  <2>. QED  BY <2>3, <2>4 DEF QueueInv
<1>. QED  BY <1>3, <1>4 DEF Newfetch

LEMMA QueueRetry ==
  ASSUME SlotsInv, QueueInv, Retry
  PROVE  QueueInv'
<1>. DEFINE f == F
            fs == flags[f] \ {"RUNNING", "POSTNOGOOD", "POST"}
            s == CallF("srcupdate", f, {"Terminate"})
            d == CallF("dispose", f, {})
            q == Checkqueues
<1>1. /\ todo # <<>> /\ Head(todo).op \in {"end", "retry"} /\ Head(todo).op \notin OfQueues
      /\ \/ Startdriver(f, fs) /\ Do(<<>>)
         \/ /\ flags' = [flags EXCEPT ![f] = fs]
            /\ Do((<<s>> \o q) \o <<d>>)
            /\ UNCHANGED <<task, stop, queueVars>>
      /\ UNCHANGED <<life, url, urlVars, waitrequests>>
  BY DEF Retry, At, OfQueues
<1>2. /\ f \in Fetches /\ ~In(netqueue, f) /\ ~In(localqueue, f)
      /\ life[f] = "live"
  BY <1>1, EndsFacts
<1>3. CASE Startdriver(f, fs) /\ Do(<<>>)
  <2>. HIDE DEF f, fs
  <2>1. <<>> \in Seq({})
    OBVIOUS
  <2>2. ChecksKept
    BY <1>1, <1>3, <2>1, DoKeeps
  <2>3. Sorted(netqueue, flags)' /\ Sorted(localqueue, flags)' /\ QueuesChecked'
    BY <1>2, <1>3, <2>2, QueueStart
  <2>4. WaitersHaveFetch'
    BY <1>1, WaitersSame
  <2>. QED  BY <2>3, <2>4 DEF QueueInv
<1>4. CASE /\ flags' = [flags EXCEPT ![f] = fs]
           /\ Do((<<s>> \o q) \o <<d>>)
           /\ UNCHANGED <<task, stop, queueVars>>
  <2>1. PlainCalls(<<d>>, life) /\ PlainCalls(<<s>>, life)
    <3>1. /\ GoodCall(d, life) /\ d.op \notin LateOps
          /\ GoodCall(s, life) /\ s.op \notin LateOps
      BY <1>2, DisposePlain, FetchCallPlain, TagsIn
    <3>. HIDE DEF d, s
    <3>. QED  BY <3>1, PlainOne
  <2>2. PlainCalls(q, life)
    BY CheckqueuesPlain
  <2>3. "IMAGE" \in fs <=> "IMAGE" \in flags[f]
    OBVIOUS
  <2>. HIDE DEF s, q, d, fs, f
  <2>4. (<<s>> \o q) \o <<d>> \in Seq(Call)
    BY <2>1, <2>2 DEF PlainCalls
  <2>5. ChecksKept
    BY <1>1, <1>4, <2>4, DoKeeps
  <2>6. ImagesKept
    BY <1>2, <1>4, <2>3, ImageKept
  <2>. QED  BY <1>1, <1>4, <2>5, <2>6, QueueQuiet
<1>. QED  BY <1>1, <1>3, <1>4

LEMMA QueueIncompletereturn ==
  ASSUME SlotsInv, QueueInv, NEW f \in Fetches, Incompletereturn(f)
  PROVE  QueueInv'
<1>1. /\ Idle /\ "INCOMPLETE" \in flags[f] /\ UNCHANGED <<life, url, waitrequests>>
      /\ UNCHANGED <<flags, queueVars>> \/ Startdriver(f, flags[f])
  BY DEF Incompletereturn, Has, Event
<1>2. ChecksKept
  BY <1>1, EventKeeps
<1>3. CASE UNCHANGED <<flags, queueVars>>
  BY <1>1, <1>2, <1>3, QueueQuiet DEF ImagesKept
<1>4. CASE Startdriver(f, flags[f])
  <2>1. ~In(netqueue, f) /\ ~In(localqueue, f)
    BY <1>1, IdleFacts DEF SlotsInv, WaitsApart
  <2>. DEFINE fs == flags[f]
  <2>2. Startdriver(f, fs)
    BY <1>4
  <2>. HIDE DEF fs
  <2>3. Sorted(netqueue, flags)' /\ Sorted(localqueue, flags)' /\ QueuesChecked'
    BY <1>2, <2>1, <2>2, QueueStart
  <2>4. WaitersHaveFetch'
    BY <1>1, WaitersSame
  <2>. QED  BY <2>3, <2>4 DEF QueueInv
<1>. QED  BY <1>1, <1>3, <1>4

\* One round of a loop of Checkqueues().
LEMMA QueueNextOf ==
  ASSUME SlotsInv, QueueInv, todo # <<>>, NEW q, NEW f \in Fetches, f = Head(q), NextOf(q)
  PROVE  ImagesKept /\ \A c \in CallsIn(todo) : c \in CallsIn(todo')
<1>. DEFINE s == CallF("srcupdate", f, {"Terminate"})
            d == CallF("dispose", f, {})
            h == Head(todo)
<1>1. flags \in [Fetches -> SUBSET Flags]
  BY DEF SlotsInv, TypeOK
<1>2. CASE Dostartdriver(f, flags[f] \ {"QUEUED"}) /\ UNCHANGED todo
  <2>1. flags' = [flags EXCEPT ![f] = (flags[f] \ {"QUEUED"}) \cup {"RUNNING", "USESLOT"}]
    BY <1>2 DEF Dostartdriver
  <2>2. ImagesKept
    BY <2>1, ImageKept
  <2>. QED  BY <1>2, <2>2
<1>3. CASE flags' = Without(f, {"QUEUED"}) /\ Do(<<s, d, h>>)
  <2>1. flags' = [flags EXCEPT ![f] = flags[f] \ {"QUEUED"}]
    BY <1>3 DEF Without
  <2>2. ImagesKept
    BY <2>1, ImageKept
  <2>. HIDE DEF s, d
  <2>3. todo' = <<s, d, h>> \o Left /\ ~Idle
    BY <1>3, DoLeft
  <2>4. Left \in Seq(Call) /\ CallsIn(todo) = {h} \cup CallsIn(Left)
    BY <2>3, LeftFacts
  <2>. HIDE DEF h
  <2>5. CallsIn(<<s, d, h>> \o Left) = {s, d, h} \cup CallsIn(Left)
    BY <2>4, ConsThree
  <2>. QED  BY <2>2, <2>3, <2>4, <2>5
<1>. QED  BY <1>2, <1>3 DEF NextOf

LEMMA QueueChecknetqueue ==
  ASSUME SlotsInv, QueueInv, Checknetqueue
  PROVE  QueueInv'
<1>1. /\ todo # <<>> /\ Head(todo).op = "netqueue" /\ localqueue' = localqueue
      /\ UNCHANGED <<life, url, waitrequests>>
  BY DEF Checknetqueue, At
<1>2. /\ netqueue \in Seq(Fetches) /\ localqueue \in Seq(Fetches) /\ Distinct(netqueue)
      /\ nrnet \in Nat /\ nrlocal \in Nat /\ Maxconnect \in Nat /\ Maxdiskread \in Nat
      /\ Sorted(netqueue, flags) /\ Sorted(localqueue, flags) /\ QueuesChecked
  BY FetchAssumption DEF SlotsInv, TypeOK, QueuesApart, QueueInv
<1>3. WaitersHaveFetch'
  BY <1>1, WaitersSame
<1>4. CASE /\ ~(nrnet < Maxconnect /\ netqueue # <<>>) /\ Do(<<>>)
           /\ UNCHANGED <<flags, task, stop, nrnet, nrlocal, netqueue>>
  <2>1. \A c \in CallsIn(todo) : c.op = "localqueue" => c \in CallsIn(todo')
    <3>1. <<>> \in Seq({})
      OBVIOUS
    <3>2. todo' = <<>> \o Left /\ ~Idle
      BY <1>1, <1>4, DoLeft
    <3>3. CallsIn(Left) \subseteq CallsIn(todo')
      BY <3>1, <3>2, LeftKept
    <3>4. CallsIn(todo) = {Head(todo)} \cup CallsIn(Left)
      BY <3>2, LeftFacts
    <3>. QED  BY <1>1, <3>3, <3>4
  <2>2. Checks("localqueue") => Checks("localqueue")'
    BY <2>1 DEF Checks
  <2>. QED  BY <1>1, <1>2, <1>3, <1>4, <2>2 DEF QueueInv, QueuesChecked
<1>5. CASE nrnet < Maxconnect /\ netqueue # <<>> /\ NextOf(netqueue) /\ netqueue' = Tail(netqueue)
  <2>. DEFINE f == Head(netqueue)
              q == netqueue
  <2>1. f \in Fetches /\ Shorter(netqueue, netqueue')
    BY <1>2, <1>5, TailOfQueue
  <2>2. f = Head(q) /\ NextOf(q)
    BY <1>5
  <2>. HIDE DEF f, q
  <2>3. ImagesKept /\ \A c \in CallsIn(todo) : c \in CallsIn(todo')
    BY <1>1, <2>1, <2>2, QueueNextOf
  <2>4. \A g \in Fetches : "IMAGE" \in flags'[g] <=> "IMAGE" \in flags[g]
    BY <2>3 DEF ImagesKept
  <2>5. Sorted(Tail(netqueue), flags) /\ Tail(netqueue) \in Seq(Fetches)
    BY <1>2, <1>5, SortedTail
  <2>6. Sorted(Tail(netqueue), flags') /\ Sorted(localqueue, flags')
    BY <1>2, <2>4, <2>5, SortedSame
  <2>7. Checks("netqueue")'
    <3>1. Head(todo) \in CallsIn(todo)
      BY <1>1, LeftFacts DEF Idle
    <3>. QED  BY <1>1, <2>3, <3>1 DEF Checks
  <2>8. Checks("localqueue") => Checks("localqueue")'
    BY <2>3 DEF Checks
  <2>9. nrlocal' \in {nrlocal, nrlocal + 1}
    BY <1>5 DEF NextOf, Dostartdriver
  <2>10. nrlocal' < Maxdiskread => nrlocal < Maxdiskread
    BY <1>2, <2>9
  <2>. QED  BY <1>1, <1>2, <1>3, <1>5, <2>6, <2>7, <2>8, <2>10 DEF QueueInv, QueuesChecked
<1>. QED  BY <1>4, <1>5 DEF Checknetqueue

LEMMA QueueChecklocalqueue ==
  ASSUME SlotsInv, QueueInv, Checklocalqueue
  PROVE  QueueInv'
<1>1. /\ todo # <<>> /\ Head(todo).op = "localqueue" /\ netqueue' = netqueue
      /\ UNCHANGED <<life, url, waitrequests>>
  BY DEF Checklocalqueue, At
<1>2. /\ netqueue \in Seq(Fetches) /\ localqueue \in Seq(Fetches) /\ Distinct(localqueue)
      /\ nrnet \in Nat /\ nrlocal \in Nat /\ Maxconnect \in Nat /\ Maxdiskread \in Nat
      /\ Sorted(netqueue, flags) /\ Sorted(localqueue, flags) /\ QueuesChecked
  BY FetchAssumption DEF SlotsInv, TypeOK, QueuesApart, QueueInv
<1>3. WaitersHaveFetch'
  BY <1>1, WaitersSame
<1>4. CASE /\ ~(nrlocal < Maxdiskread /\ localqueue # <<>>) /\ Do(<<>>)
           /\ UNCHANGED <<flags, task, stop, nrnet, nrlocal, localqueue>>
  <2>1. \A c \in CallsIn(todo) : c.op = "netqueue" => c \in CallsIn(todo')
    <3>1. <<>> \in Seq({})
      OBVIOUS
    <3>2. todo' = <<>> \o Left /\ ~Idle
      BY <1>1, <1>4, DoLeft
    <3>3. CallsIn(Left) \subseteq CallsIn(todo')
      BY <3>1, <3>2, LeftKept
    <3>4. CallsIn(todo) = {Head(todo)} \cup CallsIn(Left)
      BY <3>2, LeftFacts
    <3>. QED  BY <1>1, <3>3, <3>4
  <2>2. Checks("netqueue") => Checks("netqueue")'
    BY <2>1 DEF Checks
  <2>. QED  BY <1>1, <1>2, <1>3, <1>4, <2>2 DEF QueueInv, QueuesChecked
<1>5. CASE /\ nrlocal < Maxdiskread /\ localqueue # <<>> /\ NextOf(localqueue)
           /\ localqueue' = Tail(localqueue)
  <2>. DEFINE f == Head(localqueue)
              q == localqueue
  <2>1. f \in Fetches /\ Shorter(localqueue, localqueue')
    BY <1>2, <1>5, TailOfQueue
  <2>2. f = Head(q) /\ NextOf(q)
    BY <1>5
  <2>. HIDE DEF f, q
  <2>3. ImagesKept /\ \A c \in CallsIn(todo) : c \in CallsIn(todo')
    BY <1>1, <2>1, <2>2, QueueNextOf
  <2>4. \A g \in Fetches : "IMAGE" \in flags'[g] <=> "IMAGE" \in flags[g]
    BY <2>3 DEF ImagesKept
  <2>5. Sorted(Tail(localqueue), flags) /\ Tail(localqueue) \in Seq(Fetches)
    BY <1>2, <1>5, SortedTail
  <2>6. Sorted(Tail(localqueue), flags') /\ Sorted(netqueue, flags')
    BY <1>2, <2>4, <2>5, SortedSame
  <2>7. Checks("localqueue")'
    <3>1. Head(todo) \in CallsIn(todo)
      BY <1>1, LeftFacts DEF Idle
    <3>. QED  BY <1>1, <2>3, <3>1 DEF Checks
  <2>8. Checks("netqueue") => Checks("netqueue")'
    BY <2>3 DEF Checks
  <2>9. nrnet' \in {nrnet, nrnet + 1}
    BY <1>5 DEF NextOf, Dostartdriver
  <2>10. nrnet' < Maxconnect => nrnet < Maxconnect
    BY <1>2, <2>9
  <2>. QED  BY <1>1, <1>2, <1>3, <1>5, <2>6, <2>7, <2>8, <2>10 DEF QueueInv, QueuesChecked
<1>. QED  BY <1>4, <1>5 DEF Checklocalqueue

\* A fetch that is freed leaves the queues and those that wait for it.
LEMMA QueueDisposefetch ==
  ASSUME SlotsInv, QueueInv, Disposefetch
  PROVE  QueueInv'
<1>1. /\ todo # <<>> /\ Head(todo).op \notin OfQueues /\ Do(<<>>)
      /\ url' = url /\ nrnet' = nrnet /\ nrlocal' = nrlocal
  BY DEF Disposefetch, At, OfQueues
<1>2. ChecksKept
  <2>1. <<>> \in Seq({})
    OBVIOUS
  <2>. QED  BY <1>1, <2>1, DoKeeps
<1>3. F \in Fetches \cup {NoFetch}
  BY <1>1, HeadGood DEF F
<1>4. CASE UNCHANGED <<life, flags, stop, netqueue, localqueue, waitrequests>>
  BY <1>1, <1>2, <1>4, QueueQuiet DEF ImagesKept, queueVars
<1>5. CASE /\ F # NoFetch /\ flags' = With(F, {"DISPOSED"})
           /\ UNCHANGED <<life, netqueue, localqueue, waitrequests>>
  <2>. DEFINE f == F
  <2>1. f \in Fetches /\ flags' = [flags EXCEPT ![f] = flags[f] \cup {"DISPOSED"}]
    BY <1>3, <1>5 DEF With
  <2>. HIDE DEF f
  <2>2. ImagesKept
    BY <2>1, ImageKept
  <2>. QED  BY <1>1, <1>2, <1>5, <2>2, QueueQuiet DEF queueVars
<1>6. CASE F # NoFetch /\ Free(F)
  <2>. DEFINE f == F
  <2>1. /\ f \in Fetches
        /\ life' = [life EXCEPT ![f] = "freed"] /\ flags' = [flags EXCEPT ![f] = {}]
        /\ netqueue' = Unlink(netqueue, f) /\ localqueue' = Unlink(localqueue, f)
        /\ waitrequests' = {w \in waitrequests : Waits(w, Live \ {f})}
    BY <1>3, <1>6 DEF Free, Checkwaitrequests
  <2>. HIDE DEF f
  <2>2. /\ life \in [Fetches -> {"new", "live", "freed"}]
        /\ flags \in [Fetches -> SUBSET Flags]
        /\ netqueue \in Seq(Fetches) /\ localqueue \in Seq(Fetches)
        /\ Distinct(netqueue) /\ Distinct(localqueue)
        /\ Sorted(netqueue, flags) /\ Sorted(localqueue, flags) /\ QueuesChecked
    BY DEF SlotsInv, TypeOK, QueuesApart, QueueInv
  <2>3. \A g \in Fetches \ {f} : flags'[g] = flags[g]
    BY <2>1, <2>2
  <2>4. /\ Shorter(netqueue, Unlink(netqueue, f)) /\ ~In(Unlink(netqueue, f), f)
        /\ Shorter(localqueue, Unlink(localqueue, f)) /\ ~In(Unlink(localqueue, f), f)
    BY <2>1, <2>2, UnlinkFacts
  <2>5. Sorted(Unlink(netqueue, f), flags')
    <3>1. Sorted(Unlink(netqueue, f), flags) /\ Unlink(netqueue, f) \in Seq(Fetches)
      BY <2>2, <2>4, SortedUnlink DEF Shorter
    <3>2. \A g \in Fetches : In(Unlink(netqueue, f), g) =>
            ("IMAGE" \in flags'[g] <=> "IMAGE" \in flags[g])
      BY <2>3, <2>4
    <3>. QED  BY <3>1, <3>2, SortedSame
  <2>6. Sorted(Unlink(localqueue, f), flags')
    <3>1. Sorted(Unlink(localqueue, f), flags) /\ Unlink(localqueue, f) \in Seq(Fetches)
      BY <2>2, <2>4, SortedUnlink DEF Shorter
    <3>2. \A g \in Fetches : In(Unlink(localqueue, f), g) =>
            ("IMAGE" \in flags'[g] <=> "IMAGE" \in flags[g])
      BY <2>3, <2>4
    <3>. QED  BY <3>1, <3>2, SortedSame
  <2>7. QueuesChecked'
    <3>1. Unlink(<<>>, f) = <<>>
      <4>1. Len(<<>>) = 0 /\ 1..0 = {}
        OBVIOUS
      <4>. QED  BY <4>1 DEF Unlink, Places
    <3>2. (netqueue' # <<>> => netqueue # <<>>) /\ (localqueue' # <<>> => localqueue # <<>>)
      BY <2>1, <3>1
    <3>3. /\ Checks("netqueue") => Checks("netqueue")'
          /\ Checks("localqueue") => Checks("localqueue")'
      BY <1>2 DEF Checks, ChecksKept, OfQueues
    <3>. QED  BY <1>1, <2>2, <3>2, <3>3 DEF QueuesChecked
  <2>8. WaitersHaveFetch'
    <3>1. \A g \in Fetches : life'[g] = "live" <=> g # f /\ life[g] = "live"
      BY <2>1, <2>2
    <3>2. ASSUME NEW w \in waitrequests' PROVE Waits(w, Live)'
      <4>1. PICK g \in Live \ {f} : w = NoUrl \/ url[g] = w
        BY <2>1, <3>2 DEF Waits
      <4>. QED  BY <1>1, <3>1, <4>1 DEF Waits, Live
    <3>. QED  BY <3>2 DEF WaitersHaveFetch
  <2>. QED  BY <2>1, <2>5, <2>6, <2>7, <2>8 DEF QueueInv
<1>. QED  BY <1>4, <1>5, <1>6 DEF Disposefetch

\* Updatefetch() looks at both queues when a driver has returned.
LEMMA QueueUpdateTerminate ==
  ASSUME SlotsInv, QueueInv, NEW f \in Fetches, UpdateTerminate(f)
  PROVE  QueueInv'
<1>. DEFINE n == CallF("netqueue", NoFetch, {})
            l == CallF("localqueue", NoFetch, {})
            q == Checkqueues
<1>1. UNCHANGED <<life, url, waitrequests, netqueue, localqueue>>
  BY DEF UpdateTerminate
<1>2. /\ netqueue \in Seq(Fetches) /\ localqueue \in Seq(Fetches)
      /\ flags \in [Fetches -> SUBSET Flags]
      /\ Sorted(netqueue, flags) /\ Sorted(localqueue, flags)
  BY DEF SlotsInv, TypeOK, QueueInv
<1>3. \E fs : flags' = [flags EXCEPT ![f] = fs] /\ ("IMAGE" \in fs <=> "IMAGE" \in flags[f])
  BY DEF UpdateTerminate, Release
<1>4. \A g \in Fetches : "IMAGE" \in flags'[g] <=> "IMAGE" \in flags[g]
  BY <1>2, <1>3
<1>5. Sorted(netqueue, flags') /\ Sorted(localqueue, flags')
  BY <1>2, <1>4, SortedSame
<1>6. n.op = "netqueue" /\ l.op = "localqueue"
  BY DEF CallF
<1>7. q = <<n, l>>
  BY DEF Checkqueues
<1>8. \E S : \E r \in Seq(S) : todo' = q \o r
  <2>1. \/ todo' = q \o <<CallF("retry", f, {})>>
        \/ todo' = q
        \/ \E error \in {{}, {"Error"}} :
              todo' = q \o <<CallF("forward", f, {"Terminate"} \cup error), CallF("end", f, {})>>
    <3>. HIDE DEF q
    <3>. QED  BY DEF UpdateTerminate, Event, q
  <2>2. ASSUME NEW a PROVE \E S : <<a>> \in Seq(S)
    <3>1. <<a>> \in Seq({a})
      OBVIOUS
    <3>. QED  BY <3>1
  <2>3. ASSUME NEW a, NEW b PROVE \E S : <<a, b>> \in Seq(S)
    <3>1. <<a, b>> \in Seq({a, b})
      OBVIOUS
    <3>. QED  BY <3>1
  <2>4. q = q \o <<>> /\ <<>> \in Seq({})
    BY <1>7
  <2>. HIDE DEF q, n, l
  <2>. QED  BY <2>1, <2>2, <2>3, <2>4
<1>. HIDE DEF n, l, q
<1>9. PICK S : \E r \in Seq(S) : todo' = <<n, l>> \o r
  BY <1>7, <1>8
<1>10. n \in CallsIn(todo') /\ l \in CallsIn(todo')
  <2>1. PICK r \in Seq(S) : todo' = <<n, l>> \o r
    BY <1>9
  <2>. QED  BY <2>1, ConsTwo
<1>11. Checks("netqueue")' /\ Checks("localqueue")'
  BY <1>6, <1>10 DEF Checks
<1>12. WaitersHaveFetch'
  BY <1>1, WaitersSame
<1>. QED  BY <1>1, <1>5, <1>11, <1>12 DEF QueueInv, QueuesChecked

\* A WAIT command waits only for a fetch there is.
LEMMA QueueAddwaitrequest ==
  ASSUME SlotsInv, QueueInv, NEW w, Addwaitrequest(w)
  PROVE  QueueInv'
<1>1. /\ waitrequests' = waitrequests \cup (IF Waits(w, Live) THEN {w} ELSE {})
      /\ todo' = todo /\ flags' = flags /\ life' = life /\ url' = url /\ UNCHANGED queueVars
  BY DEF Addwaitrequest, fetchVars
<1>2. WaitersHaveFetch'
  BY <1>1 DEF QueueInv, WaitersHaveFetch, Waits, Live
<1>. QED  BY <1>1, <1>2 DEF QueueInv, QueuesChecked, Checks, queueVars

LEMMA QueueInit ==
  ASSUME Init
  PROVE  QueueInv
<1>1. netqueue = <<>> /\ localqueue = <<>> /\ waitrequests = {}
  BY DEF Init
<1>2. Len(<<>>) = 0 /\ 1..0 = {}
  OBVIOUS
<1>. QED  BY <1>1, <1>2 DEF QueueInv, Sorted, QueuesChecked, WaitersHaveFetch

LEMMA QueueStutter ==
  ASSUME QueueInv, UNCHANGED vars
  PROVE  QueueInv'
BY DEF QueueInv, QueuesChecked, Checks, WaitersHaveFetch, Waits, Live,
       vars, fetchVars, queueVars, urlVars

LEMMA QueueNext ==
  ASSUME SlotsInv, QueueInv, Next
  PROVE  QueueInv'
<1>1. ASSUME MainStep PROVE QueueInv'
  <2>1. CASE Newfetch("newfetch") \/ Newfetch("newrfetch") \/ Newfetch("newvfetch")
    BY <2>1, QueueNewfetch
  <2>2. CASE Checknetqueue \/ Checklocalqueue
    BY <2>2, QueueChecknetqueue, QueueChecklocalqueue
  <2>3. CASE Disposefetch \/ ForwardTerminate \/ Retry
    BY <2>3, QueueDisposefetch, QueueForwardTerminate, QueueRetry
  <2>4. CASE End \/ Discard \/ Resume
    BY <2>4, QueueEnd
  <2>5. CASE Promote \/ Verified \/ Moveurl \/ Srcupdatefetch \/ SrcupdateIgnored
    BY <2>5, QueueSrcupdate
  <2>6. CASE Loadurl \/ Reload
    BY <2>6, QueueLoad
  <2>7. CASE \/ Cancelpointer("cancelfetch", fetch) \/ Cancelpointer("cancelrfetch", rfetch)
             \/ Cancelpointer("cancelvfetch", vfetch)
    <3>1. {"cancelfetch", "cancelrfetch", "cancelvfetch"} \subseteq OfUrl
      BY DEF OfUrl
    <3>. QED  BY <2>7, <3>1, QueueCancel
  <2>. QED
    BY <1>1, <2>1, <2>2, <2>3, <2>4, <2>5, <2>6, <2>7 DEF MainStep
<1>2. ASSUME User PROVE QueueInv'
  <2>1. ASSUME NEW u \in Urls, Auload(u) \/ Cancelfetch(u) PROVE QueueInv'
    BY <2>1, QueueEvent
  <2>2. ASSUME NEW f \in Fetches, Cancelnetstat(f) \/ Incompletereturn(f) PROVE QueueInv'
    BY <2>2, QueueCancel, QueueIncompletereturn
  <2>3. ASSUME NEW w \in Urls \cup {NoUrl}, Addwaitrequest(w) PROVE QueueInv'
    BY <2>3, QueueAddwaitrequest
  <2>. QED  BY <1>2, <2>1, <2>2, <2>3 DEF User
<1>3. ASSUME NEW f \in Fetches, DriverUpdate(f) \/ UpdateTerminate(f) PROVE QueueInv'
  BY <1>3, QueueEvent, QueueUpdateTerminate
<1>. QED  BY <1>1, <1>2, <1>3 DEF Next

-----------------------------------------------------------------------------
(* The theorems about the queues. *)

\* The queues stay in order, a free slot is always offered to them before the
\* next event, and every WAIT command has a fetch to wait for.
THEOREM QueueInvariant == Spec => [](SlotsInv /\ QueueInv)
<1>1. Init => SlotsInv /\ QueueInv
  BY SlotsInit, QueueInit
<1>2. SlotsInv /\ QueueInv /\ [Next]_vars => (SlotsInv /\ QueueInv)'
  BY SlotsNext, SlotsStutter, QueueNext, QueueStutter
<1>. QED  BY <1>1, <1>2, PTL DEF Spec

\* Checkqueues() is called wherever a slot comes free or a queue grows while
\* there is one: between two events no fetch waits for a slot that is free.
THEOREM QueuedOnlyWithoutSlot == Spec => []QueuedNeedsSlot
<1>1. SlotsInv /\ QueueInv => QueuedNeedsSlot
  <2>. SUFFICES ASSUME SlotsInv, QueueInv, Idle PROVE
         (netqueue # <<>> => nrnet >= Maxconnect) /\ (localqueue # <<>> => nrlocal >= Maxdiskread)
    BY DEF QueuedNeedsSlot
  <2>1. CallsIn(todo) = {}
    BY LeftFacts
  <2>2. ~Checks("netqueue") /\ ~Checks("localqueue")
    BY <2>1 DEF Checks
  <2>3. nrnet \in Nat /\ nrlocal \in Nat /\ Maxconnect \in Nat /\ Maxdiskread \in Nat
    BY FetchAssumption DEF SlotsInv, TypeOK
  <2>. QED  BY <2>2, <2>3 DEF QueueInv, QueuesChecked
<1>. QED  BY <1>1, QueueInvariant, PTL

\* Addtoqueue() and everything that takes a fetch out of a queue keep what is
\* not an image before the images.
THEOREM DocumentsStayFirst == Spec => []DocumentsFirst
<1>1. SlotsInv /\ QueueInv => DocumentsFirst
  BY DEF QueueInv, Sorted, DocumentsFirst, Has
<1>. QED  BY <1>1, QueueInvariant, PTL

\* Checkwaitrequests() answers every WAIT command when the last fetch it waits
\* for is freed: none waits for ever.
THEOREM NoWaitInVain == Spec => []WaitersHaveFetch
<1>1. SlotsInv /\ QueueInv => WaitersHaveFetch
  BY DEF QueueInv
<1>. QED  BY <1>1, QueueInvariant, PTL
-----------------------------------------------------------------------------
(* The pointers of the urls: main never uses a fetch that is freed, a fetch that *)
(* is not disposed of is known to its url by one pointer, and between two events  *)
(* it is in one of its states.  The three rest on the order in which the handlers *)
(* of an event call each other: UrlInv says which calls may follow which, that a  *)
(* url is told of the end of a fetch before the fetch is disposed of, and what is *)
(* true of a fetch while calls about it are left.                                 *)

(* The order in which main makes its calls. *)

CancelOps == {"cancelfetch", "cancelrfetch", "cancelvfetch"}

NewOps == {"newfetch", "newrfetch", "newvfetch"}

\* What a fetch tells its url in the end, and the calls that follow it.
Ending == {{"Terminate"}, {"Error", "Terminate"}}

Disposal == {"dispose", "end", "discard"}

Tells(a) == a.op \in {"srcupdate", "forward"} /\ a.tags \in Ending

\* Two calls about the same fetch, the first one and a later one.
MayFollow(a, b) ==
  \/ a.op = "srcupdate" /\ a.tags = {"Terminate"} /\ b.op = "dispose"
  \/ a.op = "srcupdate" /\ a.tags \in Ending /\ b.op \in {"end", "discard"}
  \/ a.op = "srcupdate" /\ a.tags = {"Reload"} /\ b.op = "resume"
  \/ a.op = "forward" /\ b.op = "end"
  \/ a.op = "dispose" /\ b.op \in {"end", "discard"}

\* A call that no other call follows.
Solo(a) ==
  \/ a.op = "srcupdate" /\ a.tags \in {{"Data"}, {"Moved"}}
  \/ a.op = "load" /\ a.tags = {"reload"}

\* Any two calls, the first one and a later one.
InOrder(a, b) ==
  /\ a.f = b.f /\ a.f \in Fetches => MayFollow(a, b)
  /\ ~Solo(a) /\ a.op \notin LateOps
  /\ a.op \in CancelOps => b.op \in CancelOps
  /\ b.op \in {"newfetch", "newrfetch"} => a.op = "dispose"
  /\ b.op = "newvfetch" => a.op = "newrfetch"

\* What the calls are about, and what the updates may say.
KnownCall(a) ==
  /\ a.op \in OfUrl \cup OfQueues => a.f = NoFetch
  /\ a.op = "srcupdate" => a.tags \in Ending \cup {{"Data"}, {"Error"}, {"Moved"}, {"Reload"}}
  /\ a.op = "forward" => a.tags \in Ending

Orderly(q) ==
  /\ \A a, b \in CallsIn(q) : Before(q, a, b) => InOrder(a, b)
  /\ \A a \in CallsIn(q) : KnownCall(a)
  /\ \A a \in CallsIn(q) : Tells(a) =>
       \E b \in CallsIn(q) : Before(q, a, b) /\ b.f = a.f /\ b.op \in Disposal

\* The call a may be made before those of the set C.
Precedes(a, C) ==
  /\ \A b \in C : InOrder(a, b)
  /\ KnownCall(a)
  /\ Tells(a) => \E b \in C : b.f = a.f /\ b.op \in Disposal

LEMMA OrderlyNone == Orderly(<<>>)
BY CallsNone DEF Orderly

LEMMA OrderlyCons ==
  ASSUME NEW S, NEW q \in Seq(S), Orderly(q), NEW a, Precedes(a, CallsIn(q))
  PROVE  Orderly(<<a>> \o q)
<1>1. /\ CallsIn(<<a>> \o q) = {a} \cup CallsIn(q)
      /\ \A x, y : Before(<<a>> \o q, x, y) <=>
           (x = a /\ y \in CallsIn(q)) \/ Before(q, x, y)
  BY ConsCalls
<1>. DEFINE r == <<a>> \o q
<1>. HIDE DEF r
<1>2. ASSUME NEW x \in CallsIn(r), NEW y \in CallsIn(r), Before(r, x, y)
      PROVE  InOrder(x, y)
  <2>1. CASE x = a /\ y \in CallsIn(q)
    BY <2>1 DEF Precedes
  <2>2. CASE Before(q, x, y)
    BY <2>2, BeforeIn DEF Orderly
  <2>. QED  BY <1>1, <1>2, <2>1, <2>2 DEF r
<1>3. ASSUME NEW x \in CallsIn(r) PROVE KnownCall(x)
  BY <1>1, <1>3 DEF r, Precedes, Orderly
<1>4. ASSUME NEW x \in CallsIn(r), Tells(x)
      PROVE  \E y \in CallsIn(r) : Before(r, x, y) /\ y.f = x.f /\ y.op \in Disposal
  <2>1. CASE x = a
    <3>1. PICK y \in CallsIn(q) : y.f = a.f /\ y.op \in Disposal
      BY <1>4, <2>1 DEF Precedes
    <3>. QED  BY <1>1, <2>1, <3>1 DEF r
  <2>2. CASE x \in CallsIn(q)
    <3>1. PICK y \in CallsIn(q) : Before(q, x, y) /\ y.f = x.f /\ y.op \in Disposal
      BY <1>4, <2>2 DEF Orderly
    <3>. QED  BY <1>1, <3>1 DEF r
  <2>. QED  BY <1>1, <2>1, <2>2 DEF r
<1>. QED  BY <1>2, <1>3, <1>4 DEF Orderly, r

\* Without its first call a sequence is in order, and the first one precedes
\* the others.
LEMMA OrderlyHead ==
  ASSUME SlotsInv, Orderly(todo), ~Idle
  PROVE  Orderly(Left) /\ Precedes(Head(todo), CallsIn(Left))
<1>1. PICK h : h = Head(todo)
  OBVIOUS
<1>2. /\ CallsIn(todo) = {h} \cup CallsIn(Left)
      /\ \A x, y : Before(todo, x, y) <=>
           (x = h /\ y \in CallsIn(Left)) \/ Before(Left, x, y)
      /\ \A x, y : Before(Left, x, y) => x \in CallsIn(Left) /\ y \in CallsIn(Left)
  BY <1>1, LeftFacts
<1>3. GoodCall(h, life)
  BY <1>1, HeadGood DEF Idle
<1>4. ASSUME Tells(h) PROVE h \notin CallsIn(Left)
  <2>1. h.f \in Fetches
    BY <1>3, <1>4 DEF Tells, GoodCall, OfFetch
  <2>2. ~MayFollow(h, h)
    BY <1>4 DEF Tells, MayFollow
  <2>. QED  BY <1>2, <2>1, <2>2 DEF Orderly, InOrder
<1>5. Precedes(h, CallsIn(Left))
  <2>1. \A b \in CallsIn(Left) : InOrder(h, b)
    BY <1>2 DEF Orderly
  <2>2. KnownCall(h)
    BY <1>2 DEF Orderly
  <2>3. ASSUME Tells(h) PROVE \E b \in CallsIn(Left) : b.f = h.f /\ b.op \in Disposal
    <3>1. PICK b \in CallsIn(todo) : Before(todo, h, b) /\ b.f = h.f /\ b.op \in Disposal
      BY <1>2, <2>3 DEF Orderly
    <3>. QED  BY <1>2, <3>1
  <2>. QED  BY <2>1, <2>2, <2>3 DEF Precedes
<1>6. ASSUME NEW a \in CallsIn(Left), Tells(a)
      PROVE  \E b \in CallsIn(Left) : Before(Left, a, b) /\ b.f = a.f /\ b.op \in Disposal
  <2>1. a # h
    BY <1>4, <1>6
  <2>2. PICK b \in CallsIn(todo) : Before(todo, a, b) /\ b.f = a.f /\ b.op \in Disposal
    BY <1>2, <1>6 DEF Orderly
  <2>. QED  BY <1>2, <2>1, <2>2
<1>7. Orderly(Left)
  BY <1>2, <1>6 DEF Orderly
<1>. QED  BY <1>1, <1>5, <1>7

\* When main is idle nothing is left either.
LEMMA OrderlyLeft ==
  ASSUME SlotsInv, Orderly(todo)
  PROVE  Orderly(Left)
<1>1. CASE Idle
  BY <1>1, OrderlyNone DEF Left
<1>. QED  BY <1>1, OrderlyHead

\* The calls main still makes are those of N and the ones that were left.
Adds(N) ==
  /\ CallsIn(todo') = N \cup CallsIn(Left)
  /\ \A x, y : Before(Left, x, y) => Before(todo', x, y)

LEMMA AddNone ==
  ASSUME SlotsInv, Orderly(todo), todo' = <<>> \o Left
  PROVE  Adds({}) /\ Orderly(todo') /\ todo' = Left
<1>1. todo' = Left
  <2>1. Left \in Seq(Call)
    BY LeftFacts
  <2>. DEFINE S == Call
  <2>. HIDE DEF S
  <2>2. Left \in Seq(S)
    BY <2>1 DEF S
  <2>. QED  BY <2>2
<1>. QED  BY <1>1, OrderlyLeft DEF Adds

LEMMA AddOne ==
  ASSUME SlotsInv, Orderly(todo), NEW a, todo' = <<a>> \o Left, Precedes(a, CallsIn(Left))
  PROVE  /\ Adds({a}) /\ Orderly(todo')
         /\ \A y \in CallsIn(Left) : Before(todo', a, y)
<1>1. Left \in Seq(Call) /\ Orderly(Left)
  BY LeftFacts, OrderlyLeft
<1>2. /\ CallsIn(todo') = {a} \cup CallsIn(Left)
      /\ \A x, y : Before(todo', x, y) <=>
           (x = a /\ y \in CallsIn(Left)) \/ Before(Left, x, y)
  BY <1>1, ConsCalls
<1>3. Orderly(todo')
  BY <1>1, OrderlyCons
<1>. QED  BY <1>2, <1>3 DEF Adds

LEMMA ConsSeq ==
  ASSUME NEW S, NEW q \in Seq(S), NEW a
  PROVE  \E T : <<a>> \o q \in Seq(T)
<1>. DEFINE T == S \cup {a}
<1>1. q \in Seq(T) /\ <<a>> \in Seq(T)
  <2>1. S \subseteq T
    OBVIOUS
  <2>. QED  BY <2>1, SeqOfMore
<1>. HIDE DEF T
<1>2. <<a>> \o q \in Seq(T)
  BY <1>1
<1>. QED  BY <1>2

LEMMA ChainTwo ==
  ASSUME NEW S, NEW q \in Seq(S), NEW a, NEW b
  PROVE  <<a, b>> \o q = <<a>> \o (<<b>> \o q)
<1>. DEFINE T == S \cup {a, b}
            r == <<b>> \o q
            x == <<a, b>> \o q
            y == <<a>> \o r
<1>1. q \in Seq(T) /\ <<a>> \in Seq(T) /\ <<b>> \in Seq(T) /\ <<a, b>> \in Seq(T)
  <2>1. S \subseteq T
    OBVIOUS
  <2>. QED  BY <2>1, SeqOfMore
<1>. HIDE DEF T
<1>2. Len(<<a>>) = 1 /\ Len(<<b>>) = 1 /\ Len(<<a, b>>) = 2 /\ Len(q) \in Nat
  BY <1>1
<1>3. /\ r \in Seq(T) /\ Len(r) = 1 + Len(q) /\ r[1] = b
      /\ \A i \in 2..(1 + Len(q)) : r[i] = q[i - 1]
  BY <1>1, <1>2
<1>. HIDE DEF r
<1>4. /\ y \in Seq(T) /\ Len(y) = 2 + Len(q) /\ y[1] = a
      /\ \A i \in 2..(2 + Len(q)) : y[i] = r[i - 1]
  BY <1>1, <1>2, <1>3
<1>5. /\ x \in Seq(T) /\ Len(x) = 2 + Len(q) /\ x[1] = a /\ x[2] = b
      /\ \A i \in 3..(2 + Len(q)) : x[i] = q[i - 2]
  BY <1>1, <1>2
<1>. HIDE DEF x, y
<1>6. ASSUME NEW i \in 1..(2 + Len(q)) PROVE x[i] = y[i]
  <2>1. CASE i = 1
    BY <2>1, <1>4, <1>5
  <2>2. CASE i = 2
    BY <2>2, <1>2, <1>3, <1>4, <1>5
  <2>3. CASE i \in 3..(2 + Len(q))
    <3>1. i - 1 \in 2..(1 + Len(q)) /\ (i - 1) - 1 = i - 2 /\ i \in 2..(2 + Len(q))
      BY <2>3, <1>2
    <3>. QED  BY <2>3, <3>1, <1>3, <1>4, <1>5
  <2>. QED  BY <1>2, <2>1, <2>2, <2>3
<1>7. Len(x) = Len(y) /\ \A i \in 1..Len(x) : x[i] = y[i]
  BY <1>4, <1>5, <1>6
<1>8. x = y
  BY <1>4, <1>5, <1>7, SeqEqual
<1>. QED  BY <1>8 DEF x, y, r

LEMMA ChainThree ==
  ASSUME NEW S, NEW q \in Seq(S), NEW a, NEW b, NEW c
  PROVE  <<a, b, c>> \o q = <<a>> \o (<<b, c>> \o q)
<1>. DEFINE T == S \cup {a, b, c}
<1>1. q \in Seq(T) /\ <<a>> \in Seq(T) /\ <<b, c>> \in Seq(T)
  <2>1. S \subseteq T
    OBVIOUS
  <2>. QED  BY <2>1, SeqOfMore
<1>. HIDE DEF T
<1>. QED  BY <1>1

LEMMA ChainFour ==
  ASSUME NEW S, NEW q \in Seq(S), NEW a, NEW b, NEW c, NEW d
  PROVE  <<a, b, c, d>> \o q = <<a>> \o (<<b, c, d>> \o q)
<1>. DEFINE T == S \cup {a, b, c, d}
<1>1. q \in Seq(T) /\ <<a>> \in Seq(T) /\ <<b, c, d>> \in Seq(T)
  <2>1. S \subseteq T
    OBVIOUS
  <2>. QED  BY <2>1, SeqOfMore
<1>. HIDE DEF T
<1>. QED  BY <1>1

LEMMA AddTwo ==
  ASSUME SlotsInv, Orderly(todo), NEW a, NEW b, todo' = <<a, b>> \o Left,
         Precedes(b, CallsIn(Left)), Precedes(a, {b} \cup CallsIn(Left))
  PROVE  /\ Adds({a, b}) /\ Orderly(todo') /\ Before(todo', a, b)
         /\ \A x \in {a, b} : \A y \in CallsIn(Left) : Before(todo', x, y)
<1>1. Left \in Seq(Call) /\ Orderly(Left)
  BY LeftFacts, OrderlyLeft
<1>2. /\ CallsIn(todo') = {a, b} \cup CallsIn(Left)
      /\ \A x, y : Before(todo', x, y) <=>
              \/ x = a /\ y = b
              \/ x \in {a, b} /\ y \in CallsIn(Left)
              \/ Before(Left, x, y)
  BY <1>1, ConsTwo
<1>3. Orderly(todo')
  <2>. DEFINE r == <<b>> \o Left
  <2>1. Orderly(r) /\ CallsIn(r) = {b} \cup CallsIn(Left)
    BY <1>1, OrderlyCons, ConsCalls
  <2>2. PICK T : r \in Seq(T)
    BY <1>1, ConsSeq
  <2>3. todo' = <<a>> \o r
    BY <1>1, ChainTwo
  <2>. HIDE DEF r
  <2>. QED  BY <2>1, <2>2, <2>3, OrderlyCons
<1>. QED  BY <1>2, <1>3 DEF Adds

LEMMA AddThree ==
  ASSUME SlotsInv, Orderly(todo), NEW a, NEW b, NEW c, todo' = <<a, b, c>> \o Left,
         Precedes(c, CallsIn(Left)), Precedes(b, {c} \cup CallsIn(Left)),
         Precedes(a, {b, c} \cup CallsIn(Left))
  PROVE  /\ Adds({a, b, c}) /\ Orderly(todo')
         /\ Before(todo', a, b) /\ Before(todo', a, c) /\ Before(todo', b, c)
<1>1. Left \in Seq(Call) /\ Orderly(Left)
  BY LeftFacts, OrderlyLeft
<1>2. /\ CallsIn(todo') = {a, b, c} \cup CallsIn(Left)
      /\ \A x, y : Before(todo', x, y) <=>
              \/ x = a /\ y \in {b, c}
              \/ x = b /\ y = c
              \/ x \in {a, b, c} /\ y \in CallsIn(Left)
              \/ Before(Left, x, y)
  BY <1>1, ConsThree
<1>3. Orderly(todo')
  <2>. DEFINE r == <<c>> \o Left
              s == <<b>> \o r
  <2>1. Orderly(r) /\ CallsIn(r) = {c} \cup CallsIn(Left)
    BY <1>1, OrderlyCons, ConsCalls
  <2>2. PICK T : r \in Seq(T)
    BY <1>1, ConsSeq
  <2>3. todo' = <<a>> \o s
    <3>1. <<b, c>> \o Left = s
      BY <1>1, ChainTwo
    <3>2. <<a, b, c>> \o Left = <<a>> \o (<<b, c>> \o Left)
      BY <1>1, ChainThree
    <3>. QED  BY <3>1, <3>2
  <2>. HIDE DEF r
  <2>4. Orderly(s) /\ CallsIn(s) = {b} \cup CallsIn(r)
    BY <2>1, <2>2, OrderlyCons, ConsCalls
  <2>5. PICK V : s \in Seq(V)
    BY <2>2, ConsSeq
  <2>6. CallsIn(s) = {b, c} \cup CallsIn(Left)
    BY <2>1, <2>4
  <2>. HIDE DEF s
  <2>. QED  BY <2>3, <2>4, <2>5, <2>6, OrderlyCons
<1>. QED  BY <1>2, <1>3 DEF Adds

LEMMA AddFour ==
  ASSUME SlotsInv, Orderly(todo), NEW a, NEW b, NEW c, NEW d,
         todo' = <<a, b, c, d>> \o Left,
         Precedes(d, CallsIn(Left)), Precedes(c, {d} \cup CallsIn(Left)),
         Precedes(b, {c, d} \cup CallsIn(Left)), Precedes(a, {b, c, d} \cup CallsIn(Left))
  PROVE  /\ Adds({a, b, c, d}) /\ Orderly(todo')
         /\ Before(todo', a, d) /\ Before(todo', c, d)
<1>1. Left \in Seq(Call) /\ Orderly(Left)
  BY LeftFacts, OrderlyLeft
<1>2. /\ CallsIn(todo') = {a, b, c, d} \cup CallsIn(Left)
      /\ \A x, y : Before(todo', x, y) <=>
              \/ x = a /\ y \in {b, c, d}
              \/ x = b /\ y \in {c, d}
              \/ x = c /\ y = d
              \/ x \in {a, b, c, d} /\ y \in CallsIn(Left)
              \/ Before(Left, x, y)
  BY <1>1, ConsFour
<1>3. Orderly(todo')
  <2>. DEFINE r == <<d>> \o Left
              s == <<c>> \o r
              t == <<b>> \o s
  <2>1. Orderly(r) /\ CallsIn(r) = {d} \cup CallsIn(Left)
    BY <1>1, OrderlyCons, ConsCalls
  <2>2. PICK T : r \in Seq(T)
    BY <1>1, ConsSeq
  <2>3. todo' = <<a>> \o t
    <3>1. <<c, d>> \o Left = s
      BY <1>1, ChainTwo, SMTT(30)
    <3>2. <<b, c, d>> \o Left = <<b>> \o (<<c, d>> \o Left)
      BY <1>1, ChainThree, SMTT(30)
    <3>3. <<a, b, c, d>> \o Left = <<a>> \o (<<b, c, d>> \o Left)
      BY <1>1, ChainFour, SMTT(30)
    <3>. QED  BY <3>1, <3>2, <3>3
  <2>. HIDE DEF r
  <2>4. Orderly(s) /\ CallsIn(s) = {c, d} \cup CallsIn(Left)
    <3>1. Precedes(c, CallsIn(r))
      BY <2>1
    <3>2. Orderly(s) /\ CallsIn(s) = {c} \cup CallsIn(r)
      BY <2>1, <2>2, <3>1, OrderlyCons, ConsCalls
    <3>. QED  BY <2>1, <3>2
  <2>5. PICK V : s \in Seq(V)
    BY <2>2, ConsSeq
  <2>. HIDE DEF s
  <2>6. Orderly(t) /\ CallsIn(t) = {b, c, d} \cup CallsIn(Left)
    <3>1. Precedes(b, CallsIn(s))
      BY <2>4
    <3>2. Orderly(t) /\ CallsIn(t) = {b} \cup CallsIn(s)
      BY <2>4, <2>5, <3>1, OrderlyCons, ConsCalls
    <3>. QED  BY <2>4, <3>2
  <2>7. PICK W : t \in Seq(W)
    BY <2>5, ConsSeq
  <2>. HIDE DEF t
  <2>8. Precedes(a, CallsIn(t))
    BY <2>6
  <2>. QED  BY <2>3, <2>6, <2>7, <2>8, OrderlyCons
<1>. QED  BY <1>2, <1>3 DEF Adds

-----------------------------------------------------------------------------
(* The fetches, the calls about them and the pointers of the urls. *)

Knows(u, f) == f \in {fetch[u], rfetch[u], vfetch[u]}

Unknown(f) == \A u \in Urls : ~Knows(u, f)

\* A url knows a fetch of its own that is not disposed of, by one pointer;
\* beside a new load there is neither a reload nor a verification.
PointersApart ==
  \A u \in Urls :
    /\ \A f \in Fetches : Knows(u, f) =>
         life[f] = "live" /\ url[f] = u /\ "DISPOSED" \notin flags[f]
    /\ fetch[u] # NoFetch => rfetch[u] = NoFetch /\ vfetch[u] = NoFetch
    /\ rfetch[u] # NoFetch => rfetch[u] # vfetch[u]

\* A pointer that will get a new fetch has none.
NewCalls ==
  \A c \in CallsIn(todo) :
    /\ c.op \in {"newfetch", "newrfetch"} => ~Loading(c.u)
    /\ c.op = "newvfetch" => fetch[c.u] = NoFetch /\ vfetch[c.u] = NoFetch

\* A fetch that main has still to do with is there, and in the state in which
\* it was when the call was made.
CallsFit(f) ==
  \A c \in CallsIn(todo) : c.f = f =>
    /\ life[f] = "live"
    /\ c.op \in {"discard", "resume"} => "INCOMPLETE" \in flags[f]
    /\ c.op = "resume" => "RUNNING" \in flags[f] \/ "QUEUED" \in flags[f]
    /\ c.op = "forward" => "POSTNOGOOD" \notin flags[f]

\* Checkqueues() does not find it in a queue.
OutOfQueues(f) ==
  \A a, c \in CallsIn(todo) : a.op \in OfQueues /\ c.f = f =>
    ~In(netqueue, f) /\ ~In(localqueue, f)

\* Its url has forgotten it before it is disposed of.
Forgotten(f) ==
  \A b \in CallsIn(todo) : b.op \in Disposal /\ b.f = f =>
    \/ Unknown(f)
    \/ \E a \in CallsIn(todo) : Before(todo, a, b) /\ a.f = f /\ Tells(a)

\* Its url forgets it only when it is disposed of.
Remembered(f) ==
  life[f] = "live" =>
    \/ "DISPOSED" \in flags[f] \/ ~Unknown(f)
    \/ \E b \in CallsIn(todo) : b.f = f /\ b.op \in Disposal

\* It has a driver, a place in a queue, an open requester, or an end.
Stated(f) ==
  /\ "QUEUED" \in flags[f] <=> In(netqueue, f) \/ In(localqueue, f)
  /\ "RUNNING" \in flags[f] =>
       task[f] \/ \E b \in CallsIn(todo) : b.f = f /\ b.op \in {"end", "retry"}
  /\ life[f] = "live" =>
       \/ flags[f] \cap {"RUNNING", "QUEUED", "INCOMPLETE"} # {}
       \/ \E b \in CallsIn(todo) : b.f = f /\ b.op = "dispose"

FetchOk(f) == CallsFit(f) /\ OutOfQueues(f) /\ Forgotten(f) /\ Remembered(f) /\ Stated(f)

UrlInv ==
  /\ Orderly(todo) /\ PointersApart /\ NewCalls
  /\ \A f \in Fetches : FetchOk(f)

-----------------------------------------------------------------------------
(* What a step leaves alone. *)

SameState(f) ==
  /\ life'[f] = life[f] /\ task'[f] = task[f]
  /\ \A x \in {"RUNNING", "QUEUED", "INCOMPLETE", "DISPOSED", "POSTNOGOOD"} :
       x \in flags'[f] <=> x \in flags[f]
  /\ In(netqueue', f) <=> In(netqueue, f)
  /\ In(localqueue', f) <=> In(localqueue, f)

SamePointers(f) == \A u \in Urls : Knows(u, f)' <=> Knows(u, f)

SameCalls(f) ==
  /\ \A c : c.f = f => (c \in CallsIn(todo') <=> c \in CallsIn(todo))
  /\ \A a, b : a.f = f /\ b.f = f /\ Before(todo, a, b) => Before(todo', a, b)
  /\ \A a, c \in CallsIn(todo') : a.op \in OfQueues /\ c.f = f =>
       \E b \in CallsIn(todo) : b.op \in OfQueues

LEMMA FetchSame ==
  ASSUME NEW f \in Fetches, FetchOk(f), SameState(f), SamePointers(f), SameCalls(f)
  PROVE  FetchOk(f)'
<1>1. /\ life'[f] = life[f] /\ task'[f] = task[f]
      /\ "RUNNING" \in flags'[f] <=> "RUNNING" \in flags[f]
      /\ "QUEUED" \in flags'[f] <=> "QUEUED" \in flags[f]
      /\ "INCOMPLETE" \in flags'[f] <=> "INCOMPLETE" \in flags[f]
      /\ "DISPOSED" \in flags'[f] <=> "DISPOSED" \in flags[f]
      /\ "POSTNOGOOD" \in flags'[f] <=> "POSTNOGOOD" \in flags[f]
      /\ In(netqueue', f) <=> In(netqueue, f)
      /\ In(localqueue', f) <=> In(localqueue, f)
  BY DEF SameState
<1>2. Unknown(f)' <=> Unknown(f)
  BY DEF SamePointers, Unknown
<1>3. \A c : c.f = f => (c \in CallsIn(todo') <=> c \in CallsIn(todo))
  BY DEF SameCalls
<1>4. CallsFit(f)'
  BY <1>1, <1>3 DEF FetchOk, CallsFit
<1>5. OutOfQueues(f)'
  <2>. SUFFICES ASSUME NEW a \in CallsIn(todo'), NEW c \in CallsIn(todo'),
                       a.op \in OfQueues, c.f = f
                PROVE  ~In(netqueue', f) /\ ~In(localqueue', f)
    BY DEF OutOfQueues
  <2>1. PICK b \in CallsIn(todo) : b.op \in OfQueues
    BY DEF SameCalls
  <2>2. c \in CallsIn(todo)
    BY <1>3
  <2>. QED  BY <1>1, <2>1, <2>2 DEF FetchOk, OutOfQueues
<1>6. Forgotten(f)'
  <2>. SUFFICES ASSUME NEW b \in CallsIn(todo'), b.op \in Disposal, b.f = f, ~Unknown(f)'
                PROVE  \E a \in CallsIn(todo') : Before(todo', a, b) /\ a.f = f /\ Tells(a)
    BY DEF Forgotten
  <2>1. b \in CallsIn(todo)
    BY <1>3
  <2>2. PICK a \in CallsIn(todo) : Before(todo, a, b) /\ a.f = f /\ Tells(a)
    BY <1>2, <2>1 DEF FetchOk, Forgotten
  <2>3. a \in CallsIn(todo') /\ Before(todo', a, b)
    BY <1>3, <2>2 DEF SameCalls
  <2>. QED  BY <2>2, <2>3
<1>7. Remembered(f)'
  BY <1>1, <1>2, <1>3 DEF FetchOk, Remembered
<1>8. Stated(f)'
  BY <1>1, <1>3 DEF FetchOk, Stated
<1>. QED  BY <1>4, <1>5, <1>6, <1>7, <1>8 DEF FetchOk

\* A step whose calls are about the fetches of the set T.
LEMMA OthersSame ==
  ASSUME SlotsInv, NEW T, NEW N, Adds(N),
         Idle \/ Head(todo).f \notin Fetches \ T,
         \A c \in N : c.f \notin Fetches \ T,
         \A c \in N : c.op \in OfQueues => c \in CallsIn(todo) \/ CallsIn(Left) = {}
  PROVE  \A g \in Fetches \ T : SameCalls(g)
<1>. SUFFICES ASSUME NEW g \in Fetches \ T PROVE SameCalls(g)
  OBVIOUS
<1>1. PICK h : h = Head(todo)
  OBVIOUS
<1>2. ASSUME NEW c, c.f = g PROVE c \in CallsIn(todo) <=> c \in CallsIn(Left)
  <2>1. CASE Idle
    BY <2>1, LeftFacts
  <2>2. CASE ~Idle
    <3>1. c # h
      BY <1>1, <1>2, <2>2
    <3>. QED  BY <1>1, <2>2, <3>1, LeftFacts
  <2>. QED  BY <2>1, <2>2
<1>3. ASSUME NEW c, c.f = g PROVE c \in CallsIn(todo') <=> c \in CallsIn(todo)
  BY <1>2, <1>3 DEF Adds
<1>4. ASSUME NEW a, NEW b, a.f = g, b.f = g, Before(todo, a, b) PROVE Before(todo', a, b)
  <2>1. ~Idle /\ a # h
    BY <1>1, <1>4, LeftFacts
  <2>2. Before(Left, a, b)
    BY <1>1, <1>4, <2>1, LeftFacts
  <2>. QED  BY <2>2 DEF Adds
<1>5. ASSUME NEW a \in CallsIn(todo'), NEW c \in CallsIn(todo'), a.op \in OfQueues, c.f = g
      PROVE  \E b \in CallsIn(todo) : b.op \in OfQueues
  <2>1. c \in CallsIn(Left) /\ c \notin N
    BY <1>2, <1>3, <1>5
  <2>2. a \in CallsIn(todo)
    BY <1>5, <2>1, LeftFacts DEF Adds
  <2>. QED  BY <1>5, <2>2
<1>. QED  BY <1>3, <1>4, <1>5 DEF SameCalls

\* Pointers that are cleared or stay, to fetches that stay as they are.
LEMMA PointersFewer ==
  ASSUME SlotsInv, PointersApart,
         \A u \in Urls : /\ fetch'[u] \in {fetch[u], NoFetch}
                         /\ rfetch'[u] \in {rfetch[u], NoFetch}
                         /\ vfetch'[u] \in {vfetch[u], NoFetch},
         \A u \in Urls : \A f \in Fetches : Knows(u, f)' =>
           life'[f] = life[f] /\ url'[f] = url[f]
           /\ ("DISPOSED" \in flags'[f] <=> "DISPOSED" \in flags[f])
  PROVE  PointersApart'
<1>. SUFFICES ASSUME NEW u \in Urls
              PROVE  /\ \A f \in Fetches : Knows(u, f)' =>
                          life'[f] = "live" /\ url'[f] = u /\ "DISPOSED" \notin flags'[f]
                     /\ fetch'[u] # NoFetch => rfetch'[u] = NoFetch /\ vfetch'[u] = NoFetch
                     /\ rfetch'[u] # NoFetch => rfetch'[u] # vfetch'[u]
  BY DEF PointersApart
<1>1. /\ fetch'[u] \in {fetch[u], NoFetch} /\ rfetch'[u] \in {rfetch[u], NoFetch}
      /\ vfetch'[u] \in {vfetch[u], NoFetch}
  OBVIOUS
<1>2. ASSUME NEW f \in Fetches, Knows(u, f)'
      PROVE  life'[f] = "live" /\ url'[f] = u /\ "DISPOSED" \notin flags'[f]
  <2>1. Knows(u, f)
    BY <1>1, <1>2, FetchAssumption DEF Knows
  <2>. QED  BY <1>2, <2>1 DEF PointersApart
<1>. QED  BY <1>1, <1>2 DEF PointersApart

LEMMA NewCallsFewer ==
  ASSUME SlotsInv, NewCalls,
         \A u \in Urls : /\ fetch'[u] \in {fetch[u], NoFetch}
                         /\ rfetch'[u] \in {rfetch[u], NoFetch}
                         /\ vfetch'[u] \in {vfetch[u], NoFetch},
         \A c \in CallsIn(todo') : c.op \in NewOps => c \in CallsIn(todo)
  PROVE  NewCalls'
<1>. SUFFICES ASSUME NEW c \in CallsIn(todo'), c.op \in NewOps
              PROVE  /\ c.op \in {"newfetch", "newrfetch"} =>
                          {fetch'[c.u], rfetch'[c.u], vfetch'[c.u]} = {NoFetch}
                     /\ c.op = "newvfetch" => fetch'[c.u] = NoFetch /\ vfetch'[c.u] = NoFetch
  BY DEF NewCalls, NewOps, Loading
<1>1. c \in CallsIn(todo)
  OBVIOUS
<1>2. c.u \in Urls
  BY <1>1 DEF SlotsInv, Known, GoodCalls, GoodCall, CallsIn, OfUrl, NewOps
<1>3. /\ c.op \in {"newfetch", "newrfetch"} => {fetch[c.u], rfetch[c.u], vfetch[c.u]} = {NoFetch}
      /\ c.op = "newvfetch" => fetch[c.u] = NoFetch /\ vfetch[c.u] = NoFetch
  BY <1>1 DEF NewCalls, Loading
<1>4. /\ fetch'[c.u] \in {fetch[c.u], NoFetch} /\ rfetch'[c.u] \in {rfetch[c.u], NoFetch}
      /\ vfetch'[c.u] \in {vfetch[c.u], NoFetch}
  BY <1>2
<1>. QED  BY <1>3, <1>4

\* The call main makes now, and those that are left.
LEMMA UrlHead ==
  ASSUME SlotsInv, UrlInv, todo # <<>>
  PROVE  /\ ~Idle /\ Orderly(todo)
         /\ Precedes(Head(todo), CallsIn(Left)) /\ KnownCall(Head(todo))
         /\ \A b \in CallsIn(Left) : InOrder(Head(todo), b)
         /\ CallsIn(todo) = {Head(todo)} \cup CallsIn(Left)
         /\ \A x, y : Before(todo, x, y) <=>
              (x = Head(todo) /\ y \in CallsIn(Left)) \/ Before(Left, x, y)
         /\ \A x, y : Before(Left, x, y) => x \in CallsIn(Left) /\ y \in CallsIn(Left)
         /\ GoodCall(Head(todo), life)
<1>1. ~Idle /\ Orderly(todo)
  BY DEF Idle, UrlInv
<1>2. Precedes(Head(todo), CallsIn(Left))
  BY <1>1, OrderlyHead
<1>3. GoodCall(Head(todo), life)
  BY HeadGood
<1>. QED  BY <1>1, <1>2, <1>3, LeftFacts DEF Precedes

\* Nothing is left when main is idle.
LEMMA UrlIdle ==
  ASSUME SlotsInv, UrlInv, Idle
  PROVE  /\ Orderly(todo) /\ CallsIn(todo) = {} /\ CallsIn(Left) = {}
         /\ \A x, y : ~Before(todo, x, y)
BY LeftFacts DEF UrlInv

LEMMA OthersOk ==
  ASSUME SlotsInv, UrlInv, NEW T, NEW N, Adds(N),
         Idle \/ Head(todo).f \notin Fetches \ T,
         \A c \in N : c.f \notin Fetches \ T,
         \A c \in N : c.op \in OfQueues => c \in CallsIn(todo) \/ CallsIn(Left) = {},
         \A g \in Fetches \ T : SameState(g) /\ SamePointers(g)
  PROVE  \A g \in Fetches \ T : FetchOk(g)'
<1>1. \A g \in Fetches \ T : SameCalls(g)
  BY OthersSame
<1>2. ASSUME NEW g \in Fetches \ T PROVE FetchOk(g)'
  <2>1. g \in Fetches /\ SameCalls(g) /\ SameState(g) /\ SamePointers(g) /\ FetchOk(g)
    BY <1>1 DEF UrlInv
  <2>. QED  BY <2>1, FetchSame
<1>. QED  BY <1>2

LEMMA StateKept ==
  ASSUME UNCHANGED <<life, task, netqueue, localqueue>>,
         NEW f \in Fetches,
         \A x \in {"RUNNING", "QUEUED", "INCOMPLETE", "DISPOSED", "POSTNOGOOD"} :
           x \in flags'[f] <=> x \in flags[f]
  PROVE  SameState(f)
BY DEF SameState

LEMMA PointersKept ==
  ASSUME UNCHANGED <<fetch, rfetch, vfetch>>
  PROVE  \A f : SamePointers(f)
BY DEF SamePointers, Knows

\* A step that changes neither a fetch nor a pointer.
LEMMA KeptInv ==
  ASSUME SlotsInv, UrlInv, UNCHANGED <<life, url, fetch, rfetch, vfetch>>,
         \A f \in Fetches : "DISPOSED" \in flags'[f] <=> "DISPOSED" \in flags[f]
  PROVE  PointersApart'
BY PointersFewer DEF UrlInv

\* A step whose calls are about no fetch.
LEMMA NoneTouched ==
  ASSUME SlotsInv, UrlInv, UNCHANGED <<life, url, task, netqueue, localqueue, fetch, rfetch, vfetch>>,
         \A f \in Fetches :
           \A x \in {"RUNNING", "QUEUED", "INCOMPLETE", "DISPOSED", "POSTNOGOOD"} :
             x \in flags'[f] <=> x \in flags[f],
         NEW N, Adds(N), Orderly(todo'), NewCalls',
         Idle \/ Head(todo).f \notin Fetches,
         \A c \in N : c.f \notin Fetches /\ c.op \notin OfQueues
  PROVE  UrlInv'
<1>1. PointersApart'
  BY KeptInv
<1>2. \A f \in Fetches : SameState(f) /\ SamePointers(f)
  BY StateKept, PointersKept
<1>3. \A f \in Fetches \ {} : FetchOk(f)'
  BY <1>2, OthersOk
<1>. QED  BY <1>1, <1>3 DEF UrlInv

\* The pointers and the fetches stay, and so do the calls for new fetches.
LEMMA NewCallsKept ==
  ASSUME SlotsInv, UrlInv, UNCHANGED <<fetch, rfetch, vfetch>>,
         \A c \in CallsIn(todo') : c.op \in NewOps => c \in CallsIn(todo)
  PROVE  NewCalls'
BY NewCallsFewer DEF UrlInv

\* An update of the fetch f, which comes to its url or is passed on to it.
LEMMA UpdateHandled ==
  ASSUME SlotsInv, UrlInv, todo # <<>>, Head(todo).op \in {"srcupdate", "forward"},
         NEW f \in Fetches, Head(todo).f = f, NEW N, Adds(N), SameState(f),
         Unknown(f) => Unknown(f)',
         Unknown(f)' => Unknown(f) \/ \E b \in CallsIn(todo') : b.f = f /\ b.op \in Disposal,
         \A c \in N : c.op \notin OfQueues,
         \A c \in N : c.f = f => c.op \in {"srcupdate", "dispose"},
         \A c \in N : c.f = f /\ c.op \in Disposal => Unknown(f)',
         Tells(Head(todo)) =>
           \/ Unknown(f)'
           \/ \E a \in N : a.f = f /\ Tells(a) /\ \A b \in CallsIn(Left) : Before(todo', a, b)
  PROVE  FetchOk(f)'
<1>1. PICK h : h = Head(todo)
  OBVIOUS
<1>2. /\ CallsIn(todo) = {h} \cup CallsIn(Left)
      /\ \A x, y : Before(todo, x, y) <=>
           (x = h /\ y \in CallsIn(Left)) \/ Before(Left, x, y)
      /\ \A x, y : Before(Left, x, y) => x \in CallsIn(Left)
      /\ h.op \in {"srcupdate", "forward"} /\ h.f = f
  BY <1>1, UrlHead
<1>3. /\ CallsIn(todo') = N \cup CallsIn(Left)
      /\ \A x, y : Before(Left, x, y) => Before(todo', x, y)
  BY DEF Adds
<1>4. FetchOk(f)
  BY DEF UrlInv
<1>5. /\ life'[f] = life[f] /\ task'[f] = task[f]
      /\ "RUNNING" \in flags'[f] <=> "RUNNING" \in flags[f]
      /\ "QUEUED" \in flags'[f] <=> "QUEUED" \in flags[f]
      /\ "INCOMPLETE" \in flags'[f] <=> "INCOMPLETE" \in flags[f]
      /\ "DISPOSED" \in flags'[f] <=> "DISPOSED" \in flags[f]
      /\ "POSTNOGOOD" \in flags'[f] <=> "POSTNOGOOD" \in flags[f]
      /\ In(netqueue', f) <=> In(netqueue, f)
      /\ In(localqueue', f) <=> In(localqueue, f)
  BY DEF SameState
<1>6. CallsFit(f)'
  <2>1. life[f] = "live"
    BY <1>2, <1>4 DEF FetchOk, CallsFit
  <2>2. ASSUME NEW c \in CallsIn(todo'), c.f = f
        PROVE  /\ c.op \in {"discard", "resume"} => "INCOMPLETE" \in flags[f]
               /\ c.op = "resume" => "RUNNING" \in flags[f] \/ "QUEUED" \in flags[f]
               /\ c.op = "forward" => "POSTNOGOOD" \notin flags[f]
    <3>1. CASE c \in N
      BY <2>2, <3>1
    <3>2. CASE c \in CallsIn(todo)
      BY <1>4, <2>2, <3>2 DEF FetchOk, CallsFit
    <3>. QED  BY <1>2, <1>3, <3>1, <3>2
  <2>. QED  BY <1>5, <2>1, <2>2 DEF CallsFit
<1>7. OutOfQueues(f)'
  <2>. SUFFICES ASSUME NEW a \in CallsIn(todo'), a.op \in OfQueues
                PROVE  ~In(netqueue', f) /\ ~In(localqueue', f)
    BY DEF OutOfQueues
  <2>1. a \in CallsIn(todo) /\ h \in CallsIn(todo)
    BY <1>2, <1>3
  <2>. QED  BY <1>2, <1>4, <1>5, <2>1 DEF FetchOk, OutOfQueues
<1>8. Forgotten(f)'
  <2>. SUFFICES ASSUME NEW b \in CallsIn(todo'), b.op \in Disposal, b.f = f, ~Unknown(f)'
                PROVE  \E a \in CallsIn(todo') : Before(todo', a, b) /\ a.f = f /\ Tells(a)
    BY DEF Forgotten
  <2>1. b \in CallsIn(Left) /\ b \in CallsIn(todo)
    BY <1>2, <1>3
  <2>2. PICK a \in CallsIn(todo) : Before(todo, a, b) /\ a.f = f /\ Tells(a)
    BY <1>4, <2>1 DEF FetchOk, Forgotten
  <2>3. CASE a = h
    BY <1>1, <1>3, <2>1, <2>2, <2>3
  <2>4. CASE a # h
    BY <1>2, <1>3, <2>2, <2>4
  <2>. QED  BY <2>3, <2>4
<1>9. \A b \in CallsIn(todo) : b.op \in Disposal \cup {"retry"} => b \in CallsIn(todo')
  BY <1>2, <1>3 DEF Disposal
<1>10. Remembered(f)'
  <2>1. CASE Unknown(f)' /\ ~Unknown(f)
    BY <2>1 DEF Remembered
  <2>2. CASE ~Unknown(f)' \/ Unknown(f)
    BY <1>4, <1>5, <1>9, <2>2 DEF FetchOk, Remembered
  <2>. QED  BY <2>1, <2>2
<1>11. Stated(f)'
  <2>1. \A b \in CallsIn(todo) : b.op \in {"dispose", "end", "retry"} => b \in CallsIn(todo')
    BY <1>9 DEF Disposal
  <2>. QED  BY <1>4, <1>5, <2>1 DEF FetchOk, Stated
<1>. QED  BY <1>6, <1>7, <1>8, <1>10, <1>11 DEF FetchOk

-----------------------------------------------------------------------------
(* The calls of main: updates. *)

LEMMA CallFields ==
  /\ \A op, f, tags : /\ CallF(op, f, tags).op = op /\ CallF(op, f, tags).f = f
                      /\ CallF(op, f, tags).tags = tags
  /\ \A op, u, tags : /\ CallU(op, u, tags).op = op /\ CallU(op, u, tags).f = NoFetch
                      /\ CallU(op, u, tags).tags = tags /\ CallU(op, u, tags).u = u
BY DEF CallF, CallU

\* The updates differ from each other.
LEMMA TagsApart ==
  /\ {"Data"} \notin Ending /\ {"Moved"} \notin Ending /\ {"Error"} \notin Ending
  /\ {"Reload"} \notin Ending /\ {"Terminate"} \in Ending /\ {"Error", "Terminate"} \in Ending
  /\ {"Reload"} \notin {{"Data"}, {"Moved"}} /\ {"Error"} \notin {{"Data"}, {"Moved"}}
  /\ \A tags \in Ending : "Terminate" \in tags /\ "Data" \notin tags /\ "Moved" \notin tags
  /\ {"Error"} # {"Terminate"} /\ {"Error"} # {"Reload"}
BY DEF Ending

LEMMA UrlForwardTerminate ==
  ASSUME SlotsInv, UrlInv, ForwardTerminate
  PROVE  UrlInv'
<1>1. PICK h : h = Head(todo)
  OBVIOUS
<1>2. /\ todo # <<>> /\ h.op = "forward"
      /\ UNCHANGED <<life, flags, url, task, netqueue, localqueue, fetch, rfetch, vfetch>>
  BY <1>1 DEF ForwardTerminate, At, fetchVars, queueVars, urlVars
<1>3. /\ Orderly(todo) /\ Precedes(h, CallsIn(Left)) /\ KnownCall(h)
      /\ \A b \in CallsIn(Left) : InOrder(h, b)
      /\ h \in CallsIn(todo) /\ GoodCall(h, life) /\ ~Idle
      /\ CallsIn(Left) \subseteq CallsIn(todo)
  BY <1>1, <1>2, UrlHead
<1>4. PICK f \in Fetches : f = h.f
  BY <1>2, <1>3 DEF GoodCall, OfFetch
<1>5. h.tags \in Ending /\ Tells(h)
  BY <1>2, <1>3 DEF KnownCall, Tells
<1>6. \A g \in Fetches : SameState(g) /\ SamePointers(g)
  BY <1>2, StateKept, PointersKept
<1>7. Unknown(f)' <=> Unknown(f)
  BY <1>2 DEF Unknown, Knows
<1>8. PointersApart'
  BY <1>2, KeptInv
<1>9. CASE flags[f] \cap {"DISPOSED", "POSTNOGOOD"} = {}
  <2>. DEFINE s == CallF("srcupdate", f, h.tags)
  <2>1. Do(<<s>>)
    BY <1>1, <1>4, <1>9 DEF ForwardTerminate, F
  <2>2. s.op = "srcupdate" /\ s.f = f /\ s.tags = h.tags
    BY CallFields
  <2>. HIDE DEF s
  <2>3. todo' = <<s>> \o Left
    BY <1>2, <2>1, DoLeft
  <2>4. Tells(s)
    BY <1>5, <2>2 DEF Tells
  <2>5. ASSUME NEW b \in CallsIn(Left) PROVE InOrder(s, b)
    <3>1. InOrder(h, b)
      BY <1>3
    <3>2. ~Solo(s)
      BY <1>5, <2>2, TagsApart DEF Solo
    <3>3. s.op \notin LateOps /\ s.op \notin CancelOps
      BY <2>2 DEF LateOps, CancelOps
    <3>4. s.f = b.f => MayFollow(s, b)
      BY <1>2, <1>4, <1>5, <2>2, <3>1 DEF InOrder, MayFollow
    <3>. QED  BY <1>2, <3>1, <3>2, <3>3, <3>4 DEF InOrder
  <2>6. Precedes(s, CallsIn(Left))
    <3>1. KnownCall(s)
      BY <1>5, <2>2 DEF KnownCall, OfUrl, OfQueues
    <3>2. \E b \in CallsIn(Left) : b.f = s.f /\ b.op \in Disposal
      BY <1>3, <1>4, <1>5, <2>2 DEF Precedes
    <3>. QED  BY <2>5, <3>1, <3>2 DEF Precedes
  <2>7. /\ Adds({s}) /\ Orderly(todo')
        /\ \A y \in CallsIn(Left) : Before(todo', s, y)
    BY <1>3, <2>3, <2>6, AddOne
  <2>8. \A c \in CallsIn(todo') : c = s \/ c \in CallsIn(todo)
    BY <1>3, <2>7 DEF Adds
  <2>9. NewCalls'
    BY <1>2, <2>2, <2>8, NewCallsKept DEF NewOps
  <2>10. \A g \in Fetches \ {f} : FetchOk(g)'
    BY <1>1, <1>4, <1>6, <2>2, <2>7, OthersOk DEF OfQueues
  <2>11. FetchOk(f)'
    BY <1>1, <1>2, <1>4, <1>6, <1>7, <2>2, <2>4, <2>7, UpdateHandled DEF OfQueues, Disposal
  <2>. QED  BY <1>8, <2>7, <2>9, <2>10, <2>11 DEF UrlInv
<1>10. CASE flags[f] \cap {"DISPOSED", "POSTNOGOOD"} # {}
  <2>1. todo' = <<>> \o Left
    BY <1>1, <1>2, <1>4, <1>10, DoLeft DEF ForwardTerminate, F
  <2>2. Adds({}) /\ Orderly(todo')
    BY <1>3, <2>1, AddNone
  <2>3. NewCalls'
    BY <1>2, <1>3, <2>2, NewCallsKept DEF Adds
  <2>4. "POSTNOGOOD" \notin flags[f]
    BY <1>2, <1>3, <1>4 DEF UrlInv, FetchOk, CallsFit
  <2>5. Unknown(f)
    BY <1>10, <2>4 DEF UrlInv, PointersApart, Unknown
  <2>6. \A g \in Fetches \ {f} : FetchOk(g)'
    BY <1>1, <1>4, <1>6, <2>2, OthersOk
  <2>7. FetchOk(f)'
    BY <1>1, <1>2, <1>4, <1>6, <1>7, <2>2, <2>5, UpdateHandled
  <2>. QED  BY <1>8, <2>2, <2>3, <2>6, <2>7 DEF UrlInv
<1>. QED  BY <1>9, <1>10

\* The fetch an update comes from.
LEMMA SrcupdateFacts ==
  ASSUME SlotsInv, UrlInv, At("srcupdate")
  PROVE  /\ todo # <<>> /\ Head(todo).op = "srcupdate"
         /\ F \in Fetches /\ Head(todo).f = F /\ url[F] \in Urls
         /\ Head(todo).tags \in Ending \cup {{"Data"}, {"Error"}, {"Moved"}, {"Reload"}}
         /\ \A u \in Urls : Knows(u, F) => u = url[F]
<1>1. todo # <<>> /\ Head(todo).op = "srcupdate"
  BY DEF At
<1>2. F \in Fetches /\ url[F] \in Urls
  BY SrcupdateHead
<1>3. Head(todo).tags \in Ending \cup {{"Data"}, {"Error"}, {"Moved"}, {"Reload"}}
  BY <1>1, UrlHead DEF KnownCall
<1>4. \A u \in Urls : Knows(u, F) => u = url[F]
  BY <1>2 DEF UrlInv, PointersApart
<1>. QED  BY <1>1, <1>2, <1>3, <1>4 DEF F

LEMMA UrlSrcupdateIgnored ==
  ASSUME SlotsInv, UrlInv, SrcupdateIgnored
  PROVE  UrlInv'
<1>1. PICK h, f : h = Head(todo) /\ f = F
  OBVIOUS
<1>2. /\ todo # <<>> /\ h.op = "srcupdate" /\ f \in Fetches /\ h.f = f
      /\ h.tags \in Ending \cup {{"Data"}, {"Error"}, {"Moved"}, {"Reload"}}
      /\ \A u \in Urls : Knows(u, f) => u = url[f]
  BY <1>1, SrcupdateFacts DEF SrcupdateIgnored
<1>3. UNCHANGED <<life, flags, url, task, netqueue, localqueue, fetch, rfetch, vfetch>>
  BY DEF SrcupdateIgnored, fetchVars, queueVars, urlVars
<1>4. Orderly(todo) /\ CallsIn(Left) \subseteq CallsIn(todo)
  BY <1>2, UrlHead
<1>5. todo' = <<>> \o Left
  BY <1>2, DoLeft DEF SrcupdateIgnored
<1>6. Adds({}) /\ Orderly(todo')
  BY <1>4, <1>5, AddNone
<1>7. NewCalls'
  BY <1>3, <1>4, <1>6, NewCallsKept DEF Adds
<1>8. \A g \in Fetches : SameState(g) /\ SamePointers(g)
  BY <1>3, StateKept, PointersKept
<1>9. Unknown(f)' <=> Unknown(f)
  BY <1>3 DEF Unknown, Knows
<1>10. ASSUME Tells(h) PROVE Unknown(f)
  <2>1. "Terminate" \in h.tags
    BY <1>10, TagsApart DEF Tells
  <2>2. ~Is(fetch) /\ ~Is(rfetch) /\ ~Is(vfetch)
    BY <1>1, <2>1 DEF SrcupdateIgnored
  <2>3. f # NoFetch
    BY <1>2, FetchAssumption
  <2>4. ~Knows(url[f], f)
    BY <1>1, <2>2, <2>3 DEF Is, Knows
  <2>. QED  BY <1>2, <2>4 DEF Unknown
<1>11. PointersApart'
  BY <1>3, KeptInv
<1>12. \A g \in Fetches \ {f} : FetchOk(g)'
  BY <1>1, <1>2, <1>6, <1>8, OthersOk
<1>13. FetchOk(f)'
  BY <1>1, <1>2, <1>6, <1>8, <1>9, <1>10, UpdateHandled
<1>. QED  BY <1>6, <1>7, <1>11, <1>12, <1>13 DEF UrlInv

LEMMA UrlSrcupdatefetch ==
  ASSUME SlotsInv, UrlInv, Srcupdatefetch
  PROVE  UrlInv'
<1>1. PICK h, f, u : h = Head(todo) /\ f = F /\ u = url[F]
  OBVIOUS
<1>2. /\ todo # <<>> /\ h.op = "srcupdate" /\ f \in Fetches /\ h.f = f /\ u \in Urls
      /\ h.tags \in Ending \cup {{"Data"}, {"Error"}, {"Moved"}, {"Reload"}}
      /\ \A v \in Urls : Knows(v, f) => v = u
  BY <1>1, SrcupdateFacts DEF Srcupdatefetch
<1>3. /\ UNCHANGED <<life, url, task, netqueue, localqueue, vfetch>>
      /\ fetch[u] = f \/ rfetch[u] = f
      /\ flags' = flags \/ flags' = [flags EXCEPT ![f] = flags[f] \cup {"CANCELLED"}]
      /\ \/ "Terminate" \notin h.tags /\ fetch' = fetch /\ rfetch' = rfetch
         \/ /\ "Terminate" \in h.tags
            /\ fetch' = [fetch EXCEPT ![u] = NoFetch]
            /\ rfetch' = [rfetch EXCEPT ![u] = NoFetch]
  BY <1>1 DEF Srcupdatefetch, queueVars, Is, Set, With
<1>4. /\ Orderly(todo) /\ CallsIn(Left) \subseteq CallsIn(todo)
      /\ Precedes(h, CallsIn(Left))
  BY <1>1, <1>2, UrlHead
<1>5. Adds({}) /\ Orderly(todo')
  <2>1. todo' = <<>> \o Left
    BY <1>2, DoLeft DEF Srcupdatefetch
  <2>. QED  BY <1>4, <2>1, AddNone
<1>6. /\ flags \in [Fetches -> SUBSET Flags]
      /\ fetch \in [Urls -> Fetches \cup {NoFetch}] /\ rfetch \in [Urls -> Fetches \cup {NoFetch}]
  BY DEF SlotsInv, TypeOK
<1>7. \A g \in Fetches : \A x \in {"RUNNING", "QUEUED", "INCOMPLETE", "DISPOSED", "POSTNOGOOD"} :
        x \in flags'[g] <=> x \in flags[g]
  BY <1>2, <1>3, <1>6
<1>8. \A g \in Fetches : SameState(g)
  BY <1>3, <1>7, StateKept
<1>9. NoFetch \notin Fetches
  BY FetchAssumption
<1>10. \A v \in Urls : /\ fetch'[v] \in {fetch[v], NoFetch} /\ rfetch'[v] \in {rfetch[v], NoFetch}
                       /\ vfetch'[v] \in {vfetch[v], NoFetch}
  BY <1>2, <1>3, <1>6
<1>11. PointersApart'
  BY <1>3, <1>7, <1>10, PointersFewer DEF UrlInv
<1>12. NewCalls'
  BY <1>4, <1>5, <1>10, NewCallsFewer DEF Adds, UrlInv
<1>13. ASSUME NEW g \in Fetches \ {f} PROVE SamePointers(g)
  <2>1. /\ fetch[u] # NoFetch => rfetch[u] = NoFetch /\ vfetch[u] = NoFetch
    BY <1>2 DEF UrlInv, PointersApart
  <2>2. fetch[u] # g /\ rfetch[u] # g
    BY <1>2, <1>3, <1>9, <1>13, <2>1
  <2>3. \A v \in Urls : (fetch'[v] = g <=> fetch[v] = g) /\ (rfetch'[v] = g <=> rfetch[v] = g)
    BY <1>2, <1>3, <1>6, <1>9, <1>13, <2>2
  <2>. QED  BY <1>3, <2>3 DEF SamePointers, Knows
<1>14. \A g \in Fetches \ {f} : FetchOk(g)'
  BY <1>1, <1>2, <1>5, <1>8, <1>13, OthersOk
<1>15. CASE "Terminate" \notin h.tags
  <2>1. Unknown(f)' <=> Unknown(f)
    BY <1>3, <1>15 DEF Unknown, Knows
  <2>2. ~Tells(h)
    BY <1>15, TagsApart DEF Tells
  <2>3. FetchOk(f)'
    BY <1>1, <1>2, <1>5, <1>8, <2>1, <2>2, UpdateHandled
  <2>. QED  BY <1>5, <1>11, <1>12, <1>14, <2>3 DEF UrlInv
<1>16. CASE "Terminate" \in h.tags
  <2>1. Tells(h)
    BY <1>2, <1>16, TagsApart DEF Tells
  <2>2. Unknown(f)'
    <3>1. vfetch[u] # f
      BY <1>2, <1>3, <1>9 DEF UrlInv, PointersApart
    <3>2. ASSUME NEW v \in Urls PROVE ~Knows(v, f)'
      <4>1. CASE v = u
        BY <1>2, <1>3, <1>6, <1>9, <1>16, <3>1, <4>1 DEF Knows
      <4>2. CASE v # u
        <5>1. fetch'[v] = fetch[v] /\ rfetch'[v] = rfetch[v] /\ vfetch'[v] = vfetch[v]
          BY <1>2, <1>3, <1>6, <4>2
        <5>. QED  BY <1>2, <4>2, <5>1 DEF Knows
      <4>. QED  BY <4>1, <4>2
    <3>. QED  BY <3>2 DEF Unknown
  <2>3. \E b \in CallsIn(todo') : b.f = f /\ b.op \in Disposal
    BY <1>2, <1>4, <1>5, <2>1 DEF Precedes, Adds
  <2>4. FetchOk(f)'
    BY <1>1, <1>2, <1>5, <1>8, <2>2, <2>3, UpdateHandled
  <2>. QED  BY <1>5, <1>11, <1>12, <1>14, <2>4 DEF UrlInv
<1>. QED  BY <1>15, <1>16

\* Nothing follows data or a move, nor a reload.
LEMMA SoloHead ==
  ASSUME SlotsInv, UrlInv, todo # <<>>, Solo(Head(todo)) \/ Head(todo).op \in LateOps
  PROVE  CallsIn(Left) = {} /\ CallsIn(todo) = {Head(todo)}
BY UrlHead DEF InOrder

LEMMA UrlMoveurl ==
  ASSUME SlotsInv, UrlInv, Moveurl
  PROVE  UrlInv'
<1>1. PICK h, f, u : h = Head(todo) /\ f = F /\ u = url[F]
  OBVIOUS
<1>2. /\ todo # <<>> /\ h.op = "srcupdate" /\ f \in Fetches /\ h.f = f /\ u \in Urls
      /\ h.tags \in Ending \cup {{"Data"}, {"Error"}, {"Moved"}, {"Reload"}}
      /\ "Moved" \in h.tags
  BY <1>1, SrcupdateFacts DEF Moveurl
<1>3. UNCHANGED <<life, flags, url, task, netqueue, localqueue, fetch, rfetch, vfetch>>
  BY DEF Moveurl, fetchVars, queueVars
<1>4. h.tags = {"Moved"} /\ ~Tells(h)
  <2>1. h.tags = {"Moved"}
    BY <1>2, TagsApart
  <2>. QED  BY <2>1, TagsApart DEF Tells
<1>5. Orderly(todo) /\ CallsIn(Left) = {} /\ CallsIn(todo) = {h}
  BY <1>1, <1>2, <1>4, UrlHead, SoloHead DEF Solo
<1>6. PICK N : /\ Adds(N) /\ Orderly(todo')
               /\ \A c \in N : c.op = "load" /\ c.f = NoFetch
  <2>1. PICK v \in Urls : Do(<<>>) \/ \E how \in {{}, {"reload"}} : Do(<<CallU("load", v, how)>>)
    BY DEF Moveurl
  <2>2. CASE Do(<<>>)
    <3>1. todo' = <<>> \o Left
      BY <1>2, <2>2, DoLeft
    <3>. QED  BY <1>5, <3>1, AddNone
  <2>3. ASSUME NEW how, Do(<<CallU("load", v, how)>>)
        PROVE  \E N : /\ Adds(N) /\ Orderly(todo')
                      /\ \A c \in N : c.op = "load" /\ c.f = NoFetch
    <3>. DEFINE e == CallU("load", v, how)
    <3>1. e.op = "load" /\ e.f = NoFetch
      BY CallFields
    <3>2. Do(<<e>>)
      BY <2>3
    <3>. HIDE DEF e
    <3>3. todo' = <<e>> \o Left
      BY <1>2, <3>2, DoLeft
    <3>4. Precedes(e, CallsIn(Left))
      BY <1>5, <3>1 DEF Precedes, KnownCall, Tells
    <3>5. Adds({e}) /\ Orderly(todo')
      BY <1>5, <3>3, <3>4, AddOne
    <3>. QED  BY <3>1, <3>5
  <2>. QED  BY <2>1, <2>2, <2>3
<1>7. NewCalls'
  BY <1>3, <1>5, <1>6, NewCallsKept DEF Adds, NewOps
<1>8. \A g \in Fetches : SameState(g) /\ SamePointers(g)
  BY <1>3, StateKept, PointersKept
<1>9. Unknown(f)' <=> Unknown(f)
  BY <1>3 DEF Unknown, Knows
<1>10. PointersApart'
  BY <1>3, KeptInv
<1>11. NoFetch \notin Fetches
  BY FetchAssumption
<1>12. \A g \in Fetches \ {f} : FetchOk(g)'
  <2>1. \A c \in N : c.f \notin Fetches \ {f} /\ c.op \notin OfQueues
    BY <1>6, <1>11 DEF OfQueues
  <2>. QED  BY <1>1, <1>2, <1>6, <1>8, <2>1, OthersOk
<1>13. FetchOk(f)'
  <2>1. /\ \A c \in N : c.op \notin OfQueues
        /\ \A c \in N : c.f # f
    BY <1>2, <1>6, <1>11 DEF OfQueues
  <2>. QED  BY <1>1, <1>2, <1>4, <1>6, <1>8, <1>9, <2>1, UpdateHandled
<1>. QED  BY <1>6, <1>7, <1>10, <1>12, <1>13 DEF UrlInv

\* Short sequences of calls.
LEMMA ConcatShort ==
  ASSUME NEW a, NEW b
  PROVE  /\ <<a>> \o <<b>> = <<a, b>> /\ <<a>> \o <<>> = <<a>>
         /\ <<>> \o <<b>> = <<b>> /\ <<>> \o <<>> = <<>>
<1>. DEFINE T == {a, b}
<1>1. <<a>> \in Seq(T) /\ <<b>> \in Seq(T) /\ <<>> \in Seq(T)
  OBVIOUS
<1>. HIDE DEF T
<1>2. <<a>> \o <<b>> = <<a, b>>
  <2>. DEFINE r == <<a>> \o <<b>>
              s == <<a, b>>
  <2>1. /\ Len(<<a>>) = 1 /\ Len(<<b>>) = 1 /\ <<a>>[1] = a /\ <<b>>[1] = b
        /\ s \in Seq({a, b}) /\ Len(s) = 2 /\ s[1] = a /\ s[2] = b
    OBVIOUS
  <2>2. s \in Seq(T)
    BY <2>1 DEF T
  <2>3. /\ r \in Seq(T) /\ Len(r) = Len(<<a>>) + Len(<<b>>)
        /\ \A i \in 1..Len(<<a>>) : r[i] = <<a>>[i]
        /\ \A i \in 1..Len(<<b>>) : r[Len(<<a>>) + i] = <<b>>[i]
    BY <1>1, ConcatFacts
  <2>. HIDE DEF r, s
  <2>4. Len(r) = 2 /\ r[1] = a /\ r[2] = b
    <3>1. 1 \in 1..1 /\ 1 + 1 = 2
      OBVIOUS
    <3>2. r[1] = <<a>>[1] /\ r[Len(<<a>>) + 1] = <<b>>[1]
      BY <2>1, <2>3, <3>1, Zenon
    <3>. QED  BY <2>1, <2>3, <3>1, <3>2
  <2>5. \A i \in 1..2 : i = 1 \/ i = 2
    OBVIOUS
  <2>6. Len(r) = Len(s) /\ \A i \in 1..Len(r) : r[i] = s[i]
    BY <2>1, <2>4, <2>5
  <2>7. r = s
    BY <2>2, <2>3, <2>6, SeqEqual
  <2>. QED  BY <2>7 DEF r, s
<1>3. <<a>> \o <<>> = <<a>>
  BY <1>1
<1>4. <<>> \o <<b>> = <<b>>
  BY <1>1
<1>5. <<>> \o <<>> = <<>>
  BY <1>1
<1>. QED  BY <1>2, <1>3, <1>4, <1>5

\* Up to four calls put together.
LEMMA ConcatThree ==
  ASSUME NEW a, NEW b, NEW c
  PROVE  <<a>> \o <<b, c>> = <<a, b, c>>
<1>. DEFINE T == {a, b, c}
<1>1. <<b, c>> \in Seq(T) /\ <<a, b, c>> \in Seq(T) /\ <<>> \in Seq(T)
  OBVIOUS
<1>. HIDE DEF T
<1>2. <<a, b, c>> \o <<>> = <<a>> \o (<<b, c>> \o <<>>)
  BY <1>1, ChainThree
<1>3. <<a, b, c>> \o <<>> = <<a, b, c>> /\ <<b, c>> \o <<>> = <<b, c>>
  BY <1>1
<1>. QED  BY <1>2, <1>3

LEMMA ConcatFour ==
  ASSUME NEW a, NEW b, NEW c, NEW d
  PROVE  <<a>> \o <<b, c, d>> = <<a, b, c, d>>
<1>. DEFINE T == {a, b, c, d}
<1>1. <<b, c, d>> \in Seq(T) /\ <<a, b, c, d>> \in Seq(T) /\ <<>> \in Seq(T)
  OBVIOUS
<1>. HIDE DEF T
<1>2. <<a, b, c, d>> \o <<>> = <<a>> \o (<<b, c, d>> \o <<>>)
  BY <1>1, ChainFour
<1>3. <<a, b, c, d>> \o <<>> = <<a, b, c, d>> /\ <<b, c, d>> \o <<>> = <<b, c, d>>
  BY <1>1
<1>. QED  BY <1>2, <1>3

LEMMA ConcatOne ==
  ASSUME NEW a, NEW b, NEW c
  PROVE  <<a, b>> \o <<c>> = <<a, b, c>>
<1>1. <<c>> \in Seq({c})
  OBVIOUS
<1>2. <<a, b>> \o <<c>> = <<a>> \o (<<b>> \o <<c>>)
  BY <1>1, ChainTwo
<1>3. <<b>> \o <<c>> = <<b, c>>
  BY ConcatShort
<1>. QED  BY <1>2, <1>3, ConcatThree

LEMMA ConcatPairs ==
  ASSUME NEW a, NEW b, NEW c, NEW d
  PROVE  <<a, b>> \o <<c, d>> = <<a, b, c, d>>
<1>1. <<c, d>> \in Seq({c, d})
  OBVIOUS
<1>2. <<a, b>> \o <<c, d>> = <<a>> \o (<<b>> \o <<c, d>>)
  BY <1>1, ChainTwo
<1>3. <<b>> \o <<c, d>> = <<b, c, d>>
  BY ConcatThree
<1>. QED  BY <1>2, <1>3, ConcatFour

LEMMA ConcatChain ==
  ASSUME NEW a, NEW b, NEW c, NEW d
  PROVE  (<<a>> \o <<b, c>>) \o <<d>> = <<a, b, c, d>>
<1>1. <<a>> \o <<b, c>> = <<a, b, c>>
  BY ConcatThree
<1>2. <<d>> \in Seq({d})
  OBVIOUS
<1>3. <<a, b, c>> \o <<d>> = <<a>> \o (<<b, c>> \o <<d>>)
  BY <1>2, ChainThree
<1>4. <<b, c>> \o <<d>> = <<b, c, d>>
  BY ConcatOne
<1>. QED  BY <1>1, <1>3, <1>4, ConcatFour

LEMMA UrlVerified ==
  ASSUME SlotsInv, UrlInv, Verified
  PROVE  UrlInv'
<1>1. PICK h, f, u : h = Head(todo) /\ f = F /\ u = url[F]
  OBVIOUS
<1>2. /\ todo # <<>> /\ h.op = "srcupdate" /\ f \in Fetches /\ h.f = f /\ u \in Urls
      /\ h.tags \in Ending \cup {{"Data"}, {"Error"}, {"Moved"}, {"Reload"}}
      /\ \A v \in Urls : Knows(v, f) => v = u
  BY <1>1, SrcupdateFacts DEF Verified
<1>3. /\ UNCHANGED <<life, flags, url, task, netqueue, localqueue, fetch, rfetch>>
      /\ vfetch[u] = f /\ vfetch' = [vfetch EXCEPT ![u] = NoFetch]
      /\ h.tags \cap {"Error", "Terminate"} # {}
  BY <1>1 DEF Verified, fetchVars, queueVars, Is, Set
<1>4. h.tags \in Ending \cup {{"Error"}}
  BY <1>2, <1>3
<1>5. /\ Orderly(todo) /\ CallsIn(Left) \subseteq CallsIn(todo)
      /\ Precedes(h, CallsIn(Left)) /\ \A b \in CallsIn(Left) : InOrder(h, b)
  BY <1>1, <1>2, UrlHead
<1>6. ~Tells(h) => h.tags = {"Error"}
  BY <1>2, <1>4 DEF Tells
<1>7. vfetch \in [Urls -> Fetches \cup {NoFetch}] /\ NoFetch \notin Fetches
  BY FetchAssumption DEF SlotsInv, TypeOK
<1>8. \A v \in Urls : /\ fetch'[v] \in {fetch[v], NoFetch} /\ rfetch'[v] \in {rfetch[v], NoFetch}
                      /\ vfetch'[v] \in {vfetch[v], NoFetch}
  BY <1>2, <1>3, <1>7
<1>9. PointersApart'
  BY <1>3, <1>8, PointersFewer DEF UrlInv
<1>10. ASSUME NEW g \in Fetches \ {f} PROVE SamePointers(g)
  <2>1. \A v \in Urls : vfetch'[v] = g <=> vfetch[v] = g
    BY <1>2, <1>3, <1>7, <1>10
  <2>. QED  BY <1>3, <2>1 DEF SamePointers, Knows
<1>11. Unknown(f)'
  <2>1. fetch[u] # f /\ rfetch[u] # f
    BY <1>2, <1>3, <1>7 DEF UrlInv, PointersApart
  <2>2. ASSUME NEW v \in Urls PROVE ~Knows(v, f)'
    <3>1. CASE v = u
      BY <1>2, <1>3, <1>7, <2>1, <3>1 DEF Knows
    <3>2. CASE v # u
      <4>1. vfetch'[v] = vfetch[v]
        BY <1>2, <1>3, <1>7, <3>2
      <4>. QED  BY <1>2, <1>3, <3>2, <4>1 DEF Knows
    <3>. QED  BY <3>1, <3>2
  <2>. QED  BY <2>2 DEF Unknown
<1>12. \A g \in Fetches : SameState(g)
  BY <1>3, StateKept
<1>. DEFINE d == CallF("dispose", f, {})
            e == CallU("load", u, {"history"})
            p == IF "Error" \in h.tags THEN <<d>> ELSE <<>>
            q(fast) == IF fast THEN <<>> ELSE <<e>>
<1>13. d.op = "dispose" /\ d.f = f /\ d.tags = {} /\ e.op = "load" /\ e.f = NoFetch /\ e.tags = {"history"}
  BY CallFields
<1>14. \E fast \in Fastresponse : Do(p \o q(fast))
  BY <1>1 DEF Verified
<1>. HIDE DEF d, e, p, q
<1>15. \/ todo' = <<d, e>> \o Left /\ "Error" \in h.tags
       \/ todo' = <<d>> \o Left /\ "Error" \in h.tags
       \/ todo' = <<e>> \o Left /\ "Error" \notin h.tags
       \/ todo' = <<>> \o Left /\ "Error" \notin h.tags
  <2>1. PICK fast \in Fastresponse : Do(p \o q(fast))
    BY <1>14
  <2>2. /\ p = IF "Error" \in h.tags THEN <<d>> ELSE <<>>
        /\ q(fast) = IF fast THEN <<>> ELSE <<e>>
    BY DEF p, q
  <2>. DEFINE r == p \o q(fast)
  <2>3. todo' = r \o Left
    <3>1. Do(r)
      BY <2>1
    <3>. HIDE DEF r
    <3>. QED  BY <1>2, <3>1, DoLeft
  <2>4. /\ <<d>> \o <<e>> = <<d, e>> /\ <<d>> \o <<>> = <<d>>
        /\ <<>> \o <<e>> = <<e>> /\ <<>> \o <<>> = <<>>
    BY ConcatShort
  <2>. QED  BY <2>2, <2>3, <2>4
<1>16. ASSUME NEW b \in CallsIn(Left) PROVE InOrder(e, b)
  <2>1. InOrder(h, b)
    BY <1>5
  <2>2. ~Solo(e) /\ e.op \notin LateOps /\ e.op \notin CancelOps
    <3>1. {"history"} # {"reload"}
      OBVIOUS
    <3>. QED  BY <1>13, <3>1 DEF Solo, LateOps, CancelOps
  <2>. QED  BY <1>2, <1>7, <1>13, <2>1, <2>2 DEF InOrder
<1>17. Precedes(e, CallsIn(Left))
  BY <1>13, <1>16 DEF Precedes, KnownCall, Tells
<1>18. ASSUME "Error" \in h.tags, NEW b \in CallsIn(Left) PROVE InOrder(d, b)
  <2>1. InOrder(h, b)
    BY <1>5
  <2>2. d.f = b.f => MayFollow(d, b)
    <3>1. h.tags # {"Terminate"}
      BY <1>18
    <3>2. h.tags # {"Reload"}
      BY <1>18
    <3>. QED  BY <1>2, <1>13, <2>1, <3>1, <3>2 DEF InOrder, MayFollow
  <2>3. ~Solo(d) /\ d.op \notin LateOps /\ d.op \notin CancelOps
    BY <1>13 DEF Solo, LateOps, CancelOps
  <2>. QED  BY <1>2, <1>13, <2>1, <2>2, <2>3 DEF InOrder
<1>19. ASSUME "Error" \in h.tags PROVE Precedes(d, CallsIn(Left)) /\ Precedes(d, {e} \cup CallsIn(Left))
  <2>1. InOrder(d, e)
    <3>1. d.f # e.f
      BY <1>2, <1>7, <1>13
    <3>2. ~Solo(d) /\ d.op \notin LateOps /\ d.op \notin CancelOps
      BY <1>13 DEF Solo, LateOps, CancelOps
    <3>. QED  BY <1>13, <3>1, <3>2 DEF InOrder
  <2>2. KnownCall(d) /\ ~Tells(d)
    BY <1>13 DEF KnownCall, OfUrl, OfQueues, Tells
  <2>. QED  BY <1>18, <1>19, <2>1, <2>2 DEF Precedes
<1>20. PICK N : /\ Adds(N) /\ Orderly(todo')
                /\ N \subseteq {d, e}
                /\ "Error" \in h.tags => d \in N
  <2>1. CASE todo' = <<d, e>> \o Left /\ "Error" \in h.tags
    <3>1. Adds({d, e}) /\ Orderly(todo')
      BY <1>5, <1>17, <1>19, <2>1, AddTwo
    <3>. QED  BY <3>1
  <2>2. CASE todo' = <<d>> \o Left /\ "Error" \in h.tags
    <3>1. Adds({d}) /\ Orderly(todo')
      BY <1>5, <1>19, <2>2, AddOne
    <3>. QED  BY <3>1
  <2>3. CASE todo' = <<e>> \o Left /\ "Error" \notin h.tags
    <3>1. Adds({e}) /\ Orderly(todo')
      BY <1>5, <1>17, <2>3, AddOne
    <3>. QED  BY <2>3, <3>1
  <2>4. CASE todo' = <<>> \o Left /\ "Error" \notin h.tags
    <3>1. Adds({}) /\ Orderly(todo')
      BY <1>5, <2>4, AddNone
    <3>. QED  BY <2>4, <3>1
  <2>. QED  BY <1>15, <2>1, <2>2, <2>3, <2>4
<1>21. \A c \in N : /\ c.op \in {"dispose", "load"} /\ c.op \notin OfQueues /\ c.op \notin NewOps
                    /\ c.f = f \/ c.f = NoFetch
  BY <1>13, <1>20 DEF OfQueues, NewOps
<1>22. NewCalls'
  <2>1. \A c \in CallsIn(todo') : c.op \in NewOps => c \in CallsIn(todo)
    BY <1>5, <1>20, <1>21 DEF Adds
  <2>. QED  BY <1>8, <2>1, NewCallsFewer DEF UrlInv
<1>23. \A g \in Fetches \ {f} : FetchOk(g)'
  BY <1>1, <1>2, <1>7, <1>10, <1>12, <1>20, <1>21, OthersOk
<1>24. \E b \in CallsIn(todo') : b.f = f /\ b.op \in Disposal
  <2>1. CASE Tells(h)
    BY <1>2, <1>5, <1>20, <2>1 DEF Precedes, Adds
  <2>2. CASE ~Tells(h)
    <3>1. d \in CallsIn(todo')
      BY <1>6, <1>20, <2>2 DEF Adds
    <3>. QED  BY <1>13, <3>1 DEF Disposal
  <2>. QED  BY <2>1, <2>2
<1>25. FetchOk(f)'
  <2>1. \A c \in N : c.f = f => c.op \in {"srcupdate", "dispose"}
    BY <1>2, <1>7, <1>13, <1>20
  <2>. QED  BY <1>1, <1>2, <1>11, <1>12, <1>20, <1>21, <1>24, <2>1, UpdateHandled
<1>. QED  BY <1>9, <1>20, <1>22, <1>23, <1>25 DEF UrlInv

-----------------------------------------------------------------------------
(* The calls of main: loads and what the user asks of a url. *)

\* The calls of a url for its pointers, none to three.
LEMMA CallsUNone ==
  ASSUME NEW u
  PROVE  CallsU(<<>>, u) = <<>>
<1>1. Len(<<>>) = 0 /\ 1..0 = {}
  OBVIOUS
<1>2. CallsU(<<>>, u) = [i \in 1..0 |-> CallU(<<>>[i], u, {})]
  BY <1>1 DEF CallsU
<1>. QED  BY <1>1, <1>2

LEMMA CallsUOne ==
  ASSUME NEW u, NEW a
  PROVE  CallsU(<<a>>, u) = <<CallU(a, u, {})>>
<1>. DEFINE d == CallU(a, u, {})
            call(x) == CallU(x, u, {})
<1>1. d = call(a) /\ \A ops : CallsU(ops, u) = [i \in 1..Len(ops) |-> call(ops[i])]
  BY DEF CallsU
<1>. HIDE DEF d, call
<1>2. Len(<<a>>) = 1 /\ <<a>>[1] = a
  OBVIOUS
<1>3. CallsU(<<a>>, u) = [i \in 1..1 |-> call(<<a>>[i])]
  BY <1>1, <1>2
<1>4. \A i \in 1..1 : i = 1
  OBVIOUS
<1>5. \A i \in 1..1 : call(<<a>>[i]) = d
  BY <1>1, <1>2, <1>4
<1>6. CallsU(<<a>>, u) = [i \in 1..1 |-> d]
  BY <1>3, <1>5
<1>7. <<d>> = [i \in 1..1 |-> d]
  OBVIOUS
<1>. QED  BY <1>6, <1>7 DEF d

LEMMA CallsUTwo ==
  ASSUME NEW u, NEW a, NEW b
  PROVE  CallsU(<<a, b>>, u) = <<CallU(a, u, {}), CallU(b, u, {})>>
<1>. DEFINE d == CallU(a, u, {})
            e == CallU(b, u, {})
            ops == <<a, b>>
            call(x) == CallU(x, u, {})
<1>1. /\ d = call(a) /\ e = call(b)
      /\ \A o : CallsU(o, u) = [i \in 1..Len(o) |-> call(o[i])]
  BY DEF CallsU
<1>. HIDE DEF d, e, call
<1>2. Len(ops) = 2 /\ ops[1] = a /\ ops[2] = b
  OBVIOUS
<1>. HIDE DEF ops
<1>3. CallsU(ops, u) = [i \in 1..2 |-> call(ops[i])]
  BY <1>1, <1>2
<1>4. \A i \in 1..2 : i = 1 \/ i = 2
  OBVIOUS
<1>5. \A i \in 1..2 : call(ops[i]) = IF i = 1 THEN d ELSE e
  BY <1>1, <1>2, <1>4
<1>6. CallsU(ops, u) = [i \in 1..2 |-> IF i = 1 THEN d ELSE e]
  BY <1>3, <1>5
<1>7. <<d, e>> = [i \in 1..2 |-> IF i = 1 THEN d ELSE e]
  OBVIOUS
<1>. QED  BY <1>6, <1>7 DEF d, e, ops

LEMMA CallsUThree ==
  ASSUME NEW u, NEW a, NEW b, NEW c
  PROVE  CallsU(<<a, b, c>>, u) = <<CallU(a, u, {}), CallU(b, u, {}), CallU(c, u, {})>>
<1>. DEFINE d == CallU(a, u, {})
            e == CallU(b, u, {})
            g == CallU(c, u, {})
            ops == <<a, b, c>>
            call(x) == CallU(x, u, {})
<1>1. /\ d = call(a) /\ e = call(b) /\ g = call(c)
      /\ \A o : CallsU(o, u) = [i \in 1..Len(o) |-> call(o[i])]
  BY DEF CallsU
<1>. HIDE DEF d, e, g, call
<1>2. Len(ops) = 3 /\ ops[1] = a /\ ops[2] = b /\ ops[3] = c
  OBVIOUS
<1>. HIDE DEF ops
<1>3. CallsU(ops, u) = [i \in 1..3 |-> call(ops[i])]
  BY <1>1, <1>2
<1>4. \A i \in 1..3 : i = 1 \/ i = 2 \/ i = 3
  OBVIOUS
<1>5. \A i \in 1..3 : call(ops[i]) = IF i = 1 THEN d ELSE IF i = 2 THEN e ELSE g
  BY <1>1, <1>2, <1>4
<1>6. CallsU(ops, u) = [i \in 1..3 |-> IF i = 1 THEN d ELSE IF i = 2 THEN e ELSE g]
  BY <1>3, <1>5
<1>7. <<d, e, g>> = [i \in 1..3 |-> IF i = 1 THEN d ELSE IF i = 2 THEN e ELSE g]
  OBVIOUS
<1>. QED  BY <1>6, <1>7 DEF d, e, g, ops

\* A new fetch is asked for after a dispose or a reload from the cache only.
LEMMA NoNewLeft ==
  ASSUME SlotsInv, UrlInv, Idle \/ Head(todo).op \notin {"dispose", "newrfetch"}
  PROVE  \A b \in CallsIn(Left) : b.op \notin NewOps
<1>1. CASE Idle
  BY <1>1, UrlIdle
<1>2. CASE ~Idle
  BY <1>2, UrlHead DEF InOrder, NewOps, Idle
<1>. QED  BY <1>1, <1>2

\* A call that none of the calls of C must not follow.
LEMMA PrecedesPlain ==
  ASSUME NEW a, NEW C, KnownCall(a), ~Solo(a), a.op \notin LateOps, a.op \notin CancelOps,
         Tells(a) => \E b \in C : b.f = a.f /\ b.op \in Disposal,
         \A b \in C : b.op \notin NewOps,
         \A b \in C : a.f = b.f /\ a.f \in Fetches => MayFollow(a, b)
  PROVE  Precedes(a, C)
BY DEF Precedes, InOrder, NewOps

LEMMA PlainKind ==
  ASSUME NEW a, a.op \in {"dispose"} \cup OfQueues \cup NewOps, a.op # "dispose" => a.f = NoFetch
  PROVE  KnownCall(a) /\ ~Solo(a) /\ a.op \notin LateOps /\ a.op \notin CancelOps /\ ~Tells(a)
BY DEF KnownCall, Solo, LateOps, CancelOps, Tells, OfUrl, OfQueues, NewOps

LEMMA UrlAuload ==
  ASSUME SlotsInv, UrlInv, NEW u \in Urls, Auload(u)
  PROVE  UrlInv'
<1>1. PICK how : Event(<<CallU("load", u, how)>>)
  BY DEF Auload
<1>2. UNCHANGED <<life, flags, url, task, netqueue, localqueue, fetch, rfetch, vfetch>>
  BY DEF Auload, fetchVars, queueVars, urlVars
<1>. DEFINE e == CallU("load", u, how)
<1>3. e.op = "load" /\ e.f = NoFetch /\ Event(<<e>>)
  BY <1>1, CallFields
<1>. HIDE DEF e
<1>4. todo' = <<e>> \o Left /\ Idle
  <2>1. <<e>> \in Seq({e})
    OBVIOUS
  <2>. QED  BY <1>3, <2>1, EventLeft
<1>5. Orderly(todo) /\ CallsIn(Left) = {}
  BY <1>4, UrlIdle
<1>6. Precedes(e, CallsIn(Left))
  BY <1>3, <1>5 DEF Precedes, KnownCall, Tells
<1>7. Adds({e}) /\ Orderly(todo')
  BY <1>4, <1>5, <1>6, AddOne
<1>8. NewCalls'
  BY <1>2, <1>3, <1>5, <1>7, NewCallsKept DEF Adds, NewOps
<1>9. e.f \notin Fetches /\ e.op \notin OfQueues
  BY <1>3, FetchAssumption DEF OfQueues
<1>10. \A c \in {e} : c.f \notin Fetches /\ c.op \notin OfQueues
  BY <1>9
<1>. QED  BY <1>2, <1>4, <1>7, <1>8, <1>10, NoneTouched

LEMMA UrlCancelfetch ==
  ASSUME SlotsInv, UrlInv, NEW u \in Urls, Cancelfetch(u)
  PROVE  UrlInv'
<1>1. PICK v : Event(CallsU(<<"cancelfetch", "cancelrfetch", "cancelvfetch">>, v))
  BY DEF Cancelfetch
<1>2. UNCHANGED <<life, flags, url, task, netqueue, localqueue, fetch, rfetch, vfetch>>
  BY DEF Cancelfetch, fetchVars, queueVars, urlVars
<1>. DEFINE a == CallU("cancelfetch", v, {})
            b == CallU("cancelrfetch", v, {})
            c == CallU("cancelvfetch", v, {})
<1>3. Event(<<a, b, c>>)
  BY <1>1, CallsUThree
<1>4. /\ a.op = "cancelfetch" /\ b.op = "cancelrfetch" /\ c.op = "cancelvfetch"
      /\ a.f = NoFetch /\ b.f = NoFetch /\ c.f = NoFetch
  BY CallFields
<1>. HIDE DEF a, b, c
<1>5. todo' = <<a, b, c>> \o Left /\ Idle
  <2>1. <<a, b, c>> \in Seq({a, b, c})
    OBVIOUS
  <2>. QED  BY <1>3, <2>1, EventLeft
<1>6. Orderly(todo) /\ CallsIn(Left) = {}
  BY <1>5, UrlIdle
<1>7. \A x \in {a, b, c} : /\ x.op \in CancelOps /\ x.f = NoFetch /\ x.f \notin Fetches
                           /\ x.op \notin NewOps /\ x.op \notin OfQueues
  BY <1>4, FetchAssumption DEF CancelOps, NewOps, OfQueues
<1>8. \A x \in {a, b, c} : KnownCall(x) /\ ~Tells(x) /\ ~Solo(x) /\ x.op \notin LateOps
  BY <1>7 DEF KnownCall, Tells, Solo, LateOps, CancelOps
<1>9. \A x, y \in {a, b, c} : InOrder(x, y)
  BY <1>7, <1>8 DEF InOrder, NewOps
<1>10. /\ Precedes(c, CallsIn(Left)) /\ Precedes(b, {c} \cup CallsIn(Left))
       /\ Precedes(a, {b, c} \cup CallsIn(Left))
  BY <1>6, <1>8, <1>9 DEF Precedes
<1>11. Adds({a, b, c}) /\ Orderly(todo')
  BY <1>5, <1>6, <1>10, AddThree
<1>12. NewCalls'
  BY <1>2, <1>6, <1>7, <1>11, NewCallsKept DEF Adds
<1>13. \A x \in {a, b, c} : x.f \notin Fetches /\ x.op \notin OfQueues
  BY <1>7
<1>. QED  BY <1>2, <1>5, <1>11, <1>12, <1>13, NoneTouched

LEMMA UrlLoadurl ==
  ASSUME SlotsInv, UrlInv, Loadurl
  PROVE  UrlInv'
<1>1. PICK h : h = Head(todo)
  OBVIOUS
<1>2. /\ todo # <<>> /\ h.op = "load"
      /\ UNCHANGED <<life, flags, url, task, netqueue, localqueue, fetch, rfetch, vfetch>>
  BY <1>1 DEF Loadurl, At, fetchVars, queueVars, urlVars
<1>3. PICK u \in Finalurls(U) :
        \/ Do(<<>>)
        \/ ~Loading(u) /\ \E history \in BOOLEAN : \E plan \in Plans(history) : Do(CallsU(plan, u))
  BY DEF Loadurl
<1>4. u \in Urls
  BY <1>3 DEF Finalurls, Reach
<1>5. /\ Orderly(todo) /\ ~Idle /\ h.f = NoFetch /\ CallsIn(Left) \subseteq CallsIn(todo)
  BY <1>1, <1>2, UrlHead DEF KnownCall, OfUrl
<1>6. \A b \in CallsIn(Left) : b.op \notin NewOps
  BY <1>1, <1>2, NoNewLeft
<1>7. NoFetch \notin Fetches
  BY FetchAssumption
<1>8. PICK N : /\ Adds(N) /\ Orderly(todo')
               /\ \A c \in N : c.f = NoFetch /\ c.op \in NewOps /\ ~Loading(u) /\ c.u = u
  <2>1. CASE Do(<<>>)
    <3>1. todo' = <<>> \o Left
      BY <1>2, <2>1, DoLeft
    <3>. QED  BY <1>5, <3>1, AddNone
  <2>2. ASSUME NEW history \in BOOLEAN, NEW plan \in Plans(history), ~Loading(u),
               Do(CallsU(plan, u))
        PROVE  \E N : /\ Adds(N) /\ Orderly(todo')
                      /\ \A c \in N : c.f = NoFetch /\ c.op \in NewOps /\ ~Loading(u) /\ c.u = u
    <3>. DEFINE a == CallU("newfetch", u, {})
                b == CallU("newrfetch", u, {})
                d == CallU("newvfetch", u, {})
    <3>1. Do(<<>>) \/ Do(<<a>>) \/ Do(<<b>>) \/ Do(<<d>>) \/ Do(<<b, d>>)
      <4>1. plan \in {<<>>, <<"newfetch">>, <<"newrfetch">>, <<"newvfetch">>,
                      <<"newrfetch", "newvfetch">>}
        BY DEF Plans
      <4>. QED  BY <2>2, <4>1, CallsUNone, CallsUOne, CallsUTwo
    <3>2. /\ a.op = "newfetch" /\ b.op = "newrfetch" /\ d.op = "newvfetch"
          /\ a.f = NoFetch /\ b.f = NoFetch /\ d.f = NoFetch
          /\ a.u = u /\ b.u = u /\ d.u = u
      BY CallFields
    <3>. HIDE DEF a, b, d
    <3>3. \A x \in {a, b, d} : x.op \in NewOps /\ x.f = NoFetch /\ x.u = u
      BY <3>2 DEF NewOps
    <3>4. \A x \in {a, b, d} :
            KnownCall(x) /\ ~Solo(x) /\ x.op \notin LateOps /\ x.op \notin CancelOps /\ ~Tells(x)
      BY <3>3, PlainKind
    <3>5. \A x \in {a, b, d} : Precedes(x, CallsIn(Left))
      BY <1>6, <1>7, <3>3, <3>4, PrecedesPlain
    <3>6. Precedes(b, {d} \cup CallsIn(Left))
      <4>1. InOrder(b, d)
        BY <1>7, <3>2, <3>4 DEF InOrder
      <4>. QED  BY <3>5, <4>1 DEF Precedes
    <3>7. ASSUME NEW x \in {a, b, d}, Do(<<x>>)
          PROVE  \E N : /\ Adds(N) /\ Orderly(todo')
                        /\ \A c \in N : c.f = NoFetch /\ c.op \in NewOps /\ ~Loading(u) /\ c.u = u
      <4>1. todo' = <<x>> \o Left
        BY <1>2, <3>7, DoLeft
      <4>2. Adds({x}) /\ Orderly(todo')
        BY <1>5, <3>5, <4>1, AddOne
      <4>3. \A c \in {x} : c.f = NoFetch /\ c.op \in NewOps /\ ~Loading(u) /\ c.u = u
        BY <2>2, <3>3
      <4>. QED  BY <4>2, <4>3
    <3>8. ASSUME Do(<<b, d>>)
          PROVE  \E N : /\ Adds(N) /\ Orderly(todo')
                        /\ \A c \in N : c.f = NoFetch /\ c.op \in NewOps /\ ~Loading(u) /\ c.u = u
      <4>1. todo' = <<b, d>> \o Left
        BY <1>2, <3>8, DoLeft
      <4>2. Adds({b, d}) /\ Orderly(todo')
        BY <1>5, <3>5, <3>6, <4>1, AddTwo
      <4>3. \A c \in {b, d} : c.f = NoFetch /\ c.op \in NewOps /\ ~Loading(u) /\ c.u = u
        BY <2>2, <3>3
      <4>. QED  BY <4>2, <4>3
    <3>9. \A x \in {a, b, d} : Do(<<x>>) =>
            \E N : /\ Adds(N) /\ Orderly(todo')
                   /\ \A c \in N : c.f = NoFetch /\ c.op \in NewOps /\ ~Loading(u) /\ c.u = u
      BY <3>7
    <3>. QED  BY <2>1, <3>1, <3>8, <3>9
  <2>. QED  BY <1>3, <2>1, <2>2
<1>9. NewCalls'
  <2>. SUFFICES ASSUME NEW c \in CallsIn(todo'), c.op \in NewOps
                PROVE  {fetch'[c.u], rfetch'[c.u], vfetch'[c.u]} = {NoFetch}
    BY DEF NewCalls, NewOps, Loading
  <2>1. c \in N
    BY <1>6, <1>8 DEF Adds
  <2>. QED  BY <1>2, <1>8, <2>1 DEF Loading
<1>10. \A c \in N : c.f \notin Fetches /\ c.op \notin OfQueues
  BY <1>7, <1>8 DEF NewOps, OfQueues
<1>. QED  BY <1>1, <1>2, <1>5, <1>7, <1>8, <1>9, <1>10, NoneTouched

-----------------------------------------------------------------------------
(* Cancelling, what drivers send, and the requester. *)

\* A call about f, of which no call was made before, among those of a cancel.
CancelLeft == Idle \/ (todo # <<>> /\ Head(todo).op \in CancelOps)

LEMMA CancelLeftFacts ==
  ASSUME SlotsInv, UrlInv, CancelLeft
  PROVE  /\ Orderly(todo)
         /\ \A c \in CallsIn(todo) : c.f \notin Fetches /\ c.op \in CancelOps
         /\ CallsIn(Left) \subseteq CallsIn(todo)
         /\ Idle \/ Head(todo).f \notin Fetches
<1>1. NoFetch \notin Fetches
  BY FetchAssumption
<1>2. CASE Idle
  BY <1>2, UrlIdle
<1>3. CASE todo # <<>> /\ Head(todo).op \in CancelOps
  <2>1. /\ Orderly(todo) /\ CallsIn(todo) = {Head(todo)} \cup CallsIn(Left)
        /\ \A b \in CallsIn(Left) : b.op \in CancelOps
    BY <1>3, UrlHead DEF InOrder
  <2>2. \A c \in CallsIn(todo) : c.op \in CancelOps => c.f = NoFetch
    BY <2>1 DEF Orderly, KnownCall, CancelOps, OfUrl
  <2>. QED  BY <1>1, <1>3, <2>1, <2>2
<1>. QED  BY <1>2, <1>3 DEF CancelLeft

\* A live fetch of which main has nothing to do yet tells its url something,
\* and is disposed of only when it tells that it has ended.
LEMMA UrlTold ==
  ASSUME SlotsInv, UrlInv, CancelLeft,
         NEW f \in Fetches, life[f] = "live",
         UNCHANGED <<life, url, task, netqueue, localqueue, fetch, rfetch, vfetch>>,
         \A g \in Fetches : \A x \in {"RUNNING", "QUEUED", "INCOMPLETE", "DISPOSED"} :
           x \in flags'[g] <=> x \in flags[g],
         \A g \in Fetches \ {f} : "POSTNOGOOD" \in flags'[g] <=> "POSTNOGOOD" \in flags[g],
         NEW N, Adds(N), Orderly(todo'),
         \A c \in N : c.f = f /\ c.op \in {"srcupdate", "dispose", "discard"},
         \A c \in N : c.op = "discard" => "INCOMPLETE" \in flags[f],
         \A c \in N : c.op \in Disposal => \E a \in N : Before(todo', a, c) /\ Tells(a)
  PROVE  UrlInv'
<1>1. /\ Orderly(todo)
      /\ \A c \in CallsIn(todo) : c.f \notin Fetches /\ c.op \in CancelOps
      /\ CallsIn(Left) \subseteq CallsIn(todo)
      /\ Idle \/ Head(todo).f \notin Fetches
  BY CancelLeftFacts
<1>2. CallsIn(todo') = N \cup CallsIn(Left)
  BY DEF Adds
<1>3. NewCalls'
  <2>1. \A c \in CallsIn(todo') : c.op \in NewOps => c \in CallsIn(todo)
    BY <1>1, <1>2 DEF NewOps
  <2>. QED  BY <2>1, NewCallsKept
<1>4. PointersApart'
  BY KeptInv
<1>5. ASSUME NEW g \in Fetches \ {f} PROVE SameState(g) /\ SamePointers(g)
  <2>1. \A x \in {"RUNNING", "QUEUED", "INCOMPLETE", "DISPOSED", "POSTNOGOOD"} :
          x \in flags'[g] <=> x \in flags[g]
    BY <1>5
  <2>. QED  BY <2>1, StateKept, PointersKept
<1>6. \A g \in Fetches \ {f} : FetchOk(g)'
  <2>1. \A c \in N : c.f \notin Fetches \ {f} /\ c.op \notin OfQueues
    BY DEF OfQueues
  <2>2. Idle \/ Head(todo).f \notin Fetches \ {f}
    BY <1>1
  <2>. QED  BY <1>5, <2>1, <2>2, OthersOk
<1>7. FetchOk(f) /\ \A c \in CallsIn(todo) : c.f # f
  BY <1>1 DEF UrlInv
<1>8. \A c \in CallsIn(todo') : c.f = f => c \in N
  BY <1>1, <1>2, <1>7
<1>9. Unknown(f)' <=> Unknown(f)
  BY DEF Unknown, Knows
<1>10. CallsFit(f)'
  BY <1>8 DEF CallsFit
<1>11. OutOfQueues(f)'
  <2>1. \A a \in CallsIn(todo') : a.op \notin OfQueues
    BY <1>1, <1>2 DEF OfQueues, CancelOps
  <2>. QED  BY <2>1 DEF OutOfQueues
<1>12. Forgotten(f)'
  BY <1>2, <1>8 DEF Forgotten
<1>13. Remembered(f)'
  <2>1. "DISPOSED" \in flags[f] \/ ~Unknown(f)
    BY <1>7 DEF FetchOk, Remembered
  <2>. QED  BY <1>9, <2>1 DEF Remembered
<1>14. Stated(f)'
  <2>1. /\ "QUEUED" \in flags[f] <=> In(netqueue, f) \/ In(localqueue, f)
        /\ "RUNNING" \in flags[f] => task[f]
        /\ flags[f] \cap {"RUNNING", "QUEUED", "INCOMPLETE"} # {}
    BY <1>7 DEF FetchOk, Stated
  <2>2. flags'[f] \cap {"RUNNING", "QUEUED", "INCOMPLETE"} # {}
    BY <2>1
  <2>. QED  BY <2>1, <2>2 DEF Stated
<1>. QED  BY <1>3, <1>4, <1>6, <1>10, <1>11, <1>12, <1>13, <1>14 DEF UrlInv, FetchOk

\* An update that does not end the fetch.
LEMMA ToldOne ==
  ASSUME SlotsInv, UrlInv, CancelLeft, NEW f \in Fetches, NEW s,
         s.op = "srcupdate", s.f = f, s.tags \in {{"Data"}, {"Moved"}, {"Error"}},
         Solo(s) => Idle, todo' = <<s>> \o Left
  PROVE  Adds({s}) /\ Orderly(todo')
<1>1. /\ Orderly(todo)
      /\ \A c \in CallsIn(todo) : c.f \notin Fetches /\ c.op \in CancelOps
      /\ CallsIn(Left) \subseteq CallsIn(todo)
  BY CancelLeftFacts
<1>2. Idle => CallsIn(Left) = {}
  BY UrlIdle
<1>3. KnownCall(s) /\ s.op \notin LateOps /\ s.op \notin CancelOps
  BY DEF KnownCall, LateOps, CancelOps, OfUrl, OfQueues
<1>4. ~Tells(s)
  BY TagsApart DEF Tells
<1>5. \A b \in CallsIn(Left) : InOrder(s, b)
  BY <1>1, <1>2, <1>3 DEF InOrder, CancelOps
<1>6. Precedes(s, CallsIn(Left))
  BY <1>3, <1>4, <1>5 DEF Precedes
<1>. QED  BY <1>1, <1>6, AddOne

\* The last update of a fetch, and the call that follows it.
LEMMA ToldTwo ==
  ASSUME SlotsInv, UrlInv, CancelLeft, NEW f \in Fetches, NEW s, NEW d,
         s.op = "srcupdate", s.f = f, d.f = f, s.tags \in Ending,
         d.op = "discard" \/ (d.op = "dispose" /\ s.tags = {"Terminate"}),
         todo' = <<s, d>> \o Left
  PROVE  Adds({s, d}) /\ Orderly(todo') /\ Tells(s) /\ Before(todo', s, d)
<1>1. /\ Orderly(todo)
      /\ \A c \in CallsIn(todo) : c.f \notin Fetches /\ c.op \in CancelOps
      /\ CallsIn(Left) \subseteq CallsIn(todo)
  BY CancelLeftFacts
<1>2. Tells(s) /\ ~Tells(d) /\ d.op \in Disposal
  BY DEF Tells, Disposal
<1>3. ~Solo(s) /\ ~Solo(d)
  BY TagsApart DEF Solo
<1>4. /\ KnownCall(s) /\ s.op \notin LateOps /\ s.op \notin CancelOps
      /\ KnownCall(d) /\ d.op \notin LateOps /\ d.op \notin CancelOps
  BY DEF KnownCall, LateOps, CancelOps, OfUrl, OfQueues
<1>5. \A b \in CallsIn(Left) : InOrder(s, b) /\ InOrder(d, b)
  BY <1>1, <1>3, <1>4 DEF InOrder, CancelOps
<1>6. InOrder(s, d)
  <2>1. MayFollow(s, d)
    BY DEF MayFollow
  <2>. QED  BY <1>3, <1>4, <2>1 DEF InOrder
<1>7. Precedes(d, CallsIn(Left)) /\ Precedes(s, {d} \cup CallsIn(Left))
  BY <1>2, <1>4, <1>5, <1>6 DEF Precedes
<1>. QED  BY <1>1, <1>2, <1>7, AddTwo

LEMMA UrlCancel ==
  ASSUME SlotsInv, UrlInv, CancelLeft, NEW f \in Fetches, life[f] = "live",
         todo' = CancelCalls(f) \o Left, flags' = With(f, {"CANCELLED"}),
         UNCHANGED <<life, url, task, netqueue, localqueue, fetch, rfetch, vfetch>>
  PROVE  UrlInv'
<1>. DEFINE s == CallF("srcupdate", f, {"Error"})
            t == CallF("srcupdate", f, {"Terminate"})
            d == CallF("dispose", f, {})
<1>1. \/ todo' = <<s>> \o Left \/ todo' = <<t, d>> \o Left \/ todo' = <<>> \o Left
  BY DEF CancelCalls
<1>2. /\ s.op = "srcupdate" /\ s.f = f /\ s.tags = {"Error"}
      /\ t.op = "srcupdate" /\ t.f = f /\ t.tags = {"Terminate"}
      /\ d.op = "dispose" /\ d.f = f
  BY CallFields
<1>. HIDE DEF s, t, d
<1>3. flags \in [Fetches -> SUBSET Flags]
  BY DEF SlotsInv, TypeOK
<1>4. ASSUME NEW g \in Fetches
      PROVE  \A x \in {"RUNNING", "QUEUED", "INCOMPLETE", "DISPOSED", "POSTNOGOOD"} :
               x \in flags'[g] <=> x \in flags[g]
  BY <1>3 DEF With
<1>5. \A g \in Fetches : \A x \in {"RUNNING", "QUEUED", "INCOMPLETE", "DISPOSED"} :
        x \in flags'[g] <=> x \in flags[g]
  BY <1>4
<1>6. \A g \in Fetches \ {f} : "POSTNOGOOD" \in flags'[g] <=> "POSTNOGOOD" \in flags[g]
  BY <1>4
<1>7. CASE todo' = <<s>> \o Left
  <2>1. ~Solo(s)
    BY <1>2, TagsApart DEF Solo
  <2>2. Adds({s}) /\ Orderly(todo')
    BY <1>2, <1>7, <2>1, ToldOne
  <2>3. \A c \in {s} : /\ c.f = f /\ c.op \in {"srcupdate", "dispose", "discard"}
                       /\ c.op # "discard" /\ c.op \notin Disposal
    BY <1>2 DEF Disposal
  <2>. QED  BY <1>5, <1>6, <2>2, <2>3, UrlTold
<1>8. CASE todo' = <<t, d>> \o Left
  <2>1. Adds({t, d}) /\ Orderly(todo') /\ Tells(t) /\ Before(todo', t, d)
    BY <1>2, <1>8, ToldTwo DEF Ending
  <2>2. \A c \in {t, d} : /\ c.f = f /\ c.op \in {"srcupdate", "dispose", "discard"}
                          /\ c.op # "discard"
    BY <1>2
  <2>3. \A c \in {t, d} : c.op \in Disposal => \E a \in {t, d} : Before(todo', a, c) /\ Tells(a)
    BY <1>2, <2>1 DEF Disposal
  <2>. QED  BY <1>5, <1>6, <2>1, <2>2, <2>3, UrlTold
<1>9. CASE todo' = <<>> \o Left
  <2>1. Adds({}) /\ Orderly(todo')
    BY <1>9, AddNone DEF UrlInv
  <2>. QED  BY <1>5, <1>6, <2>1, UrlTold
<1>. QED  BY <1>1, <1>7, <1>8, <1>9

LEMMA UrlCancelpointer ==
  ASSUME SlotsInv, UrlInv, NEW op \in CancelOps,
         \/ Cancelpointer(op, fetch) \/ Cancelpointer(op, rfetch) \/ Cancelpointer(op, vfetch)
  PROVE  UrlInv'
<1>1. /\ todo # <<>> /\ Head(todo).op \in CancelOps /\ ~Idle
      /\ UNCHANGED <<life, url, task, netqueue, localqueue, fetch, rfetch, vfetch>>
  BY DEF Cancelpointer, At, queueVars, urlVars, Idle
<1>2. U \in Urls
  BY <1>1, UrlHead DEF GoodCall, U, CancelOps, OfUrl
<1>3. CancelLeft
  BY <1>1 DEF CancelLeft
<1>4. /\ Orderly(todo) /\ CallsIn(Left) \subseteq CallsIn(todo)
      /\ Head(todo).f \notin Fetches
  BY <1>1, <1>3, CancelLeftFacts
<1>5. PICK p : /\ p \in {fetch[U], rfetch[U], vfetch[U]}
               /\ IF p = NoFetch THEN Do(<<>>) /\ UNCHANGED flags ELSE Cancel(p, Tail(todo))
  BY DEF Cancelpointer
<1>6. CASE p = NoFetch
  <2>1. Do(<<>>) /\ flags' = flags
    BY <1>5, <1>6
  <2>2. todo' = <<>> \o Left
    BY <1>1, <2>1, DoLeft
  <2>3. Adds({}) /\ Orderly(todo')
    BY <1>4, <2>2, AddNone
  <2>4. NewCalls'
    BY <1>1, <1>4, <2>3, NewCallsKept DEF Adds
  <2>. QED  BY <1>1, <1>4, <2>1, <2>3, <2>4, NoneTouched
<1>7. CASE p # NoFetch
  <2>1. p \in Fetches /\ life[p] = "live"
    <3>1. p \in Fetches
      BY <1>2, <1>5, <1>7, PointerFacts
    <3>. QED  BY <1>2, <1>5, <3>1 DEF UrlInv, PointersApart, Knows
  <2>2. Cancel(p, Tail(todo))
    BY <1>5, <1>7
  <2>3. todo' = CancelCalls(p) \o Left /\ flags' = With(p, {"CANCELLED"})
    BY <1>1, <2>2 DEF Cancel, CancelCalls, Left
  <2>. QED  BY <1>1, <1>3, <2>1, <2>3, UrlCancel
<1>. QED  BY <1>6, <1>7

LEMMA UrlCancelnetstat ==
  ASSUME SlotsInv, UrlInv, NEW f \in Fetches, Cancelnetstat(f)
  PROVE  UrlInv'
<1>1. /\ Idle /\ life[f] = "live" /\ Cancel(f, <<>>)
      /\ UNCHANGED <<life, url, task, netqueue, localqueue, fetch, rfetch, vfetch>>
  BY DEF Cancelnetstat, queueVars, urlVars
<1>2. todo' = CancelCalls(f) \o Left /\ flags' = With(f, {"CANCELLED"})
  BY <1>1 DEF Cancel, CancelCalls, Left
<1>. QED  BY <1>1, <1>2, UrlCancel DEF CancelLeft

LEMMA UrlDriverUpdate ==
  ASSUME SlotsInv, UrlInv, NEW f \in Fetches, DriverUpdate(f)
  PROVE  UrlInv'
<1>1. /\ Idle /\ life[f] = "live"
      /\ UNCHANGED <<life, url, task, netqueue, localqueue, fetch, rfetch, vfetch>>
  BY DEF DriverUpdate, UpdateData, UpdateError, UpdateMoved, UpdateNotmodified,
         UpdatePostnogood, Updatefetch, fetchVars, queueVars, urlVars
<1>2. CancelLeft /\ Orderly(todo)
  BY <1>1 DEF CancelLeft, UrlInv
<1>3. \/ flags' = flags \/ \E x \in {"NOTMODIFIED", "POSTNOGOOD"} : flags' = With(f, {x})
  BY DEF DriverUpdate, UpdateData, UpdateError, UpdateMoved, UpdateNotmodified,
         UpdatePostnogood, fetchVars
<1>4. flags \in [Fetches -> SUBSET Flags]
  BY DEF SlotsInv, TypeOK
<1>5. ASSUME NEW g \in Fetches
      PROVE  /\ \A x \in {"RUNNING", "QUEUED", "INCOMPLETE", "DISPOSED"} :
                  x \in flags'[g] <=> x \in flags[g]
             /\ g # f => ("POSTNOGOOD" \in flags'[g] <=> "POSTNOGOOD" \in flags[g])
  BY <1>3, <1>4 DEF With
<1>6. \A g \in Fetches : \A x \in {"RUNNING", "QUEUED", "INCOMPLETE", "DISPOSED"} :
        x \in flags'[g] <=> x \in flags[g]
  BY <1>5
<1>7. \A g \in Fetches \ {f} : "POSTNOGOOD" \in flags'[g] <=> "POSTNOGOOD" \in flags[g]
  BY <1>5
<1>8. \/ Event(<<>>)
      \/ \E tags \in {{"Data"}, {"Moved"}, {"Error"}} : Event(<<CallF("srcupdate", f, tags)>>)
  BY DEF DriverUpdate, UpdateData, UpdateError, UpdateMoved, UpdateNotmodified,
         UpdatePostnogood, Forward
<1>9. CASE Event(<<>>)
  <2>1. todo' = <<>> \o Left
    <3>1. <<>> \in Seq({})
      OBVIOUS
    <3>. QED  BY <1>9, <3>1, EventLeft
  <2>2. Adds({}) /\ Orderly(todo')
    BY <1>2, <2>1, AddNone
  <2>. QED  BY <1>1, <1>2, <1>6, <1>7, <2>2, UrlTold
<1>10. ASSUME NEW tags \in {{"Data"}, {"Moved"}, {"Error"}},
              Event(<<CallF("srcupdate", f, tags)>>)
       PROVE  UrlInv'
  <2>. DEFINE s == CallF("srcupdate", f, tags)
  <2>1. s.op = "srcupdate" /\ s.f = f /\ s.tags = tags /\ Event(<<s>>)
    BY <1>10, CallFields
  <2>. HIDE DEF s
  <2>2. todo' = <<s>> \o Left
    <3>1. <<s>> \in Seq({s})
      OBVIOUS
    <3>. QED  BY <2>1, <3>1, EventLeft
  <2>3. Adds({s}) /\ Orderly(todo')
    BY <1>1, <1>2, <2>1, <2>2, ToldOne
  <2>4. \A c \in {s} : /\ c.f = f /\ c.op \in {"srcupdate", "dispose", "discard"}
                       /\ c.op # "discard" /\ c.op \notin Disposal
    BY <2>1 DEF Disposal
  <2>. QED  BY <1>1, <1>2, <1>6, <1>7, <2>3, <2>4, UrlTold
<1>. QED  BY <1>8, <1>9, <1>10

-----------------------------------------------------------------------------
(* Who is in a queue. *)

\* Addtoqueue() puts f into the queue and takes none out.
LEMMA AddedIn ==
  ASSUME NEW q \in Seq(Fetches), NEW f \in Fetches, NEW image \in BOOLEAN
  PROVE  /\ In(Addtoqueue(q, f, image), f)
         /\ \A g : In(q, g) => In(Addtoqueue(q, f, image), g)
<1>. DEFINE k == CHOOSE i \in Images(q) : \A j \in Images(q) : i <= j
            r == Addtoqueue(q, f, image)
<1>1. Len(q) \in Nat
  OBVIOUS
<1>2. CASE image \/ Images(q) = {}
  <2>1. r = Append(q, f)
    BY <1>2 DEF Addtoqueue
  <2>2. /\ Len(r) = Len(q) + 1
        /\ \A i \in 1..Len(q) : r[i] = q[i]
        /\ r[Len(q) + 1] = f
    BY <2>1, PushFacts
  <2>. HIDE DEF r
  <2>3. Len(q) + 1 \in 1..Len(r) /\ \A i \in 1..Len(q) : i \in 1..Len(r)
    BY <1>1, <2>2
  <2>4. In(r, f)
    BY <2>2, <2>3 DEF In
  <2>5. \A g : In(q, g) => In(r, g)
    BY <2>2, <2>3 DEF In
  <2>. QED  BY <2>4, <2>5 DEF r
<1>3. CASE ~(image \/ Images(q) = {})
  <2>1. Images(q) \subseteq Nat /\ Images(q) # {} /\ Images(q) \subseteq 1..Len(q)
    BY <1>1, <1>3 DEF Images
  <2>2. \E i \in Images(q) : \A j \in Images(q) : i <= j
    BY <2>1, SmallestIn
  <2>3. k \in Images(q)
    BY <2>2
  <2>4. r = InsertAt(q, k, f)
    BY <1>3 DEF Addtoqueue
  <2>. HIDE DEF k
  <2>5. k \in 1..Len(q) /\ k \in Nat
    BY <2>1, <2>3
  <2>6. /\ Len(r) = Len(q) + 1
        /\ \A j \in 1..(Len(q) + 1) :
              r[j] = IF j < k THEN q[j] ELSE IF j = k THEN f ELSE q[j - 1]
    BY <2>4, <2>5, InsertAtFacts
  <2>. HIDE DEF r
  <2>7. In(r, f)
    <3>1. k \in 1..(Len(q) + 1) /\ ~(k < k)
      BY <1>1, <2>5
    <3>2. r[k] = f
      BY <2>6, <3>1
    <3>. QED  BY <2>6, <3>1, <3>2 DEF In
  <2>8. ASSUME NEW i \in 1..Len(q) PROVE \E j \in 1..Len(r) : r[j] = q[i]
    <3>1. CASE i < k
      <4>1. i \in 1..(Len(q) + 1)
        BY <1>1
      <4>. QED  BY <2>6, <3>1, <4>1
    <3>2. CASE ~(i < k)
      <4>1. i + 1 \in 1..(Len(q) + 1) /\ ~(i + 1 < k) /\ i + 1 # k /\ (i + 1) - 1 = i
        BY <1>1, <2>5, <3>2
      <4>2. r[i + 1] = q[i]
        BY <2>6, <4>1
      <4>. QED  BY <2>6, <4>1, <4>2
    <3>. QED  BY <3>1, <3>2
  <2>9. \A g : In(q, g) => In(r, g)
    BY <2>8 DEF In
  <2>. QED  BY <2>7, <2>9 DEF r
<1>. QED  BY <1>2, <1>3

\* Only the first one leaves a queue when the queue moves on.
LEMMA TailIn ==
  ASSUME NEW q \in Seq(Fetches), q # <<>>, NEW g, g # Head(q)
  PROVE  In(Tail(q), g) <=> In(q, g)
<1>. DEFINE t == Tail(q)
<1>1. Len(q) \in Nat \ {0} /\ Head(q) = q[1]
  BY EmptySeq
<1>2. Len(t) = Len(q) - 1 /\ \A i \in 1..(Len(q) - 1) : t[i] = q[i + 1]
  BY <1>1
<1>. HIDE DEF t
<1>3. ASSUME NEW i \in 1..Len(t), t[i] = g PROVE In(q, g)
  <2>1. i + 1 \in 1..Len(q) /\ t[i] = q[i + 1]
    BY <1>1, <1>2
  <2>. QED  BY <1>3, <2>1 DEF In
<1>4. ASSUME NEW i \in 1..Len(q), q[i] = g PROVE In(t, g)
  <2>1. i # 1
    BY <1>1, <1>4
  <2>2. i - 1 \in 1..(Len(q) - 1) /\ (i - 1) + 1 = i
    BY <1>1, <2>1
  <2>3. t[i - 1] = q[i]
    BY <1>2, <2>2
  <2>. QED  BY <1>2, <1>4, <2>2, <2>3 DEF In
<1>5. In(t, g) <=> In(q, g)
  BY <1>3, <1>4 DEF In
<1>. QED  BY <1>5 DEF t

\* REMOVE() takes out one fetch.
LEMMA UnlinkIn ==
  ASSUME NEW q \in Seq(Fetches), NEW f \in Fetches, NEW g, g # f
  PROVE  In(Unlink(q, f), g) <=> In(q, g)
<1>. DEFINE k == CHOOSE i \in Places(q, f) : TRUE
            r == RemoveAt(q, k)
<1>1. CASE Places(q, f) = {}
  BY <1>1 DEF Unlink
<1>2. CASE Places(q, f) # {}
  <2>1. k \in Places(q, f) /\ Unlink(q, f) = r
    BY <1>2 DEF Unlink
  <2>. HIDE DEF k
  <2>2. k \in 1..Len(q) /\ q[k] = f
    BY <2>1 DEF Places
  <2>3. /\ Len(r) = Len(q) - 1
        /\ \A j \in 1..(Len(q) - 1) : r[j] = IF j < k THEN q[j] ELSE q[j + 1]
    BY <2>2, RemoveAtFacts
  <2>4. Len(q) \in Nat
    OBVIOUS
  <2>. HIDE DEF r
  <2>5. ASSUME NEW i \in 1..Len(r), r[i] = g PROVE In(q, g)
    <3>1. i \in 1..Len(q) /\ i + 1 \in 1..Len(q) /\ r[i] \in {q[i], q[i + 1]}
      BY <2>3, <2>4
    <3>. QED  BY <2>5, <3>1 DEF In
  <2>6. ASSUME NEW i \in 1..Len(q), q[i] = g PROVE In(r, g)
    <3>1. i # k
      BY <2>2, <2>6
    <3>2. CASE i < k
      <4>1. i \in 1..(Len(q) - 1)
        BY <2>2, <2>4, <3>2
      <4>2. r[i] = q[i]
        BY <2>3, <3>2, <4>1
      <4>. QED  BY <2>3, <2>6, <4>1, <4>2 DEF In
    <3>3. CASE ~(i < k)
      <4>1. i - 1 \in 1..(Len(q) - 1) /\ ~(i - 1 < k) /\ (i - 1) + 1 = i
        BY <2>2, <2>4, <3>1, <3>3
      <4>2. r[i - 1] = q[i]
        BY <2>3, <4>1
      <4>. QED  BY <2>3, <2>6, <4>1, <4>2 DEF In
    <3>. QED  BY <3>2, <3>3
  <2>7. In(r, g) <=> In(q, g)
    BY <2>5, <2>6 DEF In
  <2>. QED  BY <2>1, <2>7
<1>. QED  BY <1>1, <1>2

\* After Startdriver() f runs or is queued, and no other fetch has changed.
LEMMA Started ==
  ASSUME SlotsInv, NEW f \in Fetches, NEW fs \in SUBSET Flags,
         ~In(netqueue, f), ~In(localqueue, f), "RUNNING" \notin fs, "QUEUED" \notin fs,
         Startdriver(f, fs)
  PROVE  /\ \A g \in Fetches \ {f} :
              /\ flags'[g] = flags[g] /\ task'[g] = task[g]
              /\ In(netqueue', g) <=> In(netqueue, g)
              /\ In(localqueue', g) <=> In(localqueue, g)
         /\ \A x \in {"INCOMPLETE", "DISPOSED", "POSTNOGOOD"} : x \in flags'[f] <=> x \in fs
         /\ "RUNNING" \in flags'[f] \/ "QUEUED" \in flags'[f]
         /\ "RUNNING" \in flags'[f] => task'[f]
         /\ "QUEUED" \in flags'[f] <=> In(netqueue', f) \/ In(localqueue', f)
<1>1. /\ flags \in [Fetches -> SUBSET Flags] /\ task \in [Fetches -> BOOLEAN]
      /\ netqueue \in Seq(Fetches) /\ localqueue \in Seq(Fetches)
      /\ Distinct(netqueue) /\ Distinct(localqueue)
  BY DEF SlotsInv, TypeOK, QueuesApart
<1>. DEFINE image == "IMAGE" \in fs
            nq == Addtoqueue(netqueue, f, image)
            lq == Addtoqueue(localqueue, f, image)
<1>2. image \in BOOLEAN
  OBVIOUS
<1>. HIDE DEF image
<1>3. /\ In(nq, f) /\ In(lq, f)
      /\ \A g \in Fetches \ {f} : In(nq, g) <=> In(netqueue, g)
      /\ \A g \in Fetches \ {f} : In(lq, g) <=> In(localqueue, g)
  BY <1>1, <1>2, AddedIn, AddtoqueueFacts
<1>4. \/ /\ flags' = [flags EXCEPT ![f] = fs \cup {"QUEUED"}] /\ task' = task
         /\ \/ localqueue' = lq /\ netqueue' = netqueue
            \/ netqueue' = nq /\ localqueue' = localqueue
      \/ /\ flags' = [flags EXCEPT ![f] = fs \cup {"RUNNING", "USESLOT"}]
         /\ task' = [task EXCEPT ![f] = TRUE]
         /\ netqueue' = netqueue /\ localqueue' = localqueue
  BY DEF Startdriver, Dostartdriver, image
<1>. HIDE DEF nq, lq
<1>5. \A g \in Fetches \ {f} : flags'[g] = flags[g] /\ task'[g] = task[g]
  BY <1>1, <1>4
<1>6. \A g \in Fetches \ {f} : /\ In(netqueue', g) <=> In(netqueue, g)
                               /\ In(localqueue', g) <=> In(localqueue, g)
  BY <1>3, <1>4
<1>7. CASE flags' = [flags EXCEPT ![f] = fs \cup {"QUEUED"}]
  <2>1. flags'[f] = fs \cup {"QUEUED"}
    BY <1>1, <1>7
  <2>2. In(netqueue', f) \/ In(localqueue', f)
    <3>1. flags' # [flags EXCEPT ![f] = fs \cup {"RUNNING", "USESLOT"}]
      <4>1. [flags EXCEPT ![f] = fs \cup {"RUNNING", "USESLOT"}][f] = fs \cup {"RUNNING", "USESLOT"}
        BY <1>1
      <4>. QED  BY <2>1, <4>1
    <3>. QED  BY <1>3, <1>4, <3>1
  <2>. QED  BY <1>5, <1>6, <2>1, <2>2
<1>8. CASE /\ flags' = [flags EXCEPT ![f] = fs \cup {"RUNNING", "USESLOT"}]
           /\ task' = [task EXCEPT ![f] = TRUE]
           /\ netqueue' = netqueue /\ localqueue' = localqueue
  <2>1. flags'[f] = fs \cup {"RUNNING", "USESLOT"} /\ task'[f] = TRUE
    BY <1>1, <1>8
  <2>. QED  BY <1>5, <1>6, <1>8, <2>1
<1>. QED  BY <1>4, <1>7, <1>8

-----------------------------------------------------------------------------
(* The calls of main that start a driver. *)

\* A flag says that a fetch waits for a slot exactly when it is in a queue.
LEMMA QueuedFlag ==
  ASSUME UrlInv, NEW f \in Fetches
  PROVE  "QUEUED" \in flags[f] <=> In(netqueue, f) \/ In(localqueue, f)
BY DEF UrlInv, FetchOk, Stated

LEMMA QueueCalls ==
  ASSUME NEW n, NEW l, n = CallF("netqueue", NoFetch, {}), l = CallF("localqueue", NoFetch, {})
  PROVE  /\ n.op = "netqueue" /\ l.op = "localqueue" /\ n.f = NoFetch /\ l.f = NoFetch
         /\ n.f \notin Fetches /\ l.f \notin Fetches
         /\ \A x \in {n, l} : /\ x.op \in OfQueues /\ x.f \notin Fetches /\ x.op \notin NewOps
                              /\ KnownCall(x) /\ ~Solo(x) /\ x.op \notin LateOps
                              /\ x.op \notin CancelOps /\ ~Tells(x)
<1>1. n.op = "netqueue" /\ l.op = "localqueue" /\ n.f = NoFetch /\ l.f = NoFetch
  BY CallFields
<1>2. NoFetch \notin Fetches
  BY FetchAssumption
<1>3. \A x \in {n, l} : x.op \in OfQueues /\ x.f = NoFetch /\ x.op \notin NewOps
  BY <1>1 DEF OfQueues, NewOps
<1>4. \A x \in {n, l} : /\ KnownCall(x) /\ ~Solo(x) /\ x.op \notin LateOps
                        /\ x.op \notin CancelOps /\ ~Tells(x)
  BY <1>3, PlainKind DEF OfQueues
<1>. QED  BY <1>1, <1>2, <1>3, <1>4

\* A post is tried again: main has nothing else to do after this call.
LEMMA UrlRetry ==
  ASSUME SlotsInv, UrlInv, Retry
  PROVE  UrlInv'
<1>1. PICK h, f : h = Head(todo) /\ f = F
  OBVIOUS
<1>2. /\ todo # <<>> /\ h.op = "retry" /\ h.f = f /\ ~Idle
      /\ UNCHANGED <<life, url, fetch, rfetch, vfetch>>
  BY <1>1 DEF Retry, At, urlVars, F, Idle
<1>3. /\ h.op \in LateOps /\ f \in Fetches /\ life[f] = "live"
      /\ "RUNNING" \in flags[f] /\ ~task[f] /\ "INCOMPLETE" \notin flags[f]
      /\ ~In(netqueue, f) /\ ~In(localqueue, f)
  BY <1>1, <1>2, EndsFacts
<1>4. CallsIn(Left) = {} /\ CallsIn(todo) = {h} /\ Orderly(todo)
  BY <1>1, <1>2, <1>3, SoloHead DEF UrlInv
<1>. DEFINE fs == flags[f] \ {"RUNNING", "POSTNOGOOD", "POST"}
<1>5. flags \in [Fetches -> SUBSET Flags]
  BY DEF SlotsInv, TypeOK
<1>6. /\ fs \in SUBSET Flags /\ "RUNNING" \notin fs /\ "QUEUED" \notin fs
      /\ "DISPOSED" \in fs <=> "DISPOSED" \in flags[f]
  BY <1>3, <1>5, QueuedFlag
<1>7. FetchOk(f)
  BY <1>3 DEF UrlInv
<1>8. Unknown(f)' <=> Unknown(f)
  BY <1>2 DEF Unknown, Knows
<1>9. \A g \in Fetches : SamePointers(g)
  BY <1>2, PointersKept
<1>10. CASE Startdriver(f, fs) /\ Do(<<>>)
  <2>. HIDE DEF fs
  <2>1. /\ \A g \in Fetches \ {f} :
             /\ flags'[g] = flags[g] /\ task'[g] = task[g]
             /\ In(netqueue', g) <=> In(netqueue, g)
             /\ In(localqueue', g) <=> In(localqueue, g)
        /\ \A x \in {"INCOMPLETE", "DISPOSED", "POSTNOGOOD"} : x \in flags'[f] <=> x \in fs
        /\ "RUNNING" \in flags'[f] \/ "QUEUED" \in flags'[f]
        /\ "RUNNING" \in flags'[f] => task'[f]
        /\ "QUEUED" \in flags'[f] <=> In(netqueue', f) \/ In(localqueue', f)
    BY <1>3, <1>6, <1>10, Started
  <2>2. todo' = <<>> \o Left
    BY <1>2, <1>10, DoLeft
  <2>3. Adds({}) /\ Orderly(todo') /\ CallsIn(todo') = {}
    BY <1>4, <2>2, AddNone
  <2>4. NewCalls'
    BY <2>3 DEF NewCalls
  <2>5. \A g \in Fetches : "DISPOSED" \in flags'[g] <=> "DISPOSED" \in flags[g]
    BY <1>6, <2>1
  <2>6. PointersApart'
    BY <1>2, <2>5, KeptInv
  <2>7. \A g \in Fetches \ {f} : SameState(g) /\ SamePointers(g)
    BY <1>2, <1>9, <2>1 DEF SameState
  <2>8. \A g \in Fetches \ {f} : FetchOk(g)'
    BY <1>1, <1>2, <2>3, <2>7, OthersOk
  <2>9. CallsFit(f)' /\ OutOfQueues(f)' /\ Forgotten(f)'
    BY <2>3 DEF CallsFit, OutOfQueues, Forgotten
  <2>10. Remembered(f)'
    <3>1. "DISPOSED" \in flags[f] \/ ~Unknown(f)
      BY <1>2, <1>3, <1>4, <1>7 DEF FetchOk, Remembered, Disposal
    <3>. QED  BY <1>3, <1>8, <2>5, <3>1 DEF Remembered
  <2>11. Stated(f)'
    <3>1. flags'[f] \cap {"RUNNING", "QUEUED", "INCOMPLETE"} # {}
      BY <2>1
    <3>. QED  BY <2>1, <3>1 DEF Stated
  <2>. QED  BY <2>3, <2>4, <2>6, <2>8, <2>9, <2>10, <2>11 DEF UrlInv, FetchOk
<1>11. CASE /\ flags' = [flags EXCEPT ![f] = fs]
            /\ Do(<<CallF("srcupdate", f, {"Terminate"})>> \o Checkqueues
                  \o <<CallF("dispose", f, {})>>)
            /\ UNCHANGED <<task, stop, queueVars>>
  <2>. DEFINE s == CallF("srcupdate", f, {"Terminate"})
              n == CallF("netqueue", NoFetch, {})
              l == CallF("localqueue", NoFetch, {})
              d == CallF("dispose", f, {})
  <2>1. Do((<<s>> \o <<n, l>>) \o <<d>>)
    BY <1>11 DEF Checkqueues
  <2>2. /\ s.op = "srcupdate" /\ s.f = f /\ s.tags = {"Terminate"}
        /\ d.op = "dispose" /\ d.f = f
    BY CallFields
  <2>3. /\ n.f \notin Fetches /\ l.f \notin Fetches /\ n.op = "netqueue" /\ l.op = "localqueue"
        /\ \A x \in {n, l} : /\ x.op \in OfQueues /\ x.f \notin Fetches /\ x.op \notin NewOps
                             /\ KnownCall(x) /\ ~Solo(x) /\ x.op \notin LateOps
                             /\ x.op \notin CancelOps /\ ~Tells(x)
    BY QueueCalls
  <2>. HIDE DEF s, n, l, d
  <2>4. todo' = <<s, n, l, d>> \o Left
    <3>1. Do(<<s, n, l, d>>)
      BY <2>1, ConcatChain
    <3>. QED  BY <1>2, <3>1, DoLeft
  <2>5. Tells(s) /\ KnownCall(s) /\ ~Solo(s) /\ s.op \notin LateOps /\ s.op \notin CancelOps
    BY <2>2, TagsApart DEF Tells, KnownCall, Solo, LateOps, CancelOps, OfUrl, OfQueues
  <2>6. KnownCall(d) /\ ~Solo(d) /\ d.op \notin LateOps /\ d.op \notin CancelOps /\ ~Tells(d)
    BY <2>2, PlainKind
  <2>7. \A x \in {n, l, d} : x.op \notin NewOps
    BY <2>2, <2>3 DEF NewOps
  <2>8. Precedes(d, CallsIn(Left)) /\ Precedes(l, {d} \cup CallsIn(Left))
        /\ Precedes(n, {l, d} \cup CallsIn(Left))
    <3>1. Precedes(d, CallsIn(Left))
      BY <1>4, <2>6, PrecedesPlain
    <3>2. \A b \in {d} \cup CallsIn(Left) : b.op \notin NewOps
      BY <1>4, <2>7
    <3>3. \A b \in {l, d} \cup CallsIn(Left) : b.op \notin NewOps
      BY <1>4, <2>7
    <3>4. Precedes(l, {d} \cup CallsIn(Left))
      BY <2>3, <3>2, PrecedesPlain
    <3>5. Precedes(n, {l, d} \cup CallsIn(Left))
      BY <2>3, <3>3, PrecedesPlain
    <3>. QED  BY <3>1, <3>4, <3>5
  <2>9. Precedes(s, {n, l, d} \cup CallsIn(Left))
    <3>1. MayFollow(s, d) /\ d.op \in Disposal
      BY <2>2 DEF MayFollow, Disposal
    <3>2. \A b \in {n, l, d} : s.f = b.f /\ s.f \in Fetches => MayFollow(s, b)
      BY <1>3, <2>2, <2>3, <3>1
    <3>. QED  BY <1>4, <2>2, <2>5, <2>7, <3>1, <3>2, PrecedesPlain
  <2>10. Adds({s, n, l, d}) /\ Orderly(todo') /\ Before(todo', s, d)
    BY <1>4, <2>4, <2>8, <2>9, AddFour
  <2>11. CallsIn(todo') = {s, n, l, d}
    BY <1>4, <2>10 DEF Adds
  <2>12. NewCalls'
    BY <2>2, <2>7, <2>11 DEF NewCalls, NewOps
  <2>13. /\ flags'[f] = fs /\ \A g \in Fetches \ {f} : flags'[g] = flags[g]
         /\ task' = task /\ netqueue' = netqueue /\ localqueue' = localqueue
    <3>. HIDE DEF fs
    <3>1. flags' = [flags EXCEPT ![f] = fs]
      BY <1>11
    <3>2. flags'[f] = fs
      BY <1>3, <1>5, <3>1
    <3>3. \A g \in Fetches \ {f} : flags'[g] = flags[g]
      BY <1>5, <3>1
    <3>. QED  BY <1>11, <3>2, <3>3 DEF queueVars
  <2>14. \A g \in Fetches : "DISPOSED" \in flags'[g] <=> "DISPOSED" \in flags[g]
    BY <1>6, <2>13
  <2>15. PointersApart'
    BY <1>2, <2>14, KeptInv
  <2>16. \A g \in Fetches \ {f} : SameState(g) /\ SamePointers(g)
    BY <1>2, <1>9, <2>13 DEF SameState
  <2>17. \A g \in Fetches \ {f} : FetchOk(g)'
    <3>1. \A c \in {s, n, l, d} : c.f \notin Fetches \ {f}
      BY <2>2, <2>3
    <3>. QED  BY <1>1, <1>2, <1>4, <2>10, <2>16, <3>1, OthersOk
  <2>18. CallsFit(f)'
    BY <1>2, <1>3, <2>2, <2>3, <2>11 DEF CallsFit
  <2>19. OutOfQueues(f)'
    BY <1>3, <2>13 DEF OutOfQueues
  <2>20. Forgotten(f)'
    <3>1. ASSUME NEW b \in CallsIn(todo'), b.f = f, b.op \in Disposal PROVE b = d
      BY <1>3, <2>2, <2>3, <2>11, <3>1 DEF Disposal
    <3>. QED  BY <2>2, <2>5, <2>10, <2>11, <3>1 DEF Forgotten
  <2>21. Remembered(f)' /\ Stated(f)'
    <3>1. d \in CallsIn(todo') /\ d.f = f /\ d.op = "dispose" /\ d.op \in Disposal
      BY <2>2, <2>11 DEF Disposal
    <3>. QED  BY <1>3, <1>6, <2>13, <3>1 DEF Remembered, Stated
  <2>. QED  BY <2>10, <2>12, <2>15, <2>17, <2>18, <2>19, <2>20, <2>21 DEF UrlInv, FetchOk
<1>. QED  BY <1>1, <1>10, <1>11 DEF Retry

LEMMA UrlIncompletereturn ==
  ASSUME SlotsInv, UrlInv, NEW f \in Fetches, Incompletereturn(f)
  PROVE  UrlInv'
<1>1. /\ Idle /\ life[f] = "live" /\ "INCOMPLETE" \in flags[f]
      /\ UNCHANGED <<life, url, fetch, rfetch, vfetch>>
  BY DEF Incompletereturn, Event, Has, urlVars
<1>2. CancelLeft /\ Orderly(todo) /\ CallsIn(Left) = {} /\ CallsIn(todo) = {}
  BY <1>1, UrlIdle DEF CancelLeft
<1>3. ASSUME NEW tags \in {{"Error", "Terminate"}, {"Terminate"}},
             Event(<<CallF("srcupdate", f, tags), CallF("discard", f, {})>>),
             UNCHANGED <<flags, task, stop, queueVars>>
      PROVE  UrlInv'
  <2>. DEFINE s == CallF("srcupdate", f, tags)
              d == CallF("discard", f, {})
  <2>1. /\ s.op = "srcupdate" /\ s.f = f /\ s.tags \in Ending /\ d.op = "discard" /\ d.f = f
        /\ Event(<<s, d>>)
    BY <1>3, CallFields DEF Ending
  <2>. HIDE DEF s, d
  <2>2. todo' = <<s, d>> \o Left
    <3>1. <<s, d>> \in Seq({s, d})
      OBVIOUS
    <3>. QED  BY <2>1, <3>1, EventLeft
  <2>3. Adds({s, d}) /\ Orderly(todo') /\ Tells(s) /\ Before(todo', s, d)
    BY <1>2, <2>1, <2>2, ToldTwo
  <2>4. \A c \in {s, d} : c.f = f /\ c.op \in {"srcupdate", "dispose", "discard"}
    BY <2>1
  <2>5. \A c \in {s, d} : c.op \in Disposal => \E a \in {s, d} : Before(todo', a, c) /\ Tells(a)
    BY <2>1, <2>3 DEF Disposal
  <2>6. UNCHANGED <<task, netqueue, localqueue>> /\ flags' = flags
    BY <1>3 DEF queueVars
  <2>. QED  BY <1>1, <1>2, <2>3, <2>4, <2>5, <2>6, UrlTold
<1>4. ASSUME Event(<<CallF("srcupdate", f, {"Reload"}), CallF("resume", f, {})>>),
             Startdriver(f, flags[f])
      PROVE  UrlInv'
  <2>. DEFINE s == CallF("srcupdate", f, {"Reload"})
              r == CallF("resume", f, {})
  <2>1. /\ s.op = "srcupdate" /\ s.f = f /\ s.tags = {"Reload"} /\ r.op = "resume" /\ r.f = f
        /\ Event(<<s, r>>)
    BY <1>4, CallFields
  <2>. HIDE DEF s, r
  <2>2. todo' = <<s, r>> \o Left
    <3>1. <<s, r>> \in Seq({s, r})
      OBVIOUS
    <3>. QED  BY <2>1, <3>1, EventLeft
  <2>3. /\ ~Tells(s) /\ KnownCall(s) /\ ~Solo(s) /\ s.op \notin LateOps /\ s.op \notin CancelOps
        /\ ~Tells(r) /\ KnownCall(r) /\ r.op \notin NewOps /\ MayFollow(s, r)
    BY <2>1, TagsApart DEF Tells, KnownCall, Solo, LateOps, CancelOps, OfUrl, OfQueues, NewOps,
                           MayFollow
  <2>4. Precedes(r, CallsIn(Left)) /\ Precedes(s, {r} \cup CallsIn(Left))
    <3>1. Precedes(r, CallsIn(Left))
      BY <1>2, <2>3 DEF Precedes
    <3>. QED  BY <1>2, <2>3, <3>1, PrecedesPlain
  <2>5. Adds({s, r}) /\ Orderly(todo')
    BY <1>2, <2>2, <2>4, AddTwo
  <2>6. CallsIn(todo') = {s, r}
    BY <1>2, <2>5 DEF Adds
  <2>7. NewCalls'
    BY <2>1, <2>6 DEF NewCalls
  <2>8. ~In(netqueue, f) /\ ~In(localqueue, f) /\ "RUNNING" \notin flags[f]
    <3>1. ~Resumes(todo, f)
      BY <1>1, IdleFacts
    <3>. QED  BY <1>1, <3>1 DEF SlotsInv, WaitsApart
  <2>9. flags[f] \in SUBSET Flags /\ "QUEUED" \notin flags[f]
    BY <2>8, QueuedFlag DEF SlotsInv, TypeOK
  <2>10. /\ \A g \in Fetches \ {f} :
              /\ flags'[g] = flags[g] /\ task'[g] = task[g]
              /\ In(netqueue', g) <=> In(netqueue, g)
              /\ In(localqueue', g) <=> In(localqueue, g)
         /\ \A x \in {"INCOMPLETE", "DISPOSED", "POSTNOGOOD"} : x \in flags'[f] <=> x \in flags[f]
         /\ "RUNNING" \in flags'[f] \/ "QUEUED" \in flags'[f]
         /\ "RUNNING" \in flags'[f] => task'[f]
         /\ "QUEUED" \in flags'[f] <=> In(netqueue', f) \/ In(localqueue', f)
    BY <1>4, <2>8, <2>9, Started
  <2>11. \A g \in Fetches : "DISPOSED" \in flags'[g] <=> "DISPOSED" \in flags[g]
    BY <2>10
  <2>12. PointersApart'
    BY <1>1, <2>11, KeptInv
  <2>13. \A g \in Fetches : SamePointers(g)
    BY <1>1, PointersKept
  <2>14. \A g \in Fetches \ {f} : SameState(g) /\ SamePointers(g)
    BY <1>1, <2>10, <2>13 DEF SameState
  <2>15. \A g \in Fetches \ {f} : FetchOk(g)'
    <3>1. \A c \in {s, r} : c.f \notin Fetches \ {f} /\ c.op \notin OfQueues
      BY <2>1 DEF OfQueues
    <3>. QED  BY <1>1, <2>5, <2>14, <3>1, OthersOk
  <2>16. CallsFit(f)'
    BY <1>1, <2>1, <2>6, <2>10 DEF CallsFit
  <2>17. OutOfQueues(f)' /\ Forgotten(f)'
    BY <2>1, <2>6 DEF OutOfQueues, Forgotten, OfQueues, Disposal
  <2>18. Remembered(f)'
    <3>1. "DISPOSED" \in flags[f] \/ ~Unknown(f)
      BY <1>1, <1>2 DEF UrlInv, FetchOk, Remembered
    <3>2. Unknown(f)' <=> Unknown(f)
      BY <1>1 DEF Unknown, Knows
    <3>. QED  BY <2>11, <3>1, <3>2 DEF Remembered
  <2>19. Stated(f)'
    <3>1. flags'[f] \cap {"RUNNING", "QUEUED", "INCOMPLETE"} # {}
      BY <2>10
    <3>. QED  BY <2>10, <3>1 DEF Stated
  <2>. QED  BY <2>5, <2>7, <2>12, <2>15, <2>16, <2>17, <2>18, <2>19 DEF UrlInv, FetchOk
<1>. QED  BY <1>3, <1>4 DEF Incompletereturn

\* A fetch that is new is used nowhere.
LEMMA NewUnused ==
  ASSUME SlotsInv, UrlInv, NEW f \in Fetches, life[f] = "new"
  PROVE  /\ \A c \in CallsIn(todo) : c.f # f
         /\ Unknown(f)
<1>1. ASSUME NEW c \in CallsIn(todo) PROVE c.f # f
  BY DEF CallsIn, SlotsInv, Known, GoodCalls, GoodCall
<1>2. Unknown(f)
  BY DEF UrlInv, PointersApart, Unknown
<1>. QED  BY <1>1, <1>2

LEMMA UrlNewfetch ==
  ASSUME SlotsInv, UrlInv, NEW op \in NewOps, Newfetch(op)
  PROVE  UrlInv'
<1>1. PICK h, u : h = Head(todo) /\ u = U
  OBVIOUS
<1>2. todo # <<>> /\ h.op = op /\ h.u = u /\ Do(<<>>)
  BY <1>1 DEF Newfetch, At, U
<1>3. /\ Orderly(todo) /\ ~Idle /\ h \in CallsIn(todo) /\ CallsIn(Left) \subseteq CallsIn(todo)
      /\ h.f = NoFetch /\ u \in Urls
      /\ \A b \in CallsIn(Left) : InOrder(h, b)
  BY <1>1, <1>2, UrlHead DEF KnownCall, OfUrl, NewOps, GoodCall
<1>4. todo' = <<>> \o Left
  BY <1>2, DoLeft
<1>5. Adds({}) /\ Orderly(todo') /\ CallsIn(todo') = CallsIn(Left)
  BY <1>3, <1>4, AddNone
<1>6. NoFetch \notin Fetches
  BY FetchAssumption
<1>7. CASE UNCHANGED <<fetchVars, queueVars, fetch, rfetch, vfetch>>
  <2>1. UNCHANGED <<life, flags, url, task, netqueue, localqueue, fetch, rfetch, vfetch>>
    BY <1>7 DEF fetchVars, queueVars
  <2>2. NewCalls'
    BY <1>3, <1>5, <2>1, NewCallsKept
  <2>. QED  BY <1>1, <1>3, <1>5, <1>6, <2>1, <2>2, NoneTouched
<1>8. ASSUME NEW f \in Fetches, NEW fs \in NewFlags(op), life[f] = "new",
             life' = [life EXCEPT ![f] = "live"],
             url' = [url EXCEPT ![f] = u],
             Startdriver(f, fs \ {"none"}),
             fetch' = IF op = "newfetch" THEN [fetch EXCEPT ![u] = f] ELSE fetch,
             rfetch' = IF op = "newrfetch" THEN [rfetch EXCEPT ![u] = f] ELSE rfetch,
             vfetch' = IF op = "newvfetch" THEN [vfetch EXCEPT ![u] = f] ELSE vfetch
      PROVE  UrlInv'
  <2>. DEFINE gs == fs \ {"none"}
  <2>1. /\ gs \in SUBSET Flags /\ "RUNNING" \notin gs /\ "QUEUED" \notin gs /\ "DISPOSED" \notin gs
    <3>1. gs \in SUBSET Flags /\ "RUNNING" \notin gs
      BY NewFlagsFacts
    <3>2. fs \subseteq {"NETSLOT", "LOCALSLOT", "none", "IMAGE", "POST", "VALIDATE"}
      <4>1. PICK slot \in {"NETSLOT", "LOCALSLOT", "none"}, traits \in SUBSET {"IMAGE", "POST"} :
              fs = {slot} \cup traits \/ fs = {slot} \cup traits \cup {"VALIDATE"}
        BY FetchAssumption DEF NewFlags
      <4>. QED  BY <4>1
    <3>. QED  BY <3>1, <3>2
  <2>. HIDE DEF gs
  <2>2. Startdriver(f, gs)
    BY <1>8 DEF gs
  <2>3. flags[f] = {} /\ ~task[f] /\ ~In(netqueue, f) /\ ~In(localqueue, f)
    BY <1>8, NewFacts
  <2>4. /\ \A g \in Fetches \ {f} :
             /\ flags'[g] = flags[g] /\ task'[g] = task[g]
             /\ In(netqueue', g) <=> In(netqueue, g)
             /\ In(localqueue', g) <=> In(localqueue, g)
        /\ \A x \in {"INCOMPLETE", "DISPOSED", "POSTNOGOOD"} : x \in flags'[f] <=> x \in gs
        /\ "RUNNING" \in flags'[f] \/ "QUEUED" \in flags'[f]
        /\ "RUNNING" \in flags'[f] => task'[f]
        /\ "QUEUED" \in flags'[f] <=> In(netqueue', f) \/ In(localqueue', f)
    BY <2>1, <2>2, <2>3, Started
  <2>5. /\ life \in [Fetches -> {"new", "live", "freed"}]
        /\ url \in [Fetches -> Urls \cup {NoUrl}]
        /\ fetch \in [Urls -> Fetches \cup {NoFetch}]
        /\ rfetch \in [Urls -> Fetches \cup {NoFetch}]
        /\ vfetch \in [Urls -> Fetches \cup {NoFetch}]
    BY DEF SlotsInv, TypeOK
  <2>6. /\ life'[f] = "live" /\ url'[f] = u
        /\ \A g \in Fetches \ {f} : life'[g] = life[g] /\ url'[g] = url[g]
    BY <1>8, <2>5
  <2>7. (\A c \in CallsIn(todo) : c.f # f) /\ Unknown(f)
    BY <1>8, NewUnused
  <2>8. /\ op \in {"newfetch", "newrfetch"} =>
             fetch[u] = NoFetch /\ rfetch[u] = NoFetch /\ vfetch[u] = NoFetch
        /\ op = "newvfetch" => fetch[u] = NoFetch /\ vfetch[u] = NoFetch
    BY <1>2, <1>3 DEF UrlInv, NewCalls, Loading
  <2>9. ASSUME NEW v \in Urls, v # u
        PROVE  fetch'[v] = fetch[v] /\ rfetch'[v] = rfetch[v] /\ vfetch'[v] = vfetch[v]
    BY <1>8, <2>5, <2>9
  <2>10. /\ fetch'[u] = IF op = "newfetch" THEN f ELSE fetch[u]
         /\ rfetch'[u] = IF op = "newrfetch" THEN f ELSE rfetch[u]
         /\ vfetch'[u] = IF op = "newvfetch" THEN f ELSE vfetch[u]
    BY <1>3, <1>8, <2>5
  <2>11. ASSUME NEW g \in Fetches \ {f} PROVE SamePointers(g)
    <3>1. ASSUME NEW v \in Urls PROVE Knows(v, g)' <=> Knows(v, g)
      <4>1. CASE v = u
        BY <1>6, <2>8, <2>10, <2>11, <4>1 DEF Knows, NewOps
      <4>2. CASE v # u
        BY <2>9, <4>2 DEF Knows
      <4>. QED  BY <4>1, <4>2
    <3>. QED  BY <3>1 DEF SamePointers
  <2>12. /\ Knows(u, f)'
         /\ \A v \in Urls : Knows(v, f)' => v = u
    <3>1. Knows(u, f)'
      BY <2>10 DEF Knows, NewOps
    <3>2. ASSUME NEW v \in Urls, v # u PROVE ~Knows(v, f)'
      <4>1. ~Knows(v, f)
        BY <2>7 DEF Unknown
      <4>. QED  BY <2>9, <3>2, <4>1 DEF Knows
    <3>. QED  BY <3>1, <3>2
  <2>13. PointersApart'
    <3>. SUFFICES ASSUME NEW v \in Urls
                  PROVE  /\ \A g \in Fetches : Knows(v, g)' =>
                              life'[g] = "live" /\ url'[g] = v /\ "DISPOSED" \notin flags'[g]
                         /\ fetch'[v] # NoFetch => rfetch'[v] = NoFetch /\ vfetch'[v] = NoFetch
                         /\ rfetch'[v] # NoFetch => rfetch'[v] # vfetch'[v]
      BY DEF PointersApart
    <3>1. ASSUME NEW g \in Fetches, Knows(v, g)'
          PROVE  life'[g] = "live" /\ url'[g] = v /\ "DISPOSED" \notin flags'[g]
      <4>1. CASE g = f
        BY <2>1, <2>4, <2>6, <2>12, <3>1, <4>1
      <4>2. CASE g # f
        <5>1. Knows(v, g)
          BY <2>11, <3>1, <4>2 DEF SamePointers
        <5>. QED  BY <2>4, <2>6, <4>2, <5>1 DEF UrlInv, PointersApart
      <4>. QED  BY <4>1, <4>2
    <3>2. /\ fetch'[v] # NoFetch => rfetch'[v] = NoFetch /\ vfetch'[v] = NoFetch
          /\ rfetch'[v] # NoFetch => rfetch'[v] # vfetch'[v]
      <4>1. CASE v = u
        <5>1. rfetch[u] # f
          BY <1>3, <2>7 DEF Unknown, Knows
        <5>. QED  BY <1>6, <2>8, <2>10, <4>1, <5>1 DEF NewOps
      <4>2. CASE v # u
        BY <2>9, <4>2 DEF UrlInv, PointersApart
      <4>. QED  BY <4>1, <4>2
    <3>. QED  BY <3>1, <3>2
  <2>14. NewCalls'
    <3>. SUFFICES ASSUME NEW c \in CallsIn(todo'), c.op \in NewOps
                  PROVE  /\ c.op \in {"newfetch", "newrfetch"} => Loading(c.u)' = FALSE
                         /\ c.op = "newvfetch" => fetch'[c.u] = NoFetch /\ vfetch'[c.u] = NoFetch
      BY DEF NewCalls, NewOps
    <3>1. InOrder(h, c) /\ c \in CallsIn(todo)
      BY <1>3, <1>5
    <3>2. c.op = "newvfetch" /\ op = "newrfetch"
      BY <1>2, <3>1 DEF InOrder, NewOps
    <3>3. fetch[c.u] = NoFetch /\ vfetch[c.u] = NoFetch
      BY <3>1, <3>2 DEF UrlInv, NewCalls
    <3>4. fetch' = fetch /\ vfetch' = vfetch
      BY <1>8, <3>2
    <3>. QED  BY <3>2, <3>3, <3>4
  <2>15. \A g \in Fetches \ {f} : SameState(g) /\ SamePointers(g)
    <3>1. ASSUME NEW g \in Fetches \ {f} PROVE SameState(g)
      BY <2>4, <2>6 DEF SameState
    <3>. QED  BY <2>11, <3>1
  <2>16. \A g \in Fetches \ {f} : FetchOk(g)'
    BY <1>1, <1>3, <1>5, <1>6, <2>15, OthersOk
  <2>17. \A c \in CallsIn(todo') : c.f # f
    BY <1>3, <1>5, <2>7
  <2>18. CallsFit(f)' /\ OutOfQueues(f)' /\ Forgotten(f)'
    BY <2>17 DEF CallsFit, OutOfQueues, Forgotten
  <2>19. Remembered(f)'
    BY <1>3, <2>12 DEF Remembered, Unknown
  <2>20. Stated(f)'
    <3>1. flags'[f] \cap {"RUNNING", "QUEUED", "INCOMPLETE"} # {}
      BY <2>4
    <3>. QED  BY <2>4, <3>1 DEF Stated
  <2>. QED  BY <1>5, <2>13, <2>14, <2>16, <2>18, <2>19, <2>20 DEF UrlInv, FetchOk
<1>. QED  BY <1>1, <1>7, <1>8 DEF Newfetch

-----------------------------------------------------------------------------
(* Checkqueues(). *)

\* One round of a loop: the first of the queue leaves it, and runs or is
\* disposed of.
LEMMA UrlNextOf ==
  ASSUME SlotsInv, UrlInv, todo # <<>>, Head(todo).op \in OfQueues, NEW f \in Fetches,
         In(netqueue, f) \/ In(localqueue, f), life[f] = "live", "RUNNING" \notin flags[f],
         UNCHANGED <<life, url, fetch, rfetch, vfetch>>,
         ~In(netqueue', f), ~In(localqueue', f),
         \A g \in Fetches \ {f} : In(netqueue', g) <=> In(netqueue, g),
         \A g \in Fetches \ {f} : In(localqueue', g) <=> In(localqueue, g),
         \/ Dostartdriver(f, flags[f] \ {"QUEUED"}) /\ todo' = todo
         \/ /\ flags' = Without(f, {"QUEUED"}) /\ task' = task
            /\ Do(<<CallF("srcupdate", f, {"Terminate"}), CallF("dispose", f, {}), Head(todo)>>)
  PROVE  UrlInv'
<1>1. PICK h : h = Head(todo)
  OBVIOUS
<1>2. /\ Orderly(todo) /\ ~Idle /\ CallsIn(todo) = {h} \cup CallsIn(Left)
      /\ Precedes(h, CallsIn(Left)) /\ \A b \in CallsIn(Left) : InOrder(h, b)
      /\ \A x, y : Before(todo, x, y) <=>
           (x = h /\ y \in CallsIn(Left)) \/ Before(Left, x, y)
      /\ h.op \in OfQueues /\ h.f = NoFetch
  BY <1>1, UrlHead DEF KnownCall
<1>3. NoFetch \notin Fetches
  BY FetchAssumption
<1>4. FetchOk(f) /\ \A c \in CallsIn(todo) : c.f # f
  BY <1>2 DEF UrlInv, FetchOk, OutOfQueues
<1>5. flags \in [Fetches -> SUBSET Flags] /\ task \in [Fetches -> BOOLEAN]
  BY DEF SlotsInv, TypeOK
<1>6. \A g \in Fetches : SamePointers(g)
  BY PointersKept
<1>7. Unknown(f)' <=> Unknown(f)
  BY DEF Unknown, Knows
<1>8. "DISPOSED" \in flags[f] \/ ~Unknown(f)
  BY <1>4 DEF FetchOk, Remembered
<1>. DEFINE fs == flags[f] \ {"QUEUED"}
<1>9. CASE Dostartdriver(f, fs) /\ todo' = todo
  <2>1. flags' = [flags EXCEPT ![f] = fs \cup {"RUNNING", "USESLOT"}] /\ task' = [task EXCEPT ![f] = TRUE]
    BY <1>9 DEF Dostartdriver
  <2>2. /\ "RUNNING" \in flags'[f] /\ "QUEUED" \notin flags'[f] /\ task'[f]
        /\ "DISPOSED" \in flags'[f] <=> "DISPOSED" \in flags[f]
    BY <1>5, <2>1
  <2>. HIDE DEF fs
  <2>3. \A g \in Fetches \ {f} : flags'[g] = flags[g] /\ task'[g] = task[g]
    BY <1>5, <2>1
  <2>4. Adds({h}) /\ Orderly(todo')
    BY <1>2, <1>9 DEF Adds
  <2>5. NewCalls'
    BY <1>9, NewCallsKept
  <2>6. \A g \in Fetches : "DISPOSED" \in flags'[g] <=> "DISPOSED" \in flags[g]
    BY <2>2, <2>3
  <2>7. PointersApart'
    BY <2>6, KeptInv
  <2>8. \A g \in Fetches \ {f} : SameState(g) /\ SamePointers(g)
    BY <1>6, <2>3 DEF SameState
  <2>9. \A g \in Fetches \ {f} : FetchOk(g)'
    <3>1. \A c \in {h} : c.f \notin Fetches \ {f} /\ c \in CallsIn(todo)
      BY <1>2, <1>3
    <3>. QED  BY <1>1, <1>2, <1>3, <2>4, <2>8, <3>1, OthersOk
  <2>10. \A c \in CallsIn(todo') : c.f # f
    BY <1>4, <1>9
  <2>11. CallsFit(f)' /\ OutOfQueues(f)' /\ Forgotten(f)'
    BY <2>10 DEF CallsFit, OutOfQueues, Forgotten
  <2>12. Remembered(f)'
    BY <1>7, <1>8, <2>2 DEF Remembered
  <2>13. Stated(f)'
    BY <2>2 DEF Stated
  <2>. QED  BY <2>4, <2>5, <2>7, <2>9, <2>11, <2>12, <2>13 DEF UrlInv, FetchOk
<1>10. CASE /\ flags' = Without(f, {"QUEUED"}) /\ task' = task
            /\ Do(<<CallF("srcupdate", f, {"Terminate"}), CallF("dispose", f, {}), h>>)
  <2>. DEFINE s == CallF("srcupdate", f, {"Terminate"})
              d == CallF("dispose", f, {})
  <2>1. /\ s.op = "srcupdate" /\ s.f = f /\ s.tags = {"Terminate"} /\ d.op = "dispose" /\ d.f = f
        /\ Do(<<s, d, h>>)
    BY <1>10, CallFields
  <2>. HIDE DEF s, d
  <2>2. todo' = <<s, d, h>> \o Left
    BY <2>1, DoLeft
  <2>3. Tells(s) /\ KnownCall(s) /\ ~Solo(s) /\ s.op \notin LateOps /\ s.op \notin CancelOps
    BY <2>1, TagsApart DEF Tells, KnownCall, Solo, LateOps, CancelOps, OfUrl, OfQueues
  <2>4. KnownCall(d) /\ ~Solo(d) /\ d.op \notin LateOps /\ d.op \notin CancelOps /\ ~Tells(d)
    BY <2>1, PlainKind
  <2>5. \A b \in {h} \cup CallsIn(Left) : b.op \notin NewOps /\ b.f # f
    BY <1>2, <1>4 DEF InOrder, OfQueues, NewOps
  <2>6. d.op \notin NewOps /\ MayFollow(s, d) /\ d.op \in Disposal
    BY <2>1 DEF NewOps, MayFollow, Disposal
  <2>7. Precedes(d, {h} \cup CallsIn(Left))
    BY <2>1, <2>4, <2>5, PrecedesPlain
  <2>8. Precedes(s, {d, h} \cup CallsIn(Left))
    <3>1. \A b \in {d, h} \cup CallsIn(Left) : b.op \notin NewOps
      BY <2>5, <2>6
    <3>2. \A b \in {d, h} \cup CallsIn(Left) : s.f = b.f => MayFollow(s, b)
      BY <2>1, <2>5, <2>6
    <3>. QED  BY <2>1, <2>3, <2>6, <3>1, <3>2, PrecedesPlain
  <2>9. /\ Adds({s, d, h}) /\ Orderly(todo') /\ Before(todo', s, d)
    BY <1>2, <2>2, <2>7, <2>8, AddThree
  <2>10. CallsIn(todo') = {s, d} \cup CallsIn(todo)
    BY <1>2, <2>9 DEF Adds
  <2>11. NewCalls'
    <3>1. \A c \in CallsIn(todo') : c.op \in NewOps => c \in CallsIn(todo)
      BY <2>1, <2>6, <2>10 DEF NewOps
    <3>. QED  BY <3>1, NewCallsKept
  <2>12. /\ flags'[f] = fs
         /\ \A g \in Fetches \ {f} : flags'[g] = flags[g]
    <3>1. flags' = [flags EXCEPT ![f] = fs]
      BY <1>10 DEF Without
    <3>. HIDE DEF fs
    <3>. QED  BY <1>5, <3>1
  <2>13. \A g \in Fetches : "DISPOSED" \in flags'[g] <=> "DISPOSED" \in flags[g]
    BY <2>12
  <2>14. PointersApart'
    BY <2>13, KeptInv
  <2>15. \A g \in Fetches \ {f} : SameState(g) /\ SamePointers(g)
    BY <1>6, <1>10, <2>12 DEF SameState
  <2>16. \A g \in Fetches \ {f} : FetchOk(g)'
    <3>1. \A c \in {s, d, h} : /\ c.f \notin Fetches \ {f}
                               /\ c.op \in OfQueues => c \in CallsIn(todo)
      BY <1>2, <1>3, <2>1 DEF OfQueues
    <3>. QED  BY <1>1, <1>2, <1>3, <2>9, <2>15, <3>1, OthersOk
  <2>17. ASSUME NEW c \in CallsIn(todo'), c.f = f PROVE c \in {s, d}
    BY <1>4, <2>10, <2>17
  <2>18. CallsFit(f)'
    BY <2>1, <2>17 DEF CallsFit
  <2>19. OutOfQueues(f)'
    BY DEF OutOfQueues
  <2>20. Forgotten(f)'
    <3>1. ASSUME NEW b \in CallsIn(todo'), b.f = f, b.op \in Disposal PROVE b = d
      BY <2>1, <2>17, <3>1 DEF Disposal
    <3>. QED  BY <2>1, <2>3, <2>9, <2>10, <3>1 DEF Forgotten
  <2>21. Remembered(f)' /\ Stated(f)'
    <3>1. d \in CallsIn(todo') /\ d.f = f /\ d.op = "dispose" /\ d.op \in Disposal
      BY <2>1, <2>6, <2>10
    <3>. QED  BY <2>12, <3>1 DEF Remembered, Stated
  <2>. QED  BY <2>9, <2>11, <2>14, <2>16, <2>18, <2>19, <2>20, <2>21 DEF UrlInv, FetchOk
<1>. QED  BY <1>1, <1>9, <1>10

\* The loop ends.
LEMMA UrlQueueDone ==
  ASSUME SlotsInv, UrlInv, todo # <<>>, Head(todo).op \in OfQueues, Do(<<>>),
         UNCHANGED <<life, flags, url, task, netqueue, localqueue, fetch, rfetch, vfetch>>
  PROVE  UrlInv'
<1>1. /\ Orderly(todo) /\ CallsIn(Left) \subseteq CallsIn(todo) /\ Head(todo).f = NoFetch
  BY UrlHead DEF KnownCall
<1>2. todo' = <<>> \o Left
  BY DoLeft
<1>3. Adds({}) /\ Orderly(todo')
  BY <1>1, <1>2, AddNone
<1>4. NewCalls'
  BY <1>1, <1>3, NewCallsKept DEF Adds
<1>5. Head(todo).f \notin Fetches
  BY <1>1, FetchAssumption
<1>. QED  BY <1>3, <1>4, <1>5, NoneTouched

\* A fetch waits in one queue only.
LEMMA OneQueue ==
  ASSUME SlotsInv, NEW f \in Fetches
  PROVE  ~(In(netqueue, f) /\ In(localqueue, f))
BY DEF SlotsInv, QueuesApart, SlotRuns, In

LEMMA UrlChecknetqueue ==
  ASSUME SlotsInv, UrlInv, Checknetqueue
  PROVE  UrlInv'
<1>1. /\ todo # <<>> /\ Head(todo).op \in OfQueues
      /\ UNCHANGED <<life, url, localqueue, fetch, rfetch, vfetch>>
  BY DEF Checknetqueue, At, OfQueues, urlVars
<1>2. CASE nrnet < Maxconnect /\ netqueue # <<>>
  <2>1. PICK f : f = Head(netqueue)
    OBVIOUS
  <2>2. NextOf(netqueue) /\ netqueue' = Tail(netqueue)
    BY <1>2 DEF Checknetqueue
  <2>3. netqueue \in Seq(Fetches) /\ Distinct(netqueue)
    BY DEF SlotsInv, TypeOK, QueuesApart
  <2>4. f \in Fetches /\ In(netqueue, f) /\ ~In(netqueue', f)
    BY <1>2, <2>1, <2>2, <2>3, TailOfQueue
  <2>5. \A g \in Fetches \ {f} : In(netqueue', g) <=> In(netqueue, g)
    BY <1>2, <2>1, <2>2, <2>3, TailIn
  <2>6. ~In(localqueue, f) /\ life[f] = "live" /\ "RUNNING" \notin flags[f]
    BY <2>4, OneQueue DEF SlotsInv, WaitsApart
  <2>7. \/ Dostartdriver(f, flags[f] \ {"QUEUED"}) /\ todo' = todo
        \/ /\ flags' = Without(f, {"QUEUED"}) /\ task' = task
           /\ Do(<<CallF("srcupdate", f, {"Terminate"}), CallF("dispose", f, {}), Head(todo)>>)
    BY <2>1, <2>2 DEF NextOf
  <2>. QED  BY <1>1, <2>4, <2>5, <2>6, <2>7, UrlNextOf
<1>3. CASE ~(nrnet < Maxconnect /\ netqueue # <<>>)
  BY <1>1, <1>3, UrlQueueDone DEF Checknetqueue
<1>. QED  BY <1>2, <1>3

LEMMA UrlChecklocalqueue ==
  ASSUME SlotsInv, UrlInv, Checklocalqueue
  PROVE  UrlInv'
<1>1. /\ todo # <<>> /\ Head(todo).op \in OfQueues
      /\ UNCHANGED <<life, url, netqueue, fetch, rfetch, vfetch>>
  BY DEF Checklocalqueue, At, OfQueues, urlVars
<1>2. CASE nrlocal < Maxdiskread /\ localqueue # <<>>
  <2>1. PICK f : f = Head(localqueue)
    OBVIOUS
  <2>2. NextOf(localqueue) /\ localqueue' = Tail(localqueue)
    BY <1>2 DEF Checklocalqueue
  <2>3. localqueue \in Seq(Fetches) /\ Distinct(localqueue)
    BY DEF SlotsInv, TypeOK, QueuesApart
  <2>4. f \in Fetches /\ In(localqueue, f) /\ ~In(localqueue', f)
    BY <1>2, <2>1, <2>2, <2>3, TailOfQueue
  <2>5. \A g \in Fetches \ {f} : In(localqueue', g) <=> In(localqueue, g)
    BY <1>2, <2>1, <2>2, <2>3, TailIn
  <2>6. ~In(netqueue, f) /\ life[f] = "live" /\ "RUNNING" \notin flags[f]
    BY <2>4, OneQueue DEF SlotsInv, WaitsApart
  <2>7. \/ Dostartdriver(f, flags[f] \ {"QUEUED"}) /\ todo' = todo
        \/ /\ flags' = Without(f, {"QUEUED"}) /\ task' = task
           /\ Do(<<CallF("srcupdate", f, {"Terminate"}), CallF("dispose", f, {}), Head(todo)>>)
    BY <2>1, <2>2 DEF NextOf
  <2>. QED  BY <1>1, <2>4, <2>5, <2>6, <2>7, UrlNextOf
<1>3. CASE ~(nrlocal < Maxdiskread /\ localqueue # <<>>)
  BY <1>1, <1>3, UrlQueueDone DEF Checklocalqueue
<1>. QED  BY <1>2, <1>3

-----------------------------------------------------------------------------
(* Disposing of a fetch. *)

\* When main comes to dispose of a fetch its url has forgotten it, and of what
\* is left to do only the end of its driver or of its requester is about it.
LEMMA DisposeHead ==
  ASSUME SlotsInv, UrlInv, todo # <<>>, Head(todo).op \in Disposal,
         NEW f \in Fetches, Head(todo).f = f
  PROVE  /\ Unknown(f) /\ life[f] = "live" /\ FetchOk(f)
         /\ \A b \in CallsIn(Left) : b.f = f =>
              Head(todo).op = "dispose" /\ b.op \in {"end", "discard"}
<1>1. PICK h : h = Head(todo)
  OBVIOUS
<1>2. /\ CallsIn(todo) = {h} \cup CallsIn(Left) /\ \A b \in CallsIn(Left) : InOrder(h, b)
      /\ \A x, y : Before(todo, x, y) <=>
           (x = h /\ y \in CallsIn(Left)) \/ Before(Left, x, y)
      /\ \A x, y : Before(Left, x, y) => x \in CallsIn(Left) /\ y \in CallsIn(Left)
      /\ h.op \in Disposal /\ h.f = f
  BY <1>1, UrlHead
<1>3. FetchOk(f)
  BY DEF UrlInv
<1>4. life[f] = "live"
  BY <1>2, <1>3 DEF FetchOk, CallsFit
<1>5. \A b \in CallsIn(Left) : b.f = f => h.op = "dispose" /\ b.op \in {"end", "discard"}
  BY <1>2 DEF InOrder, MayFollow, Disposal
<1>6. \A a \in CallsIn(todo) : Before(todo, a, h) /\ a.f = f => ~Tells(a)
  BY <1>2, <1>5 DEF Tells, Disposal
<1>7. Unknown(f)
  BY <1>2, <1>3, <1>6 DEF FetchOk, Forgotten
<1>. QED  BY <1>1, <1>3, <1>4, <1>5, <1>7

\* The pointers stay, and no fetch that a url knows has changed.
LEMMA ForgottenChanged ==
  ASSUME SlotsInv, UrlInv, NEW f \in Fetches, Unknown(f),
         UNCHANGED <<url, fetch, rfetch, vfetch>>,
         \A g \in Fetches \ {f} : /\ life'[g] = life[g]
                                  /\ "DISPOSED" \in flags'[g] <=> "DISPOSED" \in flags[g]
  PROVE  PointersApart' /\ Unknown(f)'
<1>1. Unknown(f)'
  BY DEF Unknown, Knows
<1>2. \A u \in Urls : \A g \in Fetches : Knows(u, g)' => g # f
  BY <1>1 DEF Unknown
<1>3. \A u \in Urls : \A g \in Fetches : Knows(u, g)' =>
        life'[g] = life[g] /\ url'[g] = url[g]
        /\ ("DISPOSED" \in flags'[g] <=> "DISPOSED" \in flags[g])
  BY <1>2
<1>4. PointersApart'
  BY <1>3, PointersFewer DEF UrlInv
<1>. QED  BY <1>1, <1>4

LEMMA UrlDisposefetch ==
  ASSUME SlotsInv, UrlInv, Disposefetch
  PROVE  UrlInv'
<1>1. PICK h, f : h = Head(todo) /\ f = F
  OBVIOUS
<1>2. /\ todo # <<>> /\ h.op = "dispose" /\ h.f = f /\ Do(<<>>)
      /\ UNCHANGED <<url, task, fetch, rfetch, vfetch>>
  BY <1>1 DEF Disposefetch, At, F, urlVars
<1>3. /\ Orderly(todo) /\ ~Idle /\ CallsIn(Left) \subseteq CallsIn(todo)
      /\ CallsIn(todo) = {h} \cup CallsIn(Left)
      /\ f \in Fetches \cup {NoFetch}
  BY <1>1, <1>2, UrlHead, HeadGood
<1>4. todo' = <<>> \o Left
  BY <1>2, DoLeft
<1>5. Adds({}) /\ Orderly(todo') /\ CallsIn(todo') = CallsIn(Left)
  BY <1>3, <1>4, AddNone
<1>6. NewCalls'
  BY <1>2, <1>3, <1>5, NewCallsKept
<1>7. NoFetch \notin Fetches
  BY FetchAssumption
<1>8. CASE f = NoFetch
  <2>1. UNCHANGED <<life, flags, netqueue, localqueue>>
    BY <1>1, <1>8 DEF Disposefetch
  <2>. QED  BY <1>1, <1>2, <1>5, <1>6, <1>7, <1>8, <2>1, NoneTouched
<1>9. CASE f # NoFetch
  <2>1. f \in Fetches
    BY <1>3, <1>9
  <2>2. /\ Unknown(f) /\ life[f] = "live" /\ FetchOk(f)
        /\ \A b \in CallsIn(Left) : b.f = f => b.op \in {"end", "discard"}
    BY <1>1, <1>2, <2>1, DisposeHead DEF Disposal
  <2>3. \A g \in Fetches : SamePointers(g)
    BY <1>2, PointersKept
  <2>4. /\ flags \in [Fetches -> SUBSET Flags] /\ life \in [Fetches -> {"new", "live", "freed"}]
        /\ netqueue \in Seq(Fetches) /\ localqueue \in Seq(Fetches)
        /\ Distinct(netqueue) /\ Distinct(localqueue)
    BY DEF SlotsInv, TypeOK, QueuesApart
  <2>5. CASE "RUNNING" \in flags[f] \/ "INCOMPLETE" \in flags[f]
    <3>1. flags' = With(f, {"DISPOSED"}) /\ UNCHANGED <<life, netqueue, localqueue>>
      BY <1>1, <1>9, <2>5 DEF Disposefetch, Free, Has
    <3>2. /\ flags'[f] = flags[f] \cup {"DISPOSED"}
          /\ \A g \in Fetches \ {f} : flags'[g] = flags[g]
      BY <2>1, <2>4, <3>1 DEF With
    <3>3. PointersApart' /\ Unknown(f)'
      BY <1>2, <2>1, <2>2, <3>1, <3>2, ForgottenChanged
    <3>4. \A g \in Fetches \ {f} : SameState(g) /\ SamePointers(g)
      BY <1>2, <2>3, <3>1, <3>2 DEF SameState
    <3>5. \A g \in Fetches \ {f} : FetchOk(g)'
      BY <1>1, <1>2, <1>5, <3>4, OthersOk
    <3>6. CallsFit(f)'
      BY <1>3, <1>5, <2>2, <3>1, <3>2 DEF FetchOk, CallsFit
    <3>7. OutOfQueues(f)'
      BY <1>3, <1>5, <2>2, <3>1 DEF FetchOk, OutOfQueues
    <3>8. Forgotten(f)' /\ Remembered(f)'
      BY <3>2, <3>3 DEF Forgotten, Remembered
    <3>9. Stated(f)'
      <4>1. \A b \in CallsIn(todo) : b.op \in {"end", "retry"} => b \in CallsIn(todo')
        BY <1>2, <1>3, <1>5
      <4>2. flags'[f] \cap {"RUNNING", "QUEUED", "INCOMPLETE"} # {}
        BY <2>5, <3>2
      <4>3. /\ "QUEUED" \in flags[f] <=> In(netqueue, f) \/ In(localqueue, f)
            /\ "RUNNING" \in flags[f] =>
                 task[f] \/ \E b \in CallsIn(todo) : b.f = f /\ b.op \in {"end", "retry"}
        BY <2>2 DEF FetchOk, Stated
      <4>. QED  BY <1>2, <3>1, <3>2, <4>1, <4>2, <4>3 DEF Stated
    <3>. QED  BY <1>5, <1>6, <3>3, <3>5, <3>6, <3>7, <3>8, <3>9 DEF UrlInv, FetchOk
  <2>6. CASE ~("RUNNING" \in flags[f] \/ "INCOMPLETE" \in flags[f])
    <3>1. Free(f)
      BY <1>1, <1>9, <2>6 DEF Disposefetch, Has
    <3>2. /\ life'[f] = "freed" /\ flags'[f] = {}
          /\ \A g \in Fetches \ {f} : life'[g] = life[g] /\ flags'[g] = flags[g]
          /\ netqueue' = Unlink(netqueue, f) /\ localqueue' = Unlink(localqueue, f)
      BY <2>1, <2>4, <3>1 DEF Free
    <3>3. PointersApart' /\ Unknown(f)'
      BY <1>2, <2>1, <2>2, <3>2, ForgottenChanged
    <3>4. /\ ~In(netqueue', f) /\ ~In(localqueue', f)
          /\ \A g \in Fetches \ {f} : In(netqueue', g) <=> In(netqueue, g)
          /\ \A g \in Fetches \ {f} : In(localqueue', g) <=> In(localqueue, g)
      BY <2>1, <2>4, <3>2, UnlinkFacts, UnlinkIn
    <3>5. \A g \in Fetches \ {f} : SameState(g) /\ SamePointers(g)
      BY <1>2, <2>3, <3>2, <3>4 DEF SameState
    <3>6. \A g \in Fetches \ {f} : FetchOk(g)'
      BY <1>1, <1>2, <1>5, <3>5, OthersOk
    <3>7. \A b \in CallsIn(todo') : b.f # f
      <4>. SUFFICES ASSUME NEW b \in CallsIn(Left), b.f = f PROVE FALSE
        BY <1>5
      <4>1. b.op \in {"end", "discard"} /\ b \in CallsIn(todo)
        BY <1>3, <2>2
      <4>2. b.op # "discard"
        BY <2>2, <2>6, <4>1 DEF FetchOk, CallsFit
      <4>3. b.op # "end"
        <5>1. ~Ends(todo, f)
          BY <2>1, <2>6 DEF SlotsInv, SlotRuns
        <5>. QED  BY <4>1, <5>1 DEF Ends, CallsIn
      <4>. QED  BY <4>1, <4>2, <4>3
    <3>8. CallsFit(f)' /\ OutOfQueues(f)' /\ Forgotten(f)'
      BY <3>7 DEF CallsFit, OutOfQueues, Forgotten
    <3>9. Remembered(f)' /\ Stated(f)'
      BY <3>2, <3>4 DEF Remembered, Stated
    <3>. QED  BY <1>5, <1>6, <3>3, <3>6, <3>8, <3>9 DEF UrlInv, FetchOk
  <2>. QED  BY <2>5, <2>6
<1>. QED  BY <1>8, <1>9

\* Main comes to the end of a driver or of a requester and goes on to dispose.
LEMMA UrlFinish ==
  ASSUME SlotsInv, UrlInv, todo # <<>>, Head(todo).op \in {"end", "discard"},
         NEW f \in Fetches, Head(todo).f = f, Do(<<CallF("dispose", f, {})>>),
         UNCHANGED <<life, url, task, netqueue, localqueue, fetch, rfetch, vfetch>>,
         \A g \in Fetches \ {f} : flags'[g] = flags[g],
         "QUEUED" \in flags'[f] <=> "QUEUED" \in flags[f],
         "RUNNING" \in flags'[f] => "RUNNING" \in flags[f] /\ Head(todo).op = "discard"
  PROVE  UrlInv'
<1>1. PICK h : h = Head(todo)
  OBVIOUS
<1>. DEFINE d == CallF("dispose", f, {})
<1>2. d.op = "dispose" /\ d.f = f /\ Do(<<d>>)
  BY CallFields
<1>. HIDE DEF d
<1>3. /\ Orderly(todo) /\ ~Idle /\ CallsIn(todo) = {h} \cup CallsIn(Left)
      /\ \A b \in CallsIn(Left) : InOrder(h, b)
  BY <1>1, UrlHead
<1>4. /\ Unknown(f) /\ life[f] = "live" /\ FetchOk(f)
      /\ \A b \in CallsIn(Left) : b.f # f
  BY <1>1, DisposeHead DEF Disposal
<1>5. todo' = <<d>> \o Left
  BY <1>2, DoLeft
<1>6. \A b \in CallsIn(Left) : b.op \notin NewOps
  BY <1>1, NoNewLeft
<1>7. KnownCall(d) /\ ~Solo(d) /\ d.op \notin LateOps /\ d.op \notin CancelOps /\ ~Tells(d)
  BY <1>2, PlainKind
<1>8. Precedes(d, CallsIn(Left))
  BY <1>2, <1>4, <1>6, <1>7, PrecedesPlain
<1>9. Adds({d}) /\ Orderly(todo')
  BY <1>3, <1>5, <1>8, AddOne
<1>10. CallsIn(todo') = {d} \cup CallsIn(Left)
  BY <1>9 DEF Adds
<1>11. NewCalls'
  <2>1. \A c \in CallsIn(todo') : c.op \in NewOps => c \in CallsIn(todo)
    BY <1>2, <1>3, <1>10 DEF NewOps
  <2>. QED  BY <2>1, NewCallsKept
<1>12. PointersApart' /\ Unknown(f)'
  BY <1>4, ForgottenChanged
<1>13. \A g \in Fetches \ {f} : SameState(g) /\ SamePointers(g)
  <2>1. \A g : SamePointers(g)
    BY PointersKept
  <2>. QED  BY <2>1 DEF SameState
<1>14. \A g \in Fetches \ {f} : FetchOk(g)'
  <2>1. \A c \in {d} : c.f \notin Fetches \ {f} /\ c.op \notin OfQueues
    BY <1>2 DEF OfQueues
  <2>. QED  BY <1>1, <1>9, <1>13, <2>1, OthersOk
<1>15. \A c \in CallsIn(todo') : c.f = f => c = d
  BY <1>4, <1>10
<1>16. CallsFit(f)'
  BY <1>2, <1>4, <1>15 DEF CallsFit
<1>17. OutOfQueues(f)'
  <2>. SUFFICES ASSUME NEW a \in CallsIn(todo'), a.op \in OfQueues
                PROVE  ~In(netqueue', f) /\ ~In(localqueue', f)
    BY DEF OutOfQueues
  <2>1. a \in CallsIn(todo) /\ h \in CallsIn(todo)
    BY <1>2, <1>3, <1>10 DEF OfQueues
  <2>. QED  BY <1>1, <1>4, <2>1 DEF FetchOk, OutOfQueues
<1>18. Forgotten(f)'
  BY <1>12 DEF Forgotten
<1>19. d \in CallsIn(todo') /\ d.op \in Disposal
  BY <1>2, <1>10 DEF Disposal
<1>20. Remembered(f)'
  BY <1>2, <1>19 DEF Remembered
<1>21. Stated(f)'
  <2>1. "RUNNING" \in flags'[f] => task[f]
    <3>1. ASSUME "RUNNING" \in flags'[f] PROVE task[f]
      <4>1. task[f] \/ \E b \in CallsIn(todo) : b.f = f /\ b.op \in {"end", "retry"}
        BY <1>4, <3>1 DEF FetchOk, Stated
      <4>2. h.op = "discard"
        BY <1>1, <3>1
      <4>. QED  BY <1>3, <1>4, <4>1, <4>2
    <3>. QED  BY <3>1
  <2>2. "QUEUED" \in flags[f] <=> In(netqueue, f) \/ In(localqueue, f)
    BY QueuedFlag
  <2>. QED  BY <1>2, <1>19, <2>1, <2>2 DEF Stated
<1>. QED  BY <1>9, <1>11, <1>12, <1>14, <1>16, <1>17, <1>18, <1>20, <1>21 DEF UrlInv, FetchOk

LEMMA UrlEnd ==
  ASSUME SlotsInv, UrlInv, End
  PROVE  UrlInv'
<1>1. PICK f : f = F
  OBVIOUS
<1>2. /\ todo # <<>> /\ Head(todo).op = "end" /\ Head(todo).f = f
      /\ UNCHANGED <<life, url, task, netqueue, localqueue, fetch, rfetch, vfetch>>
      /\ Do(<<CallF("dispose", f, {})>>)
      /\ flags' = Without(f, {"RUNNING"})
  BY <1>1 DEF End, At, F, queueVars, urlVars
<1>3. f \in Fetches
  BY <1>1, <1>2, EndsFacts
<1>4. flags \in [Fetches -> SUBSET Flags]
  BY DEF SlotsInv, TypeOK
<1>5. /\ flags'[f] = flags[f] \ {"RUNNING"}
      /\ \A g \in Fetches \ {f} : flags'[g] = flags[g]
  BY <1>2, <1>3, <1>4 DEF Without
<1>6. /\ "QUEUED" \in flags'[f] <=> "QUEUED" \in flags[f]
      /\ "RUNNING" \notin flags'[f]
  BY <1>5
<1>. QED  BY <1>2, <1>3, <1>5, <1>6, UrlFinish

LEMMA UrlDiscard ==
  ASSUME SlotsInv, UrlInv, Discard
  PROVE  UrlInv'
<1>1. PICK f : f = F
  OBVIOUS
<1>2. /\ todo # <<>> /\ Head(todo).op = "discard" /\ Head(todo).f = f
      /\ UNCHANGED <<life, url, task, netqueue, localqueue, fetch, rfetch, vfetch>>
      /\ Do(<<CallF("dispose", f, {})>>)
      /\ flags' = [flags EXCEPT ![f] = (flags[f] \ {"INCOMPLETE"}) \cup {"DISPOSED"}]
  BY <1>1 DEF Discard, At, F, queueVars, urlVars
<1>3. f \in Fetches
  BY <1>2, UrlHead DEF GoodCall, OfFetch
<1>4. flags \in [Fetches -> SUBSET Flags]
  BY DEF SlotsInv, TypeOK
<1>5. /\ flags'[f] = (flags[f] \ {"INCOMPLETE"}) \cup {"DISPOSED"}
      /\ \A g \in Fetches \ {f} : flags'[g] = flags[g]
  BY <1>2, <1>3, <1>4
<1>6. /\ "QUEUED" \in flags'[f] <=> "QUEUED" \in flags[f]
      /\ "RUNNING" \in flags'[f] => "RUNNING" \in flags[f]
  BY <1>5
<1>. QED  BY <1>2, <1>3, <1>5, <1>6, UrlFinish

LEMMA UrlResume ==
  ASSUME SlotsInv, UrlInv, Resume
  PROVE  UrlInv'
<1>1. PICK h, f : h = Head(todo) /\ f = F
  OBVIOUS
<1>2. /\ todo # <<>> /\ h.op = "resume" /\ h.f = f /\ h.op \in LateOps
      /\ UNCHANGED <<life, url, task, netqueue, localqueue, fetch, rfetch, vfetch>>
      /\ Do(IF "DISPOSED" \in flags[f] THEN <<CallF("dispose", f, {})>> ELSE <<>>)
      /\ flags' = Without(f, {"INCOMPLETE"})
  BY <1>1 DEF Resume, At, F, queueVars, urlVars, LateOps, Has
<1>3. /\ f \in Fetches /\ Orderly(todo) /\ ~Idle
      /\ CallsIn(Left) = {} /\ CallsIn(todo) = {h}
  BY <1>1, <1>2, UrlHead, SoloHead DEF GoodCall, OfFetch
<1>4. flags \in [Fetches -> SUBSET Flags]
  BY DEF SlotsInv, TypeOK
<1>5. /\ flags'[f] = flags[f] \ {"INCOMPLETE"}
      /\ \A g \in Fetches \ {f} : flags'[g] = flags[g]
  BY <1>2, <1>3, <1>4 DEF Without
<1>6. FetchOk(f)
  BY <1>3 DEF UrlInv
<1>7. life[f] = "live" /\ ("RUNNING" \in flags[f] \/ "QUEUED" \in flags[f])
  BY <1>2, <1>3, <1>6 DEF FetchOk, CallsFit
<1>. DEFINE d == CallF("dispose", f, {})
<1>8. /\ d.op = "dispose" /\ d.f = f
      /\ Do(IF "DISPOSED" \in flags[f] THEN <<d>> ELSE <<>>)
  BY <1>2, CallFields
<1>. HIDE DEF d
<1>9. \A g \in Fetches : "DISPOSED" \in flags'[g] <=> "DISPOSED" \in flags[g]
  BY <1>5
<1>10. PointersApart'
  BY <1>2, <1>9, KeptInv
<1>11. Unknown(f)' <=> Unknown(f)
  BY <1>2 DEF Unknown, Knows
<1>12. PICK N : /\ Adds(N) /\ Orderly(todo') /\ N \subseteq {d}
                /\ d \in N => "DISPOSED" \in flags[f]
  <2>1. CASE "DISPOSED" \in flags[f]
    <3>1. todo' = <<d>> \o Left
      BY <1>2, <1>8, <2>1, DoLeft
    <3>2. KnownCall(d) /\ ~Tells(d)
      BY <1>8, PlainKind
    <3>3. Precedes(d, CallsIn(Left))
      BY <1>3, <3>2 DEF Precedes
    <3>4. Adds({d}) /\ Orderly(todo')
      BY <1>3, <3>1, <3>3, AddOne
    <3>. QED  BY <2>1, <3>4
  <2>2. CASE "DISPOSED" \notin flags[f]
    <3>1. todo' = <<>> \o Left
      BY <1>2, <1>8, <2>2, DoLeft
    <3>2. Adds({}) /\ Orderly(todo')
      BY <1>3, <3>1, AddNone
    <3>. QED  BY <3>2
  <2>. QED  BY <2>1, <2>2
<1>13. CallsIn(todo') = N
  BY <1>3, <1>12 DEF Adds
<1>14. NewCalls'
  BY <1>8, <1>12, <1>13 DEF NewCalls
<1>15. \A g \in Fetches \ {f} : SameState(g) /\ SamePointers(g)
  <2>1. \A g : SamePointers(g)
    BY <1>2, PointersKept
  <2>. QED  BY <1>2, <1>5, <2>1 DEF SameState
<1>16. \A g \in Fetches \ {f} : FetchOk(g)'
  <2>1. \A c \in N : c.f \notin Fetches \ {f} /\ c.op \notin OfQueues
    BY <1>8, <1>12 DEF OfQueues
  <2>. QED  BY <1>1, <1>2, <1>12, <1>15, <2>1, OthersOk
<1>17. CallsFit(f)' /\ OutOfQueues(f)'
  BY <1>2, <1>7, <1>8, <1>12, <1>13 DEF CallsFit, OutOfQueues, OfQueues
<1>18. Forgotten(f)'
  <2>1. "DISPOSED" \in flags[f] => Unknown(f)
    BY <1>3 DEF UrlInv, PointersApart, Unknown
  <2>. QED  BY <1>11, <1>12, <1>13, <2>1 DEF Forgotten
<1>19. Remembered(f)'
  <2>1. "DISPOSED" \in flags[f] \/ ~Unknown(f)
    BY <1>2, <1>3, <1>6, <1>7 DEF FetchOk, Remembered, Disposal
  <2>. QED  BY <1>3, <1>9, <1>11, <2>1 DEF Remembered
<1>20. Stated(f)'
  <2>1. "RUNNING" \in flags[f] => task[f]
    BY <1>2, <1>3, <1>6 DEF FetchOk, Stated
  <2>2. flags'[f] \cap {"RUNNING", "QUEUED", "INCOMPLETE"} # {}
    BY <1>5, <1>7
  <2>3. "QUEUED" \in flags[f] <=> In(netqueue, f) \/ In(localqueue, f)
    BY <1>3, QueuedFlag
  <2>. QED  BY <1>2, <1>5, <2>1, <2>2, <2>3 DEF Stated
<1>. QED  BY <1>10, <1>12, <1>14, <1>16, <1>17, <1>18, <1>19, <1>20 DEF UrlInv, FetchOk

-----------------------------------------------------------------------------
(* The end of a driver. *)

\* The driver of f has ended: what N adds says what becomes of the fetch.
LEMMA UrlEnded ==
  ASSUME SlotsInv, UrlInv, Idle, NEW f \in Fetches, life[f] = "live",
         ~In(netqueue, f), ~In(localqueue, f),
         UNCHANGED <<life, url, netqueue, localqueue, fetch, rfetch, vfetch>>,
         \A g \in Fetches \ {f} : flags'[g] = flags[g] /\ task'[g] = task[g],
         "QUEUED" \in flags'[f] <=> "QUEUED" \in flags[f],
         "DISPOSED" \in flags'[f] <=> "DISPOSED" \in flags[f],
         "RUNNING" \in flags'[f] \/ "INCOMPLETE" \in flags'[f],
         NEW N, Adds(N), Orderly(todo'), CallsIn(todo') = N,
         \A c \in N : c.f = f \/ c.op \in OfQueues,
         \A c \in N : c.f \notin Fetches \ {f},
         \A c \in N : c.op \notin {"discard", "resume", "dispose"} /\ c.op \notin NewOps,
         \A c \in N : c.op = "forward" => "POSTNOGOOD" \notin flags'[f],
         \A c \in N : c.op = "end" => \E a \in N : Before(todo', a, c) /\ a.f = f /\ Tells(a),
         "RUNNING" \in flags'[f] => \E b \in N : b.f = f /\ b.op \in {"end", "retry"}
  PROVE  UrlInv'
<1>1. CallsIn(todo) = {} /\ CallsIn(Left) = {}
  BY UrlIdle
<1>2. FetchOk(f) /\ (Unknown(f)' <=> Unknown(f))
  BY DEF UrlInv, Unknown, Knows
<1>3. NewCalls'
  BY DEF NewCalls, NewOps
<1>4. \A g \in Fetches : "DISPOSED" \in flags'[g] <=> "DISPOSED" \in flags[g]
  OBVIOUS
<1>5. PointersApart'
  BY <1>4, KeptInv
<1>6. \A g \in Fetches \ {f} : SameState(g) /\ SamePointers(g)
  <2>1. \A g : SamePointers(g)
    BY PointersKept
  <2>. QED  BY <2>1 DEF SameState
<1>7. \A g \in Fetches \ {f} : FetchOk(g)'
  BY <1>1, <1>6, OthersOk
<1>8. CallsFit(f)'
  BY DEF CallsFit
<1>9. OutOfQueues(f)'
  BY DEF OutOfQueues
<1>10. Forgotten(f)'
  BY DEF Forgotten, Disposal
<1>11. Remembered(f)'
  <2>1. "DISPOSED" \in flags[f] \/ ~Unknown(f)
    BY <1>1, <1>2 DEF FetchOk, Remembered
  <2>. QED  BY <1>2, <2>1 DEF Remembered
<1>12. Stated(f)'
  <2>1. "QUEUED" \in flags[f] <=> In(netqueue, f) \/ In(localqueue, f)
    BY QueuedFlag
  <2>2. flags'[f] \cap {"RUNNING", "QUEUED", "INCOMPLETE"} # {}
    OBVIOUS
  <2>. QED  BY <2>1, <2>2 DEF Stated
<1>. QED  BY <1>3, <1>5, <1>7, <1>8, <1>9, <1>10, <1>11, <1>12 DEF UrlInv, FetchOk

LEMMA UrlUpdateTerminate ==
  ASSUME SlotsInv, UrlInv, NEW f \in Fetches, UpdateTerminate(f)
  PROVE  UrlInv'
<1>1. /\ Idle /\ life[f] = "live" /\ "RUNNING" \in flags[f]
      /\ ~In(netqueue, f) /\ ~In(localqueue, f)
  BY UpdateHead DEF UpdateTerminate
<1>2. /\ UNCHANGED <<life, url, netqueue, localqueue, fetch, rfetch, vfetch>>
      /\ task' = [task EXCEPT ![f] = FALSE]
  BY DEF UpdateTerminate, urlVars
<1>3. /\ flags \in [Fetches -> SUBSET Flags] /\ task \in [Fetches -> BOOLEAN]
  BY DEF SlotsInv, TypeOK
<1>4. \A g \in Fetches \ {f} : task'[g] = task[g]
  BY <1>2, <1>3
<1>5. Orderly(todo) /\ CallsIn(Left) = {}
  BY <1>1, UrlIdle
<1>. DEFINE n == CallF("netqueue", NoFetch, {})
            l == CallF("localqueue", NoFetch, {})
            r == CallF("retry", f, {})
            e == CallF("end", f, {})
            waiting == (flags[f] \ {"RUNNING"}) \cup {"INCOMPLETE"}
<1>6. /\ n.f \notin Fetches /\ l.f \notin Fetches /\ n.op = "netqueue" /\ l.op = "localqueue"
      /\ \A x \in {n, l} : /\ x.op \in OfQueues /\ x.f \notin Fetches /\ x.op \notin NewOps
                           /\ KnownCall(x) /\ ~Solo(x) /\ x.op \notin LateOps
                           /\ x.op \notin CancelOps /\ ~Tells(x)
  BY QueueCalls
<1>7. r.op = "retry" /\ r.f = f /\ e.op = "end" /\ e.f = f
  BY CallFields
<1>8. \/ /\ "POSTNOGOOD" \in flags[f] /\ flags' = [flags EXCEPT ![f] = flags[f] \ {"USESLOT"}]
         /\ Event(<<n, l>> \o <<r>>)
      \/ flags' = [flags EXCEPT ![f] = waiting \ {"USESLOT"}] /\ Event(<<n, l>>)
      \/ /\ "POSTNOGOOD" \notin flags[f] /\ flags' = [flags EXCEPT ![f] = flags[f] \ {"USESLOT"}]
         /\ \E tags \in Ending : Event(<<n, l>> \o <<CallF("forward", f, tags), e>>)
  <2>1. ASSUME NEW error \in {{}} \cup (IF "Error" \in Updates THEN {{"Error"}} ELSE {})
        PROVE  {"Terminate"} \cup error \in Ending
    BY DEF Ending
  <2>2. \/ "POSTNOGOOD" \in flags[f] /\ Release(f, flags[f]) /\ Event(Checkqueues \o <<r>>)
        \/ Release(f, waiting) /\ Event(Checkqueues)
        \/ /\ "POSTNOGOOD" \notin flags[f] /\ Release(f, flags[f])
           /\ \E error \in {{}} \cup (IF "Error" \in Updates THEN {{"Error"}} ELSE {}) :
                Event(Checkqueues \o <<CallF("forward", f, {"Terminate"} \cup error), e>>)
    BY DEF UpdateTerminate, Has
  <2>3. Checkqueues = <<n, l>>
    BY DEF Checkqueues
  <2>. HIDE DEF n, l, r, e, waiting
  <2>. QED  BY <2>1, <2>2, <2>3 DEF Release
<1>9. /\ \A x \in {n, l} : x.f \notin Fetches \ {f} /\ x.op \in OfQueues
      /\ \A x \in {n, l} : /\ x.op \notin {"discard", "resume", "dispose", "forward", "end"}
                           /\ x.op \notin NewOps
  BY <1>6
<1>10. /\ KnownCall(r) /\ ~Tells(r) /\ r.op \notin NewOps
       /\ KnownCall(e) /\ ~Tells(e) /\ e.op \notin NewOps /\ e.op \in Disposal
  BY <1>7 DEF KnownCall, Tells, NewOps, OfUrl, OfQueues, Disposal
<1>. HIDE DEF n, l, r, e
<1>11. InOrder(n, l)
  BY <1>6 DEF InOrder, NewOps
<1>12. ASSUME NEW x \in {n, l}, NEW y, y.op \notin NewOps PROVE InOrder(x, y)
  BY <1>6, <1>12 DEF InOrder, NewOps
<1>13. <<n, l>> \o <<r>> = <<n, l, r>>
  BY ConcatOne
<1>14. CASE /\ "POSTNOGOOD" \in flags[f] /\ flags' = [flags EXCEPT ![f] = flags[f] \ {"USESLOT"}]
            /\ Event(<<n, l, r>>)
  <2>1. todo' = <<n, l, r>> \o Left
    <3>1. <<n, l, r>> \in Seq({n, l, r})
      OBVIOUS
    <3>. QED  BY <1>14, <3>1, EventLeft
  <2>2. /\ Precedes(r, CallsIn(Left)) /\ Precedes(l, {r} \cup CallsIn(Left))
        /\ Precedes(n, {l, r} \cup CallsIn(Left))
    BY <1>5, <1>6, <1>10, <1>11, <1>12 DEF Precedes
  <2>3. Adds({n, l, r}) /\ Orderly(todo')
    BY <1>5, <2>1, <2>2, AddThree
  <2>4. CallsIn(todo') = {n, l, r}
    BY <1>5, <2>3 DEF Adds
  <2>5. flags'[f] = flags[f] \ {"USESLOT"} /\ \A g \in Fetches \ {f} : flags'[g] = flags[g]
    BY <1>3, <1>14
  <2>6. \A c \in {n, l, r} :
          /\ c.f = f \/ c.op \in OfQueues
          /\ c.f \notin Fetches \ {f}
          /\ c.op \notin {"discard", "resume", "dispose"} /\ c.op \notin NewOps
          /\ c.op \notin {"forward", "end"}
    BY <1>7, <1>9, <1>10
  <2>7. \E b \in {n, l, r} : b.f = f /\ b.op \in {"end", "retry"}
    BY <1>7
  <2>8. /\ "QUEUED" \in flags'[f] <=> "QUEUED" \in flags[f]
        /\ "DISPOSED" \in flags'[f] <=> "DISPOSED" \in flags[f]
        /\ "RUNNING" \in flags'[f]
    BY <1>1, <2>5
  <2>. QED  BY <1>1, <1>2, <1>4, <2>3, <2>4, <2>5, <2>6, <2>7, <2>8, UrlEnded
<1>15. CASE flags' = [flags EXCEPT ![f] = waiting \ {"USESLOT"}] /\ Event(<<n, l>>)
  <2>1. todo' = <<n, l>> \o Left
    <3>1. <<n, l>> \in Seq({n, l})
      OBVIOUS
    <3>. QED  BY <1>15, <3>1, EventLeft
  <2>2. Precedes(l, CallsIn(Left)) /\ Precedes(n, {l} \cup CallsIn(Left))
    BY <1>5, <1>6, <1>11 DEF Precedes
  <2>3. Adds({n, l}) /\ Orderly(todo')
    BY <1>5, <2>1, <2>2, AddTwo
  <2>4. CallsIn(todo') = {n, l}
    BY <1>5, <2>3 DEF Adds
  <2>5. flags'[f] = waiting \ {"USESLOT"} /\ \A g \in Fetches \ {f} : flags'[g] = flags[g]
    <3>. HIDE DEF waiting
    <3>. QED  BY <1>3, <1>15
  <2>6. \A c \in {n, l} :
          /\ c.f = f \/ c.op \in OfQueues
          /\ c.f \notin Fetches \ {f}
          /\ c.op \notin {"discard", "resume", "dispose"} /\ c.op \notin NewOps
          /\ c.op \notin {"forward", "end"}
    BY <1>9
  <2>7. /\ "QUEUED" \in flags'[f] <=> "QUEUED" \in flags[f]
        /\ "DISPOSED" \in flags'[f] <=> "DISPOSED" \in flags[f]
        /\ "INCOMPLETE" \in flags'[f] /\ "RUNNING" \notin flags'[f]
    BY <2>5
  <2>. QED  BY <1>1, <1>2, <1>4, <2>3, <2>4, <2>5, <2>6, <2>7, UrlEnded
<1>16. ASSUME "POSTNOGOOD" \notin flags[f], flags' = [flags EXCEPT ![f] = flags[f] \ {"USESLOT"}],
              NEW tags \in Ending, Event(<<n, l>> \o <<CallF("forward", f, tags), e>>)
       PROVE  UrlInv'
  <2>. DEFINE w == CallF("forward", f, tags)
  <2>1. w.op = "forward" /\ w.f = f /\ w.tags \in Ending /\ Event(<<n, l>> \o <<w, e>>)
    BY <1>16, CallFields
  <2>. HIDE DEF w
  <2>2. <<n, l>> \o <<w, e>> = <<n, l, w, e>>
    BY ConcatPairs
  <2>3. todo' = <<n, l, w, e>> \o Left
    <3>1. <<n, l, w, e>> \in Seq({n, l, w, e})
      OBVIOUS
    <3>2. Event(<<n, l, w, e>>)
      BY <2>1, <2>2
    <3>. QED  BY <3>1, <3>2, EventLeft
  <2>4. Tells(w) /\ KnownCall(w) /\ w.op \notin NewOps
    BY <2>1 DEF Tells, KnownCall, NewOps, OfUrl, OfQueues
  <2>5. InOrder(w, e)
    <3>1. MayFollow(w, e) /\ ~Solo(w) /\ w.op \notin LateOps /\ w.op \notin CancelOps
      BY <1>7, <2>1 DEF MayFollow, Solo, LateOps, CancelOps
    <3>. QED  BY <1>7, <3>1 DEF InOrder
  <2>6. /\ Precedes(e, CallsIn(Left)) /\ Precedes(w, {e} \cup CallsIn(Left))
        /\ Precedes(l, {w, e} \cup CallsIn(Left)) /\ Precedes(n, {l, w, e} \cup CallsIn(Left))
    <3>1. Precedes(e, CallsIn(Left))
      BY <1>5, <1>10 DEF Precedes
    <3>2. Precedes(w, {e} \cup CallsIn(Left))
      BY <1>5, <1>7, <1>10, <2>1, <2>4, <2>5 DEF Precedes
    <3>3. Precedes(l, {w, e} \cup CallsIn(Left))
      BY <1>5, <1>6, <1>10, <1>12, <2>4 DEF Precedes
    <3>4. Precedes(n, {l, w, e} \cup CallsIn(Left))
      BY <1>5, <1>6, <1>10, <1>11, <1>12, <2>4 DEF Precedes
    <3>. QED  BY <3>1, <3>2, <3>3, <3>4
  <2>7. Adds({n, l, w, e}) /\ Orderly(todo') /\ Before(todo', w, e)
    BY <1>5, <2>3, <2>6, AddFour
  <2>8. CallsIn(todo') = {n, l, w, e}
    BY <1>5, <2>7 DEF Adds
  <2>9. flags'[f] = flags[f] \ {"USESLOT"} /\ \A g \in Fetches \ {f} : flags'[g] = flags[g]
    BY <1>3, <1>16
  <2>10. \A c \in {n, l, w, e} :
          /\ c.f = f \/ c.op \in OfQueues
          /\ c.f \notin Fetches \ {f}
          /\ c.op \notin {"discard", "resume", "dispose"} /\ c.op \notin NewOps
    BY <1>7, <1>9, <1>10, <2>1, <2>4
  <2>11. \A c \in {n, l, w, e} : c.op = "end" => c = e
    BY <1>9, <2>1
  <2>12. \A c \in {n, l, w, e} : c.op = "end" =>
           \E a \in {n, l, w, e} : Before(todo', a, c) /\ a.f = f /\ Tells(a)
    BY <2>1, <2>4, <2>7, <2>11
  <2>13. \E b \in {n, l, w, e} : b.f = f /\ b.op \in {"end", "retry"}
    BY <1>7
  <2>14. /\ "QUEUED" \in flags'[f] <=> "QUEUED" \in flags[f]
         /\ "DISPOSED" \in flags'[f] <=> "DISPOSED" \in flags[f]
         /\ "RUNNING" \in flags'[f] /\ "POSTNOGOOD" \notin flags'[f]
    BY <1>1, <1>16, <2>9
  <2>. QED  BY <1>1, <1>2, <1>4, <2>7, <2>8, <2>9, <2>10, <2>12, <2>13, <2>14, UrlEnded
<1>. QED  BY <1>8, <1>13, <1>14, <1>15, <1>16

-----------------------------------------------------------------------------
(* The pointers that a promotion or a reload clears. *)

\* The fetch g was not at work here; its url forgets it, and it is disposed of.
LEMMA Dropped ==
  ASSUME NEW g \in Fetches, FetchOk(g), life[g] = "live", SameState(g), Unknown(g)',
         \A c \in CallsIn(todo) : c.f # g,
         \A c \in CallsIn(todo') : c.op \notin OfQueues /\ (c.f = g => c.op = "dispose"),
         \E c \in CallsIn(todo') : c.f = g /\ c.op = "dispose"
  PROVE  FetchOk(g)'
<1>1. /\ life'[g] = life[g] /\ task'[g] = task[g]
      /\ "RUNNING" \in flags'[g] <=> "RUNNING" \in flags[g]
      /\ "QUEUED" \in flags'[g] <=> "QUEUED" \in flags[g]
      /\ In(netqueue', g) <=> In(netqueue, g)
      /\ In(localqueue', g) <=> In(localqueue, g)
  BY DEF SameState
<1>2. CallsFit(g)'
  BY <1>1 DEF CallsFit
<1>3. OutOfQueues(g)' /\ Forgotten(g)'
  BY DEF OutOfQueues, Forgotten
<1>4. Remembered(g)'
  BY DEF Remembered, Disposal
<1>5. Stated(g)'
  <2>1. "QUEUED" \in flags'[g] <=> In(netqueue', g) \/ In(localqueue', g)
    BY <1>1 DEF FetchOk, Stated
  <2>2. "RUNNING" \in flags'[g] => task'[g]
    BY <1>1 DEF FetchOk, Stated
  <2>. QED  BY <2>1, <2>2 DEF Stated
<1>. QED  BY <1>2, <1>3, <1>4, <1>5 DEF FetchOk

LEMMA UrlPromote ==
  ASSUME SlotsInv, UrlInv, Promote
  PROVE  UrlInv'
<1>1. PICK h, f, u, r : h = Head(todo) /\ f = F /\ u = url[F] /\ r = rfetch[url[F]]
  OBVIOUS
<1>2. /\ todo # <<>> /\ h.op = "srcupdate" /\ f \in Fetches /\ h.f = f /\ u \in Urls
      /\ h.tags \in Ending \cup {{"Data"}, {"Error"}, {"Moved"}, {"Reload"}}
      /\ h.tags \cap {"Data", "Moved"} # {}
  BY <1>1, SrcupdateFacts DEF Promote
<1>3. NoFetch \notin Fetches
  BY FetchAssumption
<1>4. /\ UNCHANGED <<life, flags, url, task, netqueue, localqueue>>
      /\ vfetch[u] = f /\ r = rfetch[u]
      /\ fetch' = [fetch EXCEPT ![u] = f]
      /\ vfetch' = [vfetch EXCEPT ![u] = NoFetch]
      /\ rfetch' = [rfetch EXCEPT ![u] = NoFetch]
      /\ Do(<<CallF("dispose", r, {}), h>>)
  BY <1>1 DEF Promote, fetchVars, queueVars, Is, Set
<1>5. h.tags \in {{"Data"}, {"Moved"}} /\ ~Tells(h)
  <2>1. h.tags \in {{"Data"}, {"Moved"}}
    BY <1>2, TagsApart
  <2>. QED  BY <2>1, TagsApart DEF Tells
<1>6. /\ Orderly(todo) /\ KnownCall(h) /\ CallsIn(Left) = {} /\ CallsIn(todo) = {h}
  BY <1>1, <1>2, <1>5, UrlHead, SoloHead DEF Solo
<1>7. /\ fetch \in [Urls -> Fetches \cup {NoFetch}] /\ rfetch \in [Urls -> Fetches \cup {NoFetch}]
      /\ vfetch \in [Urls -> Fetches \cup {NoFetch}]
  BY DEF SlotsInv, TypeOK
<1>8. /\ fetch'[u] = f /\ rfetch'[u] = NoFetch /\ vfetch'[u] = NoFetch
      /\ \A v \in Urls \ {u} :
           fetch'[v] = fetch[v] /\ rfetch'[v] = rfetch[v] /\ vfetch'[v] = vfetch[v]
  BY <1>2, <1>4, <1>7
<1>9. /\ Knows(u, f) /\ fetch[u] = NoFetch /\ r # f
      /\ life[f] = "live" /\ url[f] = u /\ "DISPOSED" \notin flags[f]
  <2>1. Knows(u, f)
    BY <1>4 DEF Knows
  <2>. QED  BY <1>2, <1>3, <1>4, <2>1 DEF UrlInv, PointersApart
<1>. DEFINE d == CallF("dispose", r, {})
<1>10. d.op = "dispose" /\ d.f = r /\ Do(<<d, h>>)
  BY <1>4, CallFields
<1>. HIDE DEF d
<1>11. Adds({d, h}) /\ Orderly(todo')
  <2>1. todo' = <<d, h>> \o Left
    BY <1>2, <1>10, DoLeft
  <2>2. Precedes(h, CallsIn(Left))
    BY <1>5, <1>6 DEF Precedes
  <2>3. Precedes(d, {h} \cup CallsIn(Left))
    <3>1. KnownCall(d) /\ ~Solo(d) /\ d.op \notin LateOps /\ d.op \notin CancelOps /\ ~Tells(d)
      BY <1>10, PlainKind
    <3>2. \A b \in {h} \cup CallsIn(Left) : b.op \notin NewOps /\ b.f # d.f
      BY <1>2, <1>6, <1>9, <1>10 DEF NewOps
    <3>. QED  BY <3>1, <3>2, PrecedesPlain
  <2>. QED  BY <1>6, <2>1, <2>2, <2>3, AddTwo
<1>12. CallsIn(todo') = {d, h}
  BY <1>6, <1>11 DEF Adds
<1>13. PointersApart'
  <2>. SUFFICES ASSUME NEW v \in Urls
                PROVE  /\ \A g \in Fetches : Knows(v, g)' =>
                            life'[g] = "live" /\ url'[g] = v /\ "DISPOSED" \notin flags'[g]
                       /\ fetch'[v] # NoFetch => rfetch'[v] = NoFetch /\ vfetch'[v] = NoFetch
                       /\ rfetch'[v] # NoFetch => rfetch'[v] # vfetch'[v]
    BY DEF PointersApart
  <2>1. CASE v = u
    BY <1>3, <1>4, <1>8, <1>9, <2>1 DEF Knows
  <2>2. CASE v # u
    BY <1>4, <1>8, <2>2 DEF Knows, UrlInv, PointersApart
  <2>. QED  BY <2>1, <2>2
<1>14. NewCalls'
  BY <1>2, <1>10, <1>12 DEF NewCalls
<1>15. \A g \in Fetches : SameState(g)
  BY <1>4, StateKept
<1>16. ASSUME NEW g \in Fetches \ {f, r} PROVE SamePointers(g)
  <2>1. ASSUME NEW v \in Urls PROVE Knows(v, g)' <=> Knows(v, g)
    <3>1. CASE v = u
      BY <1>3, <1>4, <1>8, <1>9, <1>16, <3>1 DEF Knows
    <3>2. CASE v # u
      BY <1>8, <3>2 DEF Knows
    <3>. QED  BY <3>1, <3>2
  <2>. QED  BY <2>1 DEF SamePointers
<1>17. \A g \in Fetches \ {f, r} : FetchOk(g)'
  <2>1. \A c \in {d, h} : c.f \notin Fetches \ {f, r} /\ c.op \notin OfQueues
    BY <1>2, <1>10 DEF OfQueues
  <2>. QED  BY <1>1, <1>2, <1>11, <1>15, <1>16, <2>1, OthersOk
<1>18. FetchOk(f)'
  <2>1. ~Unknown(f) /\ ~Unknown(f)'
    BY <1>2, <1>8, <1>9 DEF Unknown, Knows
  <2>2. /\ \A c \in {d, h} : c.op \notin OfQueues
        /\ \A c \in {d, h} : c.f = f => c.op \in {"srcupdate", "dispose"}
        /\ \A c \in {d, h} : c.f = f => c.op \notin Disposal
    BY <1>2, <1>9, <1>10 DEF OfQueues, Disposal
  <2>. QED  BY <1>1, <1>2, <1>5, <1>11, <1>15, <2>1, <2>2, UpdateHandled
<1>19. ASSUME r \in Fetches PROVE FetchOk(r)'
  <2>1. Knows(u, r) /\ life[r] = "live" /\ \A v \in Urls : Knows(v, r) => v = u
    <3>1. Knows(u, r)
      BY <1>4 DEF Knows
    <3>. QED  BY <1>2, <1>19, <3>1 DEF UrlInv, PointersApart
  <2>2. Unknown(r)'
    <3>1. ASSUME NEW v \in Urls PROVE ~Knows(v, r)'
      <4>1. CASE v = u
        BY <1>3, <1>8, <1>9, <1>19, <4>1 DEF Knows
      <4>2. CASE v # u
        BY <1>8, <2>1, <4>2 DEF Knows
      <4>. QED  BY <4>1, <4>2
    <3>. QED  BY <3>1 DEF Unknown
  <2>3. \A c \in CallsIn(todo) : c.f # r
    BY <1>2, <1>6, <1>9
  <2>4. \A c \in CallsIn(todo') : c.op \notin OfQueues /\ (c.f = r => c.op = "dispose")
    BY <1>2, <1>9, <1>10, <1>12 DEF OfQueues
  <2>5. \E c \in CallsIn(todo') : c.f = r /\ c.op = "dispose"
    BY <1>10, <1>12
  <2>6. FetchOk(r) /\ SameState(r)
    BY <1>15, <1>19 DEF UrlInv
  <2>. QED  BY <1>19, <2>1, <2>2, <2>3, <2>4, <2>5, <2>6, Dropped
<1>. QED  BY <1>11, <1>13, <1>14, <1>17, <1>18, <1>19 DEF UrlInv

LEMMA UrlReload ==
  ASSUME SlotsInv, UrlInv, Reload
  PROVE  UrlInv'
<1>1. PICK h, u, f, r, v : /\ h = Head(todo) /\ u = U
                           /\ f = fetch[U] /\ r = rfetch[U] /\ v = vfetch[U]
  OBVIOUS
<1>2. /\ todo # <<>> /\ h.op = "load" /\ h.tags = {"reload"} /\ h.u = u
      /\ UNCHANGED <<life, flags, url, task, netqueue, localqueue>>
      /\ f = fetch[u] /\ r = rfetch[u] /\ v = vfetch[u]
      /\ fetch' = [fetch EXCEPT ![u] = NoFetch]
      /\ rfetch' = [rfetch EXCEPT ![u] = NoFetch]
      /\ vfetch' = [vfetch EXCEPT ![u] = NoFetch]
      /\ Do(<<CallF("dispose", f, {}), CallF("dispose", r, {}), CallF("dispose", v, {}),
              CallU("newfetch", u, {})>>)
  BY <1>1 DEF Reload, At, fetchVars, queueVars, U, Set
<1>3. NoFetch \notin Fetches
  BY FetchAssumption
<1>4. /\ Orderly(todo) /\ CallsIn(Left) = {} /\ CallsIn(todo) = {h}
      /\ h.f = NoFetch /\ u \in Urls
  <2>1. KnownCall(h) /\ GoodCall(h, life) /\ Orderly(todo)
    BY <1>1, <1>2, UrlHead
  <2>2. CallsIn(Left) = {} /\ CallsIn(todo) = {h}
    BY <1>1, <1>2, SoloHead DEF Solo
  <2>. QED  BY <1>2, <2>1, <2>2 DEF KnownCall, GoodCall, OfUrl
<1>5. /\ fetch \in [Urls -> Fetches \cup {NoFetch}] /\ rfetch \in [Urls -> Fetches \cup {NoFetch}]
      /\ vfetch \in [Urls -> Fetches \cup {NoFetch}]
  BY DEF SlotsInv, TypeOK
<1>6. /\ fetch'[u] = NoFetch /\ rfetch'[u] = NoFetch /\ vfetch'[u] = NoFetch
      /\ \A w \in Urls \ {u} :
           fetch'[w] = fetch[w] /\ rfetch'[w] = rfetch[w] /\ vfetch'[w] = vfetch[w]
  BY <1>2, <1>4, <1>5
<1>7. /\ f \in Fetches => r = NoFetch /\ v = NoFetch
      /\ r \in Fetches => r # v
  BY <1>2, <1>3, <1>4 DEF UrlInv, PointersApart
<1>. DEFINE a == CallF("dispose", f, {})
            b == CallF("dispose", r, {})
            c == CallF("dispose", v, {})
            n == CallU("newfetch", u, {})
<1>8. /\ a.op = "dispose" /\ b.op = "dispose" /\ c.op = "dispose" /\ n.op = "newfetch"
      /\ a.f = f /\ b.f = r /\ c.f = v /\ n.f = NoFetch /\ n.u = u
      /\ Do(<<a, b, c, n>>)
  BY <1>2, CallFields
<1>. HIDE DEF a, b, c, n
<1>9. Adds({a, b, c, n}) /\ Orderly(todo')
  <2>1. todo' = <<a, b, c, n>> \o Left
    BY <1>2, <1>8, DoLeft
  <2>2. \A x \in {a, b, c, n} :
          KnownCall(x) /\ ~Solo(x) /\ x.op \notin LateOps /\ x.op \notin CancelOps /\ ~Tells(x)
    <3>1. \A x \in {a, b, c, n} : /\ x.op \in {"dispose"} \cup OfQueues \cup NewOps
                                  /\ x.op # "dispose" => x.f = NoFetch
      BY <1>8 DEF NewOps
    <3>. QED  BY <3>1, PlainKind
  <2>3. /\ a.f \in Fetches => a.f # b.f /\ a.f # c.f /\ a.f # n.f
        /\ b.f \in Fetches => b.f # c.f /\ b.f # n.f
        /\ c.f \in Fetches => c.f # n.f
    BY <1>3, <1>7, <1>8
  <2>4. /\ InOrder(a, b) /\ InOrder(a, c) /\ InOrder(b, c)
        /\ InOrder(a, n) /\ InOrder(b, n) /\ InOrder(c, n)
    <3>1. ASSUME NEW x \in {a, b, c}, NEW y \in {b, c, n}, x.f \in Fetches => x.f # y.f
          PROVE  InOrder(x, y)
      BY <1>8, <2>2, <3>1 DEF InOrder
    <3>. QED  BY <2>3, <3>1
  <2>5. /\ Precedes(n, CallsIn(Left)) /\ Precedes(c, {n} \cup CallsIn(Left))
        /\ Precedes(b, {c, n} \cup CallsIn(Left)) /\ Precedes(a, {b, c, n} \cup CallsIn(Left))
    BY <1>4, <2>2, <2>4 DEF Precedes
  <2>. QED  BY <1>4, <2>1, <2>5, AddFour
<1>10. CallsIn(todo') = {a, b, c, n}
  BY <1>4, <1>9 DEF Adds
<1>11. PointersApart'
  <2>1. \A w \in Urls : /\ fetch'[w] \in {fetch[w], NoFetch} /\ rfetch'[w] \in {rfetch[w], NoFetch}
                        /\ vfetch'[w] \in {vfetch[w], NoFetch}
    BY <1>6
  <2>. QED  BY <1>2, <2>1, PointersFewer DEF UrlInv
<1>12. NewCalls'
  <2>. SUFFICES ASSUME NEW x \in CallsIn(todo'), x.op \in NewOps
                PROVE  {fetch'[x.u], rfetch'[x.u], vfetch'[x.u]} = {NoFetch}
    BY DEF NewCalls, NewOps, Loading
  <2>1. x = n
    BY <1>8, <1>10 DEF NewOps
  <2>. QED  BY <1>6, <1>8, <2>1
<1>13. \A g \in Fetches : SameState(g)
  BY <1>2, StateKept
<1>14. ASSUME NEW g \in Fetches \ {f, r, v} PROVE SamePointers(g)
  <2>1. ASSUME NEW w \in Urls PROVE Knows(w, g)' <=> Knows(w, g)
    <3>1. CASE w = u
      BY <1>2, <1>3, <1>6, <1>14, <3>1 DEF Knows
    <3>2. CASE w # u
      BY <1>6, <3>2 DEF Knows
    <3>. QED  BY <3>1, <3>2
  <2>. QED  BY <2>1 DEF SamePointers
<1>15. \A g \in Fetches \ {f, r, v} : FetchOk(g)'
  <2>1. \A x \in {a, b, c, n} : x.f \notin Fetches \ {f, r, v} /\ x.op \notin OfQueues
    BY <1>3, <1>8 DEF OfQueues
  <2>2. Head(todo).f \notin Fetches \ {f, r, v}
    BY <1>1, <1>3, <1>4
  <2>. QED  BY <1>9, <1>13, <1>14, <2>1, <2>2, OthersOk
<1>16. ASSUME NEW g \in Fetches, g \in {f, r, v} PROVE FetchOk(g)'
  <2>1. Knows(u, g) /\ life[g] = "live" /\ \A w \in Urls : Knows(w, g) => w = u
    <3>1. Knows(u, g)
      BY <1>2, <1>16 DEF Knows
    <3>. QED  BY <1>4, <1>16, <3>1 DEF UrlInv, PointersApart
  <2>2. Unknown(g)'
    <3>1. ASSUME NEW w \in Urls PROVE ~Knows(w, g)'
      <4>1. CASE w = u
        BY <1>3, <1>6, <1>16, <4>1 DEF Knows
      <4>2. CASE w # u
        BY <1>6, <2>1, <4>2 DEF Knows
      <4>. QED  BY <4>1, <4>2
    <3>. QED  BY <3>1 DEF Unknown
  <2>3. \A x \in CallsIn(todo) : x.f # g
    BY <1>3, <1>4, <1>16
  <2>4. \A x \in CallsIn(todo') : x.op \notin OfQueues /\ (x.f = g => x.op = "dispose")
    BY <1>3, <1>8, <1>10, <1>16 DEF OfQueues
  <2>5. \E x \in CallsIn(todo') : x.f = g /\ x.op = "dispose"
    BY <1>8, <1>10, <1>16
  <2>6. FetchOk(g) /\ SameState(g)
    BY <1>13, <1>16 DEF UrlInv
  <2>. QED  BY <1>16, <2>1, <2>2, <2>3, <2>4, <2>5, <2>6, Dropped
<1>. QED  BY <1>9, <1>11, <1>12, <1>15, <1>16 DEF UrlInv

-----------------------------------------------------------------------------
(* Every step, and the theorems about the fetches and their urls. *)

\* A step that changes nothing here, as when a WAIT command is taken.
LEMMA UrlStutter ==
  ASSUME UrlInv,
         UNCHANGED <<todo, life, flags, url, task, netqueue, localqueue, fetch, rfetch, vfetch>>
  PROVE  UrlInv'
<1>1. PointersApart'
  BY DEF UrlInv, PointersApart, Knows
<1>2. NewCalls'
  BY DEF UrlInv, NewCalls, Loading
<1>3. ASSUME NEW f \in Fetches PROVE FetchOk(f)'
  <2>1. FetchOk(f) /\ (Unknown(f)' <=> Unknown(f))
    BY DEF UrlInv, Unknown, Knows
  <2>2. CallsFit(f)' /\ OutOfQueues(f)'
    BY <2>1 DEF FetchOk, CallsFit, OutOfQueues
  <2>3. Forgotten(f)' /\ Remembered(f)'
    BY <2>1 DEF FetchOk, Forgotten, Remembered
  <2>4. Stated(f)'
    BY <2>1 DEF FetchOk, Stated
  <2>. QED  BY <2>2, <2>3, <2>4 DEF FetchOk
<1>4. Orderly(todo')
  BY DEF UrlInv
<1>. QED  BY <1>1, <1>2, <1>3, <1>4 DEF UrlInv

LEMMA UrlInit ==
  ASSUME Init
  PROVE  UrlInv
<1>1. /\ CallsIn(todo) = {} /\ (\A a, b : ~Before(todo, a, b)) /\ Orderly(todo)
  BY CallsNone, OrderlyNone DEF Init
<1>2. NoFetch \notin Fetches
  BY FetchAssumption
<1>3. \A u \in Urls : fetch[u] = NoFetch /\ rfetch[u] = NoFetch /\ vfetch[u] = NoFetch
  BY DEF Init
<1>4. \A f \in Fetches : life[f] = "new" /\ flags[f] = {} /\ ~In(netqueue, f) /\ ~In(localqueue, f)
  <2>1. Len(<<>>) = 0 /\ 1..0 = {}
    OBVIOUS
  <2>. QED  BY <2>1 DEF Init, In
<1>5. PointersApart
  BY <1>2, <1>3 DEF PointersApart, Knows
<1>6. NewCalls
  BY <1>1 DEF NewCalls
<1>7. ASSUME NEW f \in Fetches PROVE FetchOk(f)
  <2>1. CallsFit(f) /\ OutOfQueues(f) /\ Forgotten(f)
    BY <1>1 DEF CallsFit, OutOfQueues, Forgotten
  <2>2. Remembered(f) /\ Stated(f)
    BY <1>4 DEF Remembered, Stated
  <2>. QED  BY <2>1, <2>2 DEF FetchOk
<1>. QED  BY <1>1, <1>5, <1>6, <1>7 DEF UrlInv

LEMMA UrlNext ==
  ASSUME SlotsInv, UrlInv, Next
  PROVE  UrlInv'
<1>1. ASSUME MainStep PROVE UrlInv'
  <2>1. CASE Newfetch("newfetch") \/ Newfetch("newrfetch") \/ Newfetch("newvfetch")
    BY <2>1, UrlNewfetch DEF NewOps
  <2>2. CASE Checknetqueue \/ Checklocalqueue
    BY <2>2, UrlChecknetqueue, UrlChecklocalqueue
  <2>3. CASE Disposefetch \/ ForwardTerminate \/ Retry
    BY <2>3, UrlDisposefetch, UrlForwardTerminate, UrlRetry
  <2>4. CASE End \/ Discard \/ Resume
    BY <2>4, UrlEnd, UrlDiscard, UrlResume
  <2>5. CASE Promote \/ Verified \/ Moveurl
    BY <2>5, UrlPromote, UrlVerified, UrlMoveurl
  <2>6. CASE Srcupdatefetch \/ SrcupdateIgnored
    BY <2>6, UrlSrcupdatefetch, UrlSrcupdateIgnored
  <2>7. CASE Loadurl \/ Reload
    BY <2>7, UrlLoadurl, UrlReload
  <2>8. CASE \/ Cancelpointer("cancelfetch", fetch) \/ Cancelpointer("cancelrfetch", rfetch)
             \/ Cancelpointer("cancelvfetch", vfetch)
    BY <2>8, UrlCancelpointer DEF CancelOps
  <2>. QED
    BY <1>1, <2>1, <2>2, <2>3, <2>4, <2>5, <2>6, <2>7, <2>8 DEF MainStep
<1>2. ASSUME User PROVE UrlInv'
  <2>1. ASSUME NEW u \in Urls, Auload(u) \/ Cancelfetch(u) PROVE UrlInv'
    BY <2>1, UrlAuload, UrlCancelfetch
  <2>2. ASSUME NEW f \in Fetches, Cancelnetstat(f) \/ Incompletereturn(f) PROVE UrlInv'
    BY <2>2, UrlCancelnetstat, UrlIncompletereturn
  <2>3. ASSUME NEW w \in Urls \cup {NoUrl}, Addwaitrequest(w) PROVE UrlInv'
    BY <2>3, UrlStutter DEF Addwaitrequest, fetchVars, queueVars, urlVars
  <2>. QED  BY <1>2, <2>1, <2>2, <2>3 DEF User
<1>3. ASSUME NEW f \in Fetches, DriverUpdate(f) \/ UpdateTerminate(f) PROVE UrlInv'
  BY <1>3, UrlDriverUpdate, UrlUpdateTerminate
<1>. QED  BY <1>1, <1>2, <1>3 DEF Next

\* The calls of main, the fetches they are about and the pointers of the urls
\* stay consistent: this is what the next three theorems rest on.
THEOREM UrlInvariant == Spec => [](SlotsInv /\ UrlInv)
<1>1. Init => SlotsInv /\ UrlInv
  BY SlotsInit, UrlInit
<1>2. SlotsInv /\ UrlInv /\ [Next]_vars => (SlotsInv /\ UrlInv)'
  <2>1. UNCHANGED vars /\ UrlInv => UrlInv'
    BY UrlStutter DEF vars, fetchVars, queueVars, urlVars
  <2>. QED  BY <2>1, SlotsNext, SlotsStutter, UrlNext
<1>. QED  BY <1>1, <1>2, PTL DEF Spec

\* Disposefetch() frees a fetch only when no call that main still makes for
\* this event, no driver, no queue and no pointer of a url refers to it.
THEOREM NeverUsedAfterFree == Spec => []NoUseAfterFree
<1>1. ASSUME SlotsInv, UrlInv PROVE NoUseAfterFree
  <2>. SUFFICES ASSUME NEW f \in Used \ {NoFetch} PROVE life[f] = "live"
    BY DEF NoUseAfterFree
  <2>1. /\ todo \in Seq(Call) /\ netqueue \in Seq(Fetches) /\ localqueue \in Seq(Fetches)
        /\ fetch \in [Urls -> Fetches \cup {NoFetch}] /\ rfetch \in [Urls -> Fetches \cup {NoFetch}]
        /\ vfetch \in [Urls -> Fetches \cup {NoFetch}]
    BY <1>1 DEF SlotsInv, TypeOK
  <2>2. ASSUME NEW i \in 1..Len(todo), f = todo[i].f PROVE life[f] = "live"
    <3>1. todo[i] \in Call /\ todo[i] \in CallsIn(todo)
      BY <2>1 DEF CallsIn
    <3>2. f \in Fetches
      BY <2>2, <3>1 DEF Call
    <3>. QED  BY <1>1, <2>2, <3>1, <3>2 DEF UrlInv, FetchOk, CallsFit
  <2>3. ASSUME f \in Fetches, task[f] PROVE life[f] = "live"
    BY <1>1, <2>3 DEF SlotsInv, SlotRuns
  <2>4. ASSUME f \in Fetches, In(netqueue, f) \/ In(localqueue, f) PROVE life[f] = "live"
    BY <1>1, <2>4 DEF SlotsInv, WaitsApart
  <2>5. ASSUME NEW u \in Urls, f \in {fetch[u], rfetch[u], vfetch[u]} PROVE life[f] = "live"
    <3>1. f \in Fetches
      BY <2>1, <2>5
    <3>. QED  BY <1>1, <2>5, <3>1 DEF UrlInv, PointersApart, Knows
  <2>6. (\A i \in 1..Len(netqueue) : netqueue[i] \in Fetches)
        /\ \A i \in 1..Len(localqueue) : localqueue[i] \in Fetches
    BY <2>1
  <2>7. \/ \E i \in 1..Len(todo) : f = todo[i].f
        \/ f \in Fetches /\ task[f]
        \/ f \in Fetches /\ (In(netqueue, f) \/ In(localqueue, f))
        \/ \E u \in Urls : f \in {fetch[u], rfetch[u], vfetch[u]}
    BY <2>6 DEF Used, In
  <2>. QED  BY <2>2, <2>3, <2>4, <2>5, <2>7
<1>. QED  BY <1>1, UrlInvariant, PTL

\* Between two events the updates of a fetch reach its url, and the user can
\* cancel it, by exactly one of the three pointers.
THEOREM AlwaysKnownToUrl == Spec => []KnownToUrl
<1>1. ASSUME SlotsInv, UrlInv PROVE KnownToUrl
  <2>. SUFFICES ASSUME Idle, NEW f \in Live, ~Has(f, "DISPOSED")
                PROVE  Cardinality(Pointers(url[f], f)) = 1
    BY DEF KnownToUrl
  <2>1. f \in Fetches /\ life[f] = "live" /\ f # NoFetch
    BY FetchAssumption DEF Live
  <2>2. CallsIn(todo) = {}
    BY <1>1, UrlIdle
  <2>3. ~Unknown(f)
    BY <1>1, <2>1, <2>2 DEF UrlInv, FetchOk, Remembered, Has
  <2>4. PICK u \in Urls : u = url[f] /\ Knows(u, f)
    BY <1>1, <2>1, <2>3 DEF Unknown, UrlInv, PointersApart
  <2>5. /\ fetch[u] = f => rfetch[u] # f /\ vfetch[u] # f
        /\ rfetch[u] = f => fetch[u] # f /\ vfetch[u] # f
    BY <1>1, <2>1, <2>4 DEF UrlInv, PointersApart
  <2>6. PICK p : Pointers(u, f) = {p}
    <3>1. CASE fetch[u] = f
      <4>1. Pointers(u, f) = {<<"f", fetch[u]>>}
        BY <2>5, <3>1 DEF Pointers
      <4>. QED  BY <4>1
    <3>2. CASE rfetch[u] = f
      <4>1. Pointers(u, f) = {<<"r", rfetch[u]>>}
        BY <2>5, <3>2 DEF Pointers
      <4>. QED  BY <4>1
    <3>3. CASE fetch[u] # f /\ rfetch[u] # f /\ vfetch[u] = f
      <4>1. Pointers(u, f) = {<<"v", vfetch[u]>>}
        BY <3>3 DEF Pointers
      <4>. QED  BY <4>1
    <3>. QED  BY <2>4, <3>1, <3>2, <3>3 DEF Knows
  <2>7. Cardinality({p}) = 1
    BY FS_Singleton
  <2>. QED  BY <2>4, <2>6, <2>7
<1>. QED  BY <1>1, UrlInvariant, PTL

\* Between two events a fetch has its driver, or waits in a queue, or for the
\* user to answer the requester: never two of these, and never none.
THEOREM AlwaysOneState == Spec => []OneState
<1>1. ASSUME SlotsInv, UrlInv PROVE OneState
  <2>. SUFFICES ASSUME Idle, NEW f \in Live
                PROVE  /\ Cardinality(flags[f] \cap {"RUNNING", "QUEUED", "INCOMPLETE"}) = 1
                       /\ task[f] = Has(f, "RUNNING")
    BY DEF OneState
  <2>1. f \in Fetches /\ life[f] = "live"
    BY DEF Live
  <2>2. CallsIn(todo) = {} /\ Stated(f)
    BY <1>1, <2>1, UrlIdle DEF UrlInv, FetchOk
  <2>3. ~Resumes(todo, f)
    <3>1. 1..Len(<<>>) = {}
      OBVIOUS
    <3>. QED  BY <3>1 DEF Resumes, Idle
  <2>4. /\ "INCOMPLETE" \in flags[f] => "RUNNING" \notin flags[f] /\ "QUEUED" \notin flags[f]
        /\ "QUEUED" \in flags[f] => "RUNNING" \notin flags[f]
    BY <1>1, <2>1, <2>2, <2>3 DEF SlotsInv, WaitsApart, Stated
  <2>5. flags[f] \cap {"RUNNING", "QUEUED", "INCOMPLETE"} # {}
    BY <2>1, <2>2 DEF Stated
  <2>6. PICK x : flags[f] \cap {"RUNNING", "QUEUED", "INCOMPLETE"} = {x}
    BY <2>4, <2>5
  <2>7. Cardinality({x}) = 1
    BY FS_Singleton
  <2>8. task[f] <=> "RUNNING" \in flags[f]
    BY <1>1, <2>1, <2>2 DEF Stated, SlotsInv, SlotRuns
  <2>9. task[f] \in BOOLEAN /\ ("RUNNING" \in flags[f]) \in BOOLEAN
    BY <1>1, <2>1 DEF SlotsInv, TypeOK
  <2>10. task[f] = Has(f, "RUNNING")
    BY <2>8, <2>9 DEF Has
  <2>. QED  BY <2>6, <2>7, <2>10
<1>. QED  BY <1>1, UrlInvariant, PTL
=============================================================================
