------------------------------ MODULE Frameset ------------------------------
(* A frameset divides the room of its window among its frames, and the user *)
(* moves the borders between them (frameset.c).  One direction: a frameset   *)
(* with ROWS and COLS is a frameset of framesets.                            *)
EXTENDS Integers, FiniteSetsExt, Functions, TLC

CONSTANTS
  Childspecs,    \* the frames a frameset may have: [type, size, min]
  MaxChilds,     \* bound on the frames of a frameset
  Dimensions,    \* the sizes the window may take
  Places,        \* the places the mouse may be moved to
  Spacing        \* the width of a border

ASSUME FramesetAssumption ==
  /\ \A c \in Childspecs : /\ c.type \in {"pixels", "percent", "relative"}
                           /\ c.size > 0 /\ c.min > 0
  /\ MaxChilds > 0 /\ Spacing >= 0 /\ \A d \in Dimensions : d > 0

VARIABLES
  childs,        \* frs->childs, with the minima their frames have measured
  dim,           \* ch->dim, the size of each frame
  ldimension,    \* the size laid out against; 0: not yet
  resetting,     \* FRSF_RESET
  sizing         \* frs->sizechild with the place and the limits of its border

framesetVars == <<childs, dim, ldimension, resetting, sizing>>

NoSizing == [child |-> 0, cur |-> 0, min |-> 0, max |-> 0]
Members == DOMAIN childs
Framesof(t) == {i \in Members : childs[i].type = t}
Sizes == [i \in Members |-> childs[i].size]
Minima == [i \in Members |-> childs[i].min]
Wanted == [i \in Members |-> Max({childs[i].size, childs[i].min})]
Total(f, S) == MapThenSumSet(LAMBDA i : f[i], S)

FramesetTypeOK ==
  /\ childs \in UNION {[1..n -> Childspecs] : n \in 1..MaxChilds}
  /\ dim \in [Members -> Int] /\ ldimension \in Dimensions \cup {0}
  /\ resetting \in BOOLEAN
  /\ sizing = NoSizing \/ sizing.child \in Members

FramesetInit ==
  /\ childs \in UNION {[1..n -> Childspecs] : n \in 1..MaxChilds}
  /\ dim = [i \in Members |-> 0] /\ ldimension = 0
  /\ resetting = FALSE /\ sizing = NoSizing

-----------------------------------------------------------------------------
\* Frames of S whose share of the room would be less than their minimum get
\* that, one by one; extra is the share of frames that are sized together.
RECURSIVE Givemin(_, _, _)
Givemin(S, room, extra) ==
  LET small == {i \in S : (room * Sizes[i]) \div (Total(Sizes, S) + extra) < Minima[i]}
      i == Min(small)
  IN  IF small = {} THEN [left |-> S, room |-> room]
      ELSE Givemin(S \ {i}, room - Minima[i], extra)

\* A bug: what is lost in rounding goes to nobody.
ShareRounded(weight, S, room) == [i \in S |-> (room * weight[i]) \div Total(weight, S)]
\* The frames of S share the room by weight, each what is left by those before.
RECURSIVE Share(_, _, _)
Share(weight, S, room) ==
  LET i == Min(S)
      d == (room * weight[i]) \div Total(weight, S)
  IN  IF S = {} THEN <<>> ELSE (i :> d) @@ Share(weight, S \ {i}, room - d)

\* The sizes of frames of one type: their minimum or their share.
Dividetype(S, room) ==
  LET given == Givemin(S, room, 0)
  IN  Share(Sizes, given.left, given.room) @@ Restrict(Minima, S)

\* There is room for what the frames with a size in pixels want; what is left
\* is for percentages, and for the relative frames together.
Dividerest(room) ==
  LET relatives == Framesof("relative")
      percents == Framesof("percent")
      minrel == Total(Minima, relatives)
      relprc == IF relatives = {} THEN 0 ELSE Max({100 - Total(Sizes, percents), 0})
      relmin == /\ relatives # {}
                /\ (room * relprc) \div (Total(Sizes, percents) + relprc) < minrel
      given == IF relmin THEN Givemin(percents, room - minrel, 0)
                         ELSE Givemin(percents, room, relprc)
      reldim == IF relmin THEN minrel
                ELSE IF relatives = {} THEN 0
                ELSE (given.room * relprc) \div (Total(Sizes, given.left) + relprc)
      rest == IF relmin THEN given.room ELSE given.room - reldim
  IN  Share(Sizes, given.left, rest) @@ Restrict(Minima, percents) @@ Dividetype(relatives, reldim)

\* Layoutframeset(): the sizes of all frames in a window of size d.
Layoutmagic(d) ==
  LET room == d - (Cardinality(Members) - 1) * Spacing
      pixels == Framesof("pixels")
      others == Members \ pixels
  IN  CASE Total(Minima, Members) >= room -> Minima
        [] /\ Total(Minima, Members) < room
           /\ pixels # {} /\ Total(Wanted, pixels) + Total(Minima, others) >= room
           -> Share(Wanted, pixels, room - Total(Minima, others)) @@ Minima
        [] OTHER -> IF others = {} THEN Dividetype(Members, room)
                    ELSE Restrict(Wanted, pixels) @@ Dividerest(room - Total(Wanted, pixels))

\* The magic is only done when the size has changed, or after a reset.
Layoutframeset ==
  \E d \in Dimensions :
    /\ ldimension' = d /\ resetting' = FALSE
    /\ dim' = IF d = ldimension /\ ~resetting THEN dim ELSE Layoutmagic(d)
    /\ UNCHANGED <<childs, sizing>>

Prepreset ==
  /\ resetting' = TRUE /\ UNCHANGED <<childs, dim, ldimension, sizing>>

-----------------------------------------------------------------------------
\* The middle of the border after frame i.
Border(i) == Total(dim, 1..i) + (i - 1) * Spacing + Spacing \div 2

Goactive ==
  \E i \in Members \ {Cardinality(Members)} :
    /\ ldimension # 0 /\ sizing = NoSizing
    /\ sizing' = [child |-> i, cur |-> Border(i),
                  min |-> Border(i) - dim[i] + childs[i].min,
                  max |-> Border(i) + dim[i + 1] - childs[i + 1].min]
    /\ UNCHANGED <<childs, dim, ldimension, resetting>>

Mousemove ==
  \E p \in Places :
    /\ sizing # NoSizing
    /\ sizing' = [sizing EXCEPT !.cur = Min({sizing.max, Max({sizing.min, p})})]
    /\ UNCHANGED <<childs, dim, ldimension, resetting>>

\* The button is released: the two frames beside the border are resized.
Doresizechilds ==
  LET i == sizing.child
      moved == sizing.cur - Border(i)
  IN  /\ sizing # NoSizing /\ sizing' = NoSizing
      /\ dim' = [dim EXCEPT ![i] = @ + moved, ![i + 1] = @ - moved]
      /\ UNCHANGED <<childs, ldimension, resetting>>

Goinactive ==
  /\ sizing # NoSizing /\ sizing' = NoSizing
  /\ UNCHANGED <<childs, dim, ldimension, resetting>>

FramesetNext ==
  Layoutframeset \/ Prepreset \/ Goactive \/ Mousemove \/ Doresizechilds \/ Goinactive

FramesetSpec == FramesetInit /\ [][FramesetNext]_framesetVars

-----------------------------------------------------------------------------
Room == ldimension - (Cardinality(Members) - 1) * Spacing
Needed == Max({Room, Total(Minima, Members)})

\* Two frames of one type that are both above their minimum have sizes in
\* proportion to what they ask for, up to rounding.
Byweight(layout) ==
  \A i, j \in Members :
    childs[i].type = childs[j].type /\ layout[i] > childs[i].min =>
      layout[i] * childs[j].size <= layout[j] * childs[i].size + childs[i].size + childs[j].size

\* However the frames are specified, resized and laid out again, they fill the
\* window, or have their minima where these need more; and every layout shares
\* the room by what the frames ask for, the rounding left to the last of them.
\* The code gives the relative frames their minimum before those in percents,
\* which may take more than is left then: frames pass the edge of the window
\* only if there are relative ones and several in percents.
FramesetDivided ==
  /\ ldimension # 0 =>
       \/ Total(dim, Members) = Needed
       \/ /\ Total(dim, Members) > Needed
          /\ Cardinality(Framesof("percent")) > 1 /\ Framesof("relative") # {}
  /\ resetting /\ ldimension = 0 => \A d \in Dimensions : Byweight(Layoutmagic(d))
=============================================================================
