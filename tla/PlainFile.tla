----------------------------- MODULE PlainFile -----------------------------
(* What a program expects of a file it opened: the bytes it writes are      *)
(* appended in order, the bytes it reads are the next ones, and closing it  *)
(* says whether everything arrived.  This is what asyncio.c promises while  *)
(* it works behind its caller's back with two buffers.                      *)
EXTENDS Naturals, Sequences

VARIABLES
  opened,      \* "closed", "read" or "write"
  contents,    \* the bytes of the file
  delivered,   \* the bytes its reader got so far
  broken,      \* an operation on the open stream failed
  outcome      \* of the last call that tells: "none", "eof", "saved", "lost"

plainVars == <<opened, contents, delivered, broken, outcome>>

PlainInit ==
  opened = "closed" /\ delivered = <<>> /\ ~broken /\ outcome = "none"

\* Opening a file to write empties it, or keeps what it holds to append.
Open ==
  /\ opened = "closed" /\ opened' \in {"read", "write"}
  /\ contents' = contents \/ (opened' = "write" /\ contents' = <<>>)
  /\ delivered' = <<>> /\ ~broken' /\ outcome' = "none"

Write ==
  /\ opened = "write" /\ ~broken
  /\ Len(contents') > Len(contents)
  /\ SubSeq(contents', 1, Len(contents)) = contents
  /\ UNCHANGED <<opened, delivered, broken, outcome>>

\* The reader is told of the end of the file only when it got everything.
Read ==
  /\ opened = "read" /\ ~broken
  /\ Len(delivered') <= Len(contents)
  /\ delivered' = SubSeq(contents, 1, Len(delivered'))
  /\ Len(delivered') >= Len(delivered)
  /\ \/ outcome' = "eof" /\ Len(delivered') = Len(contents)
     \/ UNCHANGED outcome
  /\ UNCHANGED <<opened, contents, broken>>

\* A stream that failed stays failed; what the file holds is then unknown.
Fail ==
  /\ opened # "closed" /\ broken'
  /\ UNCHANGED <<opened, delivered>> /\ outcome' = outcome

\* "saved" is the promise that the file holds all that was written.
Close ==
  /\ opened # "closed" /\ opened' = "closed" /\ ~broken'
  /\ \/ outcome' = "saved" /\ ~broken /\ UNCHANGED contents
     \/ outcome' = "lost"
  /\ UNCHANGED delivered

PlainNext == Open \/ Write \/ Read \/ Fail \/ Close
PlainSpec == PlainInit /\ [][PlainNext]_plainVars
=============================================================================
