----------------------------- MODULE Nodelists -----------------------------
(* The linked lists of the code, as sequences. *)
EXTENDS Integers, Sequences

\* Remove() of the nodes at the places I of a list.
Removed(s, I) ==
  LET left[n \in 0..Len(s)] ==
        IF n = 0 THEN <<>> ELSE IF n \in I THEN left[n - 1] ELSE Append(left[n - 1], s[n])
  IN left[Len(s)]
=============================================================================
