------------------------------ MODULE MCTable ------------------------------
(* The cells of a table, for TLC. *)
EXTENDS Table

Cellspec(min, max, type, size) == [min |-> min, max |-> max, type |-> type, size |-> size]

\* Text, some of which grows or shrinks, and cells that ask for a width.
Textcells == {Cellspec(5, 20, "unsized", 1), Cellspec(10, 40, "unsized", 1)}
Cellkinds == Textcells \cup {Cellspec(4, 8, "percent", 60), Cellspec(7, 7, "pixels", 12)}
=============================================================================
