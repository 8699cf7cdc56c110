------------------------------- MODULE Table -------------------------------
(* A table is shown row by row while its document is still read (table.c):  *)
(* only new rows are measured and laid out, as long as the columns keep     *)
(* their number and their widths.  Cells span one row and one column; no    *)
(* caption, borders or spacing.                                             *)
EXTENDS Integers, FiniteSetsExt, SequencesExt, TLC

CONSTANTS
  Cellspecs,     \* what a cell may hold: [min, max, type, size]
  MaxRows, MaxCols,   \* bounds on the table
  Winwidths      \* the widths the window may take

ASSUME TableAssumption ==
  \A c \in Cellspecs : 0 < c.min /\ c.min <= c.max /\ c.size > 0

VARIABLES
  rows,          \* tab->rows: the state of each row and its cells
  nrcols,        \* tab->nrcols, the columns seen so far
  cols,          \* tab->cols, colssize long
  table,         \* the flags TABF_INCREMENTAL, _COMPLETE, _LAYEDOUT, ELTF_ALIGNED
  tabwidths,     \* tab->minw, tab->maxw, tab->aow
  changed,       \* what the parent knows: BDYF_CHANGEDCHILD, chchild is the table
  busy,          \* main handles data of the document, an update will follow
  winwidth,      \* the width laid out against
  overrun        \* a layout went past the end of cols: anything may follow

tableVars == <<rows, nrcols, cols, table, tabwidths, changed, busy, winwidth, overrun>>

Nocol == [min |-> 0, max |-> 0, type |-> "unsized", size |-> 0, width |-> 0, x |-> 0]
Newcell(spec) == [spec |-> spec, min |-> 0, max |-> 0, x |-> 0, width |-> 0]

RowStates == {"initial", "complete", "measured", "rendered"}

TableTypeOK ==
  /\ Len(rows) <= MaxRows /\ nrcols \in 0..MaxCols /\ Len(cols) <= MaxCols
  /\ \A r \in DOMAIN rows : rows[r].state \in RowStates /\ Len(rows[r].cells) <= MaxCols
  /\ table \subseteq {"incremental", "complete", "layedout", "aligned"}
  /\ changed \in {"no", "flag", "child"} /\ busy \in BOOLEAN
  /\ winwidth \in Winwidths /\ overrun \in BOOLEAN

TableInit ==
  /\ rows = <<>> /\ nrcols = 0 /\ cols = <<>>
  /\ table \in {{"incremental"}, {}} /\ tabwidths = [min |-> 0, max |-> 0, aow |-> 0]
  /\ changed = "flag" /\ busy = TRUE
  /\ winwidth \in Winwidths /\ overrun = FALSE

-----------------------------------------------------------------------------
\* Measuretable()
Largest(S) == Max(S \cup {0})
Sum(f(_), S) == MapThenSumSet(f, S)
Typed(c, t) == {i \in DOMAIN c : c[i].type = t}
Minof(c, S) == Sum(LAMBDA i : c[i].min, S)
Maxof(c, S) == Sum(LAMBDA i : c[i].max, S)
Sizeof(c, S) == Sum(LAMBDA i : c[i].size, S)

\* Rows that are measured now keep what their contents need.
Measurerows(all) ==
  [r \in DOMAIN rows |->
     IF rows[r].state = "complete" \/ (all /\ rows[r].state # "initial")
     THEN [state |-> "measured",
           cells |-> [i \in DOMAIN rows[r].cells |->
                        [rows[r].cells[i] EXCEPT !.min = rows[r].cells[i].spec.min,
                                                 !.max = rows[r].cells[i].spec.max]]]
     ELSE rows[r]]

\* A column after one more of its cells: the first cell with a size gives it.
Measurecell(col, cell) ==
  LET sizes == col.type = "unsized" /\ cell.spec.type # "unsized"
      min == Max({col.min, cell.min})
  IN  [col EXCEPT !.min = min,
                  !.type = IF sizes THEN cell.spec.type ELSE @,
                  !.size = IF sizes THEN cell.spec.size ELSE @,
                  !.max = IF sizes /\ cell.spec.type = "pixels" THEN Max({cell.spec.size, min})
                          ELSE Max({@, cell.max})]

Measurecol(rs, i, col) ==
  LET with == SelectSeq(rs, LAMBDA row : i \in DOMAIN row.cells)
      cells == [r \in DOMAIN with |-> with[r].cells[i]]
  IN  FoldLeft(Measurecell, [Nocol EXCEPT !.width = col.width, !.x = col.x], cells)

\* The width at which no column would have to give up any of its maximum.
Widest(c) ==
  LET rel == Typed(c, "relative")
      uns == Typed(c, "unsized")
      prc == Typed(c, "percent")
      ruprc == Largest({100 - Sizeof(c, prc)})
      total == Max({100, Sizeof(c, prc)})
      maxru == IF rel = {} THEN Maxof(c, uns)
               ELSE Minof(c, uns) + Largest({(c[i].max * Sizeof(c, rel)) \div c[i].size : i \in rel})
  IN  Maxof(c, Typed(c, "pixels"))
      + (IF maxru > 0 /\ ruprc = 0 THEN Minof(c, uns \cup rel) ELSE 0)
      + Largest({(c[i].max * total) \div c[i].size : i \in prc}
                \cup (IF ruprc > 0 THEN {(maxru * total) \div ruprc} ELSE {}))

\* Measuretable(), with AMMF_CHANGED.  Incremental display ends when a row
\* brings more columns; a complete table gets a new array.
Resized == Len(cols) # nrcols
Measures ==
  /\ table \cap {"incremental", "complete"} # {}
  /\ rows # <<>> /\ rows[1].state # "initial"
  /\ ~(cols # <<>> /\ Resized /\ "complete" \notin table)

Measurecols(rs, new) ==
  [rows |-> rs, cols |-> new, min |-> Minof(new, 1..nrcols), max |-> Widest(new),
   aow |-> tabwidths.aow, table |-> IF Resized THEN table \ {"layedout"} ELSE table]

Measurecells(rs) ==
  LET old(i) == IF Resized THEN Nocol ELSE cols[i]
  IN  Measurecols(rs, [i \in 1..nrcols |-> Measurecol(rs, i, old(i))])

\* The table as it was measured last.
Asmeasured == [rows |-> rows, cols |-> cols, table |-> table,
               min |-> tabwidths.min, max |-> tabwidths.max, aow |-> tabwidths.aow]

Measuretable ==
  IF Measures THEN Measurecells(Measurerows("incremental" \notin table \/ Resized))
  ELSE IF cols # <<>> /\ Resized /\ "complete" \notin table
  THEN [Asmeasured EXCEPT !.table = @ \ {"incremental"}]
  ELSE Asmeasured

-----------------------------------------------------------------------------
\* Layouttable(): the widths of the columns c in a table of width room.

\* Columns of S whose share of the room is less than their minimum get that,
\* one by one; together stands for relative and unsized ones, which come first.
RECURSIVE Fit(_, _, _, _, _)
Fit(c, S, together, room, total) ==
  LET small == {i \in S : total <= 0 \/ c[i].min > (room * c[i].size) \div total}
      i == Min(small)
      ru == together.min > 0 /\ (total <= 0 \/ together.min > (room * together.size) \div total)
  IN  CASE ru -> Fit(c, S, [min |-> 0, size |-> 0], room - together.min, total - together.size)
        [] ~ru /\ small # {} -> Fit(c, S \ {i}, together, room - c[i].min, total - c[i].size)
        [] OTHER -> [left |-> S, room |-> room, total |-> total, ru |-> together.min]

\* Columns of S that did not fit have their minimum, the others their share.
Fitted(c, S, fit) ==
  [i \in S |-> IF i \in fit.left /\ fit.total > 0 THEN (fit.room * c[i].size) \div fit.total
               ELSE c[i].min]
Leftover(fit, widths) == fit.room - Sum(LAMBDA i : widths[i], fit.left)

\* Unsized columns grow from their maximum, or shrink from it to their minimum.
Unsizedwidths(c, room) ==
  LET uns == Typed(c, "unsized")
      spare == room - Minof(c, uns)
      want == Maxof(c, uns) - Minof(c, uns)
  IN  [i \in uns |->
         IF Maxof(c, uns) <= room THEN (c[i].max * room) \div Maxof(c, uns)
         ELSE IF want > 0 THEN c[i].min + ((c[i].max - c[i].min) * spare) \div want
         ELSE c[i].min]

\* The room that percentages left over is for the relative columns, and for
\* the unsized ones; these have their minimum when there are relative ones.
Dividerelatives(c, open, fit, sharesrest) ==
  LET widths == Fitted(c, open, fit)
  IN  widths @@ IF sharesrest THEN Unsizedwidths(c, Leftover(fit, widths)) ELSE <<>>

\* When ru is 0 the relative and unsized columns had their minimum together.
Divideothers(c, ru, room) ==
  LET rel == Typed(c, "relative")
      uns == Typed(c, "unsized")
      open == IF ru > 0 THEN rel ELSE {i \in rel : c[i].min = 0}
      minuns == IF ru > 0 /\ Minof(c, rel) > 0 THEN Minof(c, uns) ELSE 0
  IN  Dividerelatives(c, open, Fit(c, open, [min |-> 0, size |-> 0], room - minuns, Sizeof(c, rel)),
                      ru > 0 /\ Minof(c, uns) > 0 /\ Minof(c, rel) = 0)

Dividepercents(c, fit) ==
  LET widths == Fitted(c, Typed(c, "percent"), fit)
  IN  widths @@ Divideothers(c, fit.ru, Leftover(fit, widths))

\* There is room for the columns with a size in pixels; if there are no others
\* they have all of it.
Pixelwidths(c, wanted, room) ==
  LET sizepix == Sum(LAMBDA i : wanted[i], DOMAIN wanted)
  IN  IF Minof(c, DOMAIN c \ DOMAIN wanted) > 0 \/ sizepix = 0 THEN wanted
      ELSE [i \in DOMAIN wanted |-> (wanted[i] * room) \div sizepix]

Dividecols(c, wanted, room) ==
  LET prc == Typed(c, "percent")
      minru == Minof(c, Typed(c, "relative") \cup Typed(c, "unsized"))
      ruprc == IF minru > 0 THEN Largest({100 - Sizeof(c, prc)}) ELSE 0
      pixels == Pixelwidths(c, wanted, room)
      fit == Fit(c, prc, [min |-> minru, size |-> ruprc],
                 room - Sum(LAMBDA i : pixels[i], DOMAIN pixels), Sizeof(c, prc) + ruprc)
  IN  pixels @@ Dividepercents(c, fit) @@ [i \in DOMAIN c |-> c[i].min]

Columnwidths(c, wanted, room) ==
  LET more == Sum(LAMBDA i : wanted[i], DOMAIN wanted) - Minof(c, DOMAIN wanted)
      spare == room - Minof(c, DOMAIN c)
  IN  IF spare <= 0 THEN [i \in DOMAIN c |-> c[i].min]
      ELSE IF more < spare THEN Dividecols(c, wanted, room)
      ELSE [i \in DOMAIN c |->
              IF i \in DOMAIN wanted /\ more > 0
              THEN c[i].min + ((wanted[i] - c[i].min) * spare) \div more
              ELSE c[i].min]

\* A bug: the widths of the table are compared.
DifferInTotal(c, widths) ==
  Sum(LAMBDA i : c[i].width, DOMAIN c) # Sum(LAMBDA i : widths[i], DOMAIN c)
\* A column that had no width yet does not count.
Differ(c, widths) == \E i \in DOMAIN c : c[i].width # 0 /\ c[i].width # widths[i]

\* The rows that are measured, or all, are laid out in columns of these widths.
Layoutrows(st, widths, again) ==
  LET place == again \/ "layedout" \notin st.table
      new == [i \in DOMAIN widths |->
                [st.cols[i] EXCEPT !.width = widths[i],
                                   !.x = IF place THEN Sum(LAMBDA j : widths[j], 1..(i - 1)) ELSE @]]
      laid(row) == [i \in DOMAIN row.cells |->
                      [row.cells[i] EXCEPT !.x = new[i].x, !.width = new[i].width]]
  IN  [st EXCEPT !.cols = new, !.table = @ \cup {"layedout"},
                 !.aow = IF place THEN Sum(LAMBDA j : widths[j], DOMAIN widths) ELSE @,
                 !.rows = [r \in DOMAIN @ |->
                    IF @[r].state = "measured" \/ (again /\ @[r].state = "rendered")
                    THEN [state |-> "rendered", cells |-> laid(@[r])] ELSE @[r]]]

\* Widths that differ from the old ones make it a layout of all rows.
Relayout(st, widths, all) ==
  Layoutrows(st, widths, all \/ "incremental" \notin st.table \/ Differ(st.cols, widths))

Layout(st, all, w) ==
  LET wanted == [i \in Typed(st.cols, "pixels") |-> Max({st.cols[i].min, st.cols[i].size})]
      room == IF st.min > w THEN st.min ELSE Min({st.max, w})
  IN  Relayout(st, Columnwidths(st.cols, wanted, room), all)

\* A table that is too wide is laid out once more with AMLF_FORCE, which ends
\* its incremental display.
Force(once, w) ==
  IF once.aow > w THEN [Layout(once, TRUE, w) EXCEPT !.table = @ \ {"incremental"}] ELSE once

Layouttable(st, all, w) == Force(Layout(st, all, w), w)

Lays(st) ==
  /\ st.table \cap {"incremental", "complete"} # {}
  /\ st.rows # <<>> /\ st.rows[1].state # "initial"

\* Aligning and rendering what was laid out.
Show(laid) ==
  /\ rows' = laid.rows /\ cols' = laid.cols /\ table' = laid.table \cup {"aligned"}
  /\ tabwidths' = [min |-> laid.min, max |-> laid.max, aow |-> laid.aow]

Display(st, all, w) ==
  LET past == Lays(st) /\ nrcols > Len(st.cols)
  IN  /\ overrun' = past
      /\ IF past THEN UNCHANGED <<rows, cols, table, tabwidths>>
         ELSE Show(IF Lays(st) THEN Layouttable(st, all, w) ELSE st)

-----------------------------------------------------------------------------
\* The parser.  A new row completes the rows before it.
Startrow ==
  LET shows == {"aligned", "incremental"} \subseteq table /\ rows # <<>>
  IN  /\ busy /\ ~overrun /\ "complete" \notin table /\ Len(rows) < MaxRows
      /\ rows # <<>> => Last(rows).cells # <<>>
      /\ rows' = Append(IF shows THEN [r \in DOMAIN rows |->
                            [rows[r] EXCEPT !.state = IF @ = "initial" THEN "complete" ELSE @]]
                        ELSE rows, [state |-> "initial", cells |-> <<>>])
      /\ changed' = IF shows THEN "child" ELSE changed
      /\ UNCHANGED <<nrcols, cols, table, tabwidths, busy, winwidth, overrun>>

Startcell ==
  \E spec \in Cellspecs :
    LET r == Len(rows)
    IN  /\ busy /\ "complete" \notin table /\ rows # <<>> /\ Len(rows[r].cells) < MaxCols
        /\ rows' = [rows EXCEPT ![r].cells = Append(@, Newcell(spec))]
        /\ nrcols' = Max({nrcols, Len(rows[r].cells) + 1})
        /\ UNCHANGED <<cols, table, tabwidths, changed, busy, winwidth, overrun>>

Endtable ==
  /\ busy /\ "complete" \notin table /\ rows # <<>> /\ Last(rows).cells # <<>>
  /\ rows' = [r \in DOMAIN rows |->
                [rows[r] EXCEPT !.state = IF @ = "initial" THEN "complete" ELSE @]]
  /\ table' = table \cup {"complete"}
  /\ changed' = IF "aligned" \in table THEN "child" ELSE changed
  /\ UNCHANGED <<nrcols, cols, tabwidths, busy, winwidth, overrun>>

\* More of the document arrives; elements after the table are added to its parent.
Srcupdatedocument ==
  /\ ~busy /\ ~overrun /\ busy' = TRUE
  /\ changed' \in IF "complete" \in table THEN {"no", "flag"} ELSE {"no"}
  /\ UNCHANGED <<rows, nrcols, cols, table, tabwidths, winwidth, overrun>>

\* An image in a cell got its size: the rows from there on are measured again.
Changedchild ==
  \E r \in DOMAIN rows : \E i \in DOMAIN rows[r].cells, spec \in Cellspecs :
    LET old == rows[r].cells[i].spec
        from == IF rows[r].state = "rendered" THEN r ELSE 1
    IN  /\ ~busy /\ ~overrun /\ busy' = TRUE
        /\ spec.type = old.type /\ spec.size = old.size /\ spec # old
        /\ rows' = [s \in DOMAIN rows |->
             LET row == IF s = r THEN [rows[s] EXCEPT !.cells[i].spec = spec] ELSE rows[s]
             IN  IF s >= from /\ row.state = "rendered" THEN [row EXCEPT !.state = "complete"] ELSE row]
        /\ changed' = "child"
        /\ UNCHANGED <<nrcols, cols, table, tabwidths, winwidth, overrun>>

\* At the end of the event the frame measures and lays out what has changed.
Updatecopy ==
  /\ busy /\ ~overrun /\ busy' = FALSE /\ changed' = "no"
  /\ IF changed = "no" THEN UNCHANGED <<rows, cols, table, tabwidths, overrun>>
     ELSE Display(Measuretable, changed = "flag", winwidth)
  /\ UNCHANGED <<nrcols, winwidth>>

\* The window got another size: all is laid out, and nothing measured.
Resizeframe ==
  \E w \in Winwidths \ {winwidth} :
    /\ ~busy /\ ~overrun
    /\ winwidth' = w /\ Display(Asmeasured, TRUE, w)
    /\ UNCHANGED <<nrcols, changed, busy>>

TableNext ==
  \/ Startrow \/ Startcell \/ Endtable \/ Srcupdatedocument
  \/ Changedchild \/ Updatecopy \/ Resizeframe

TableSpec == TableInit /\ [][TableNext]_tableVars

-----------------------------------------------------------------------------
\* The window shows what has arrived.  A table whose incremental display was
\* ended by one more column stays as it is, in any window, until it is complete.
Shown == ~busy /\ "layedout" \in table /\ ~overrun /\ table \cap {"incremental", "complete"} # {}

\* The cells that are shown have the place and the width of their column.
CellsInColumns ==
  \A r \in DOMAIN rows : rows[r].state = "rendered" =>
    \A i \in DOMAIN rows[r].cells :
      rows[r].cells[i].x = cols[i].x /\ rows[r].cells[i].width = cols[i].width

\* Every column has room for its cells, and together they fit in the window.
ColumnsFit ==
  Shown =>
    /\ \A i \in DOMAIN cols : cols[i].width >= cols[i].min
    /\ Sum(LAMBDA i : cols[i].width, DOMAIN cols) <= Max({winwidth, tabwidths.min})

\* In whatever portions a table arrives, and whatever images and windows do to
\* its cells meanwhile: what is shown is one table.  Rows laid out long ago
\* agree with the present columns, these fit their cells and the window, and
\* a table that has ended shows all of its rows.
OneTable ==
  /\ CellsInColumns /\ ColumnsFit
  /\ Shown /\ "complete" \in table => \A r \in DOMAIN rows : rows[r].state = "rendered"

\* "If the relayout results in different widths, relayout the entire table":
\* then a column starts where the one before it ends.  It need not: see Differ.
ColumnsApart ==
  Shown => \A i \in 1..(Len(cols) - 1) : cols[i + 1].x = cols[i].x + cols[i].width
=============================================================================
