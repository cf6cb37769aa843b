---------------------------- MODULE VirtualRows ----------------------------
(***************************************************************************)
(* The Virtual Row Index of pfile/paged_line.c: the mapping between the    *)
(* on-screen rows of a wrapped PagedLineArray and (line, segment) pairs.   *)
(* A line with no segments is one row; a line with n segments is n rows.   *)
(* Only the segment lists of the lines matter here, so pla is any          *)
(* sequence of records with a field "segments".                            *)
(***************************************************************************)
EXTENDS Integers, Sequences, SequencesExt

\* Rows a line takes: ARRAY_SIZE(&pl->segments), or 1 for an unwrapped line.
RowsOf(pl) == IF Len(pl.segments) = 0 THEN 1 ELSE Len(pl.segments)

\* paged_lines_count_virtual_rows()
CountVirtualRows(pla) ==
  LET count[i \in 0..Len(pla)] ==
        IF i = 0 THEN 0 ELSE count[i - 1] + RowsOf(pla[i])
  IN  count[Len(pla)]

\* Fault-injection variant: the row test is off by one (<= for <).
RECURSIVE FindFromOffByOne(_, _, _)
FindFromOffByOne(pla, virt_row, i) ==
  LET v == CountVirtualRows(SubSeq(pla, 1, i - 1))
  IN  IF i > Len(pla)
      THEN [found    |-> FALSE,
            pl_index |-> IF Len(pla) > 0 THEN Len(pla) - 1 ELSE -1,
            seg_index |-> IF Len(pla) > 0 /\ Len(pla[Len(pla)].segments) > 0
                          THEN Len(pla[Len(pla)].segments) - 1 ELSE -1]
      ELSE IF virt_row <= v + RowsOf(pla[i])
           THEN [found |-> TRUE, pl_index |-> i - 1, seg_index |-> virt_row - v]
           ELSE FindFromOffByOne(pla, virt_row, i + 1)

(***************************************************************************)
(* paged_lines_find_virtual_row(): walk the lines accumulating rows until  *)
(* virt_row falls inside one.  A negative row gives (0, 0); a row past the *)
(* end gives the last line and the index of its last segment, which is -1 *)
(* when that line is unwrapped (pl is left at the last element by         *)
(* ARRAY_FOREACH).  Both clamps report "not found".                       *)
(***************************************************************************)
RECURSIVE FindFrom(_, _, _)
FindFrom(pla, virt_row, i) ==
  \* v: rows before line i
  LET v == CountVirtualRows(SubSeq(pla, 1, i - 1))
  IN  IF i > Len(pla)
      THEN [found    |-> FALSE,
            pl_index |-> IF Len(pla) > 0 THEN Len(pla) - 1 ELSE -1,
            seg_index |-> IF Len(pla) > 0 /\ Len(pla[Len(pla)].segments) > 0
                          THEN Len(pla[Len(pla)].segments) - 1 ELSE -1]
      ELSE IF virt_row < v + RowsOf(pla[i])
           THEN [found |-> TRUE, pl_index |-> i - 1, seg_index |-> virt_row - v]
           ELSE FindFrom(pla, virt_row, i + 1)

FindVirtualRow(pla, virt_row) ==
  IF virt_row < 0
  THEN [found |-> FALSE, pl_index |-> 0, seg_index |-> 0]
  ELSE FindFrom(pla, virt_row, 1)

(***************************************************************************)
(* Reference definition: the rows of the array, in order, as (line,        *)
(* segment) pairs, 0-based like the C indices.                             *)
(***************************************************************************)
RowPositions(pla) ==
  FlattenSeq([i \in 1..Len(pla) |->
                [s \in 1..RowsOf(pla[i]) |-> <<i - 1, s - 1>>]])

=============================================================================
