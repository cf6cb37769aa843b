---------------------------- MODULE MCPagedFile ----------------------------
(***************************************************************************)
(* Model-checking instance of PagedFile: two lines, a spill file of up to  *)
(* eight bytes, texts mixing one-byte and wide characters and newlines.    *)
(***************************************************************************)
EXTENDS PagedFile

MCChunks == {<<"a">>, <<"W">>, <<"a", "NL">>}

\* A viewport of 2 columns, and one of 3 with continuation markers.
MCWrapModes == {[width |-> 2, markers |-> FALSE], [width |-> 3, markers |-> TRUE]}

\* Viewports as narrow as two columns, with markers, and zero columns.
MCNarrowWrapModes ==
  {[width |-> 2, markers |-> TRUE], [width |-> 0, markers |-> FALSE]}

=============================================================================
