---------------------------- MODULE MCWrapSteps ----------------------------
(***************************************************************************)
(* Model-checking instance of WrapSteps: lines of one-column and          *)
(* two-column characters, wrapped to widths 1 and 2, with and without     *)
(* markers; a line of three characters makes at most three segments, so  *)
(* only a loop that makes no progress reaches MaxSegs = 4.                 *)
(***************************************************************************)
EXTENDS WrapSteps

MCTexts == {<<"a", "a", "a">>, <<"a", "W">>, <<"W", "a">>}
MCWidths == {1, 2}

====
