------------------------------ MODULE MCSearch ------------------------------
(***************************************************************************)
(* Model-checking instance of SimplePagerSearch: up to three short lines   *)
(* of lower- and upper-case letters, searched for with literal, end-      *)
(* anchored and invalid patterns, and, for its own run, with "^a".        *)
(***************************************************************************)
EXTENDS SimplePagerSearch

MCChunks == {<<"a">>, <<"A">>, <<"a", "NL">>}
MCWrapModes == {[width |-> 2, markers |-> FALSE]}

Pat(lit, bol, eol, valid) == [lit |-> lit, bol |-> bol, eol |-> eol, valid |-> valid]

\* "a" (any case, by smart case), "A" (exact case), "aa", "a$", and "[".
MCPatterns ==
  {Pat(<<"a">>, FALSE, FALSE, TRUE), Pat(<<"A">>, FALSE, FALSE, TRUE),
   Pat(<<"a", "a">>, FALSE, FALSE, TRUE), Pat(<<"a">>, FALSE, TRUE, TRUE),
   Pat(<<>>, FALSE, FALSE, FALSE)}

\* For the nearest-match question over three lines: "a", "A" and "[", so
\* that lines with and without matches, and no pattern at all, alternate.
MCNearestPatterns ==
  {Pat(<<"a">>, FALSE, FALSE, TRUE), Pat(<<"A">>, FALSE, FALSE, TRUE),
   Pat(<<>>, FALSE, FALSE, FALSE)}

\* "^a": a pattern anchored at the start of the line.
MCAnchoredPatterns == {Pat(<<"a">>, TRUE, FALSE, TRUE)}

=============================================================================
