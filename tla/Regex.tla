------------------------------- MODULE Regex -------------------------------
(***************************************************************************)
(* The POSIX regular expressions the Simple Pager search compiles with     *)
(* REG_COMP(..., REG_NEWLINE [| REG_ICASE]) and runs with regexec(...,     *)
(* REG_NOTBOL).  Patterns are abstracted to a literal, optionally anchored *)
(* with ^ and $, or one that fails to compile:                             *)
(*   [lit |-> <<bytes>>, bol |-> BOOLEAN, eol |-> BOOLEAN,                 *)
(*    valid |-> BOOLEAN]                                                    *)
(* Searched texts are cached lines, which never contain a newline, so      *)
(* with REG_NOTBOL a ^ matches nowhere and a $ only at the end.            *)
(***************************************************************************)
EXTENDS Integers, Sequences

\* mutt_mb_is_lower(): the pattern has no upper-case letter.
IsLower(p) == \A k \in 1..Len(p.lit) : p.lit[k] # "A"

Fold(b) == IF b = "A" THEN "a" ELSE b

\* The literal of p occurs in s at offset i (0-based).
LitAt(p, icase, s, i) ==
  /\ i + Len(p.lit) <= Len(s)
  /\ \A k \in 1..Len(p.lit) :
       IF icase THEN Fold(s[i + k]) = Fold(p.lit[k]) ELSE s[i + k] = p.lit[k]

\* p matches s at offset i, the start of s being the start of the line
\* when atBol holds.
MatchAt(p, icase, s, i, atBol) ==
  /\ LitAt(p, icase, s, i)
  /\ p.bol => (i = 0 /\ atBol)
  /\ p.eol => i + Len(p.lit) = Len(s)

(***************************************************************************)
(* regexec(&regex, s, 1, &pmatch, REG_NOTBOL): the leftmost match, as      *)
(* [so, eo], or NoMatch.  With REG_NOTBOL the start of s is not a line     *)
(* start.                                                                  *)
(***************************************************************************)
NoMatch == [so |-> -1, eo |-> -1]

RegExecNotBol(p, icase, s) ==
  LET starts == {i \in 0..Len(s) : MatchAt(p, icase, s, i, FALSE)}
  IN  IF starts = {} THEN NoMatch
      ELSE LET i == CHOOSE i \in starts : \A j \in starts : i <= j
           IN  [so |-> i, eo |-> i + Len(p.lit)]

(***************************************************************************)
(* Reference: every match of p in a whole line t, as [first, last) spans,  *)
(* with ^ matching at the start of the line as spec 4.5 says.              *)
(***************************************************************************)
Occurrences(p, t) ==
  LET icase == IsLower(p)
  IN  {[first |-> i, last |-> i + Len(p.lit)] :
         i \in {j \in 0..Len(t) : MatchAt(p, icase, t, j, TRUE)}}

=============================================================================
