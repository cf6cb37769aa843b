------------------------- MODULE SimplePagerSearch -------------------------
(***************************************************************************)
(* The Search Engine of the Simple Pager (spager/search.c) composed with   *)
(* the PagedFile it searches.  A SimplePagerSearch keeps the pattern, the  *)
(* compiled regex, a direction and a non-owning pointer to the line array; *)
(* a search writes match spans into every line's search markup, and       *)
(* spager_search_next() walks the lines for the next one with a match.    *)
(*                                                                         *)
(* The search object exists from the start (spager_search_new()).  Its    *)
(* pla is NULL or the lines of the one PagedFile ("Lines").                *)
(***************************************************************************)
EXTENDS PagedFile, Regex

CONSTANTS
  Patterns,   \* patterns the user searches for (see Regex)
  Lines       \* model value: &pf->lines

VARIABLES
  pattern,    \* sps->pattern: a pattern, or NULL
  compiled,   \* sps->compiled
  regex,      \* sps->regex: the compiled pattern, or NULL when freed
  direction,  \* sps->direction
  pla,        \* sps->pla: Lines or NULL
  show_search,\* sps->show_search
  last_next   \* the last spager_search_next() call and its outputs

search_vars == <<pattern, compiled, regex, direction, pla, show_search, last_next>>
all_vars == <<vars, search_vars>>

Directions == {"SD_SEARCH_FORWARDS", "SD_SEARCH_BACKWARDS"}

\* spager_search_clear()
SearchClear ==
  /\ pattern' = NULL
  /\ regex' = IF compiled THEN NULL ELSE regex
  /\ compiled' = FALSE
  /\ direction' = "SD_SEARCH_FORWARDS"
  /\ pla' = NULL
  /\ UNCHANGED <<show_search, last_next, vars>>

\* spager_search_set_lines()
SetLines(new) ==
  /\ pla # new
  /\ pattern' = NULL
  /\ regex' = IF compiled THEN NULL ELSE regex
  /\ compiled' = FALSE
  /\ direction' = "SD_SEARCH_FORWARDS"
  /\ pla' = new
  /\ UNCHANGED <<show_search, last_next, vars>>

\* paged_line_add_search(): a span [first, last) of MT_COLOR_SEARCH.
AddSearch(ptma, first, last) == MarkupNew(ptma, first, last, MT_COLOR_SEARCH, FALSE)

\* Fault-injection variant: the regexec() result is not checked before the
\* match is recorded.
RECURSIVE ScanLineUnchecked(_, _, _, _, _)
ScanLineUnchecked(p, icase, text, offset, spans) ==
  LET m == RegExecNotBol(p, icase, SubSeq(text, offset + 1, Len(text)))
      spans2 == AddSearch(spans, offset + m.so, offset + m.eo)
      offset2 == IF m.eo = m.so THEN offset + 1 ELSE offset + m.eo
  IN  IF offset2 >= Len(text) THEN spans2
      ELSE ScanLineUnchecked(p, icase, text, offset2, spans2)

\* Fault-injection variant: the match is recorded at its offset in the rest
\* of the text, not in the line.
RECURSIVE ScanLineNoOffset(_, _, _, _, _)
ScanLineNoOffset(p, icase, text, offset, spans) ==
  LET m == RegExecNotBol(p, icase, SubSeq(text, offset + 1, Len(text)))
      spans2 == AddSearch(spans, m.so, m.eo)
      offset2 == IF m.eo = m.so THEN offset + 1 ELSE offset + m.eo
  IN  IF m = NoMatch THEN spans
      ELSE IF offset2 >= Len(text) THEN spans2
      ELSE ScanLineNoOffset(p, icase, text, offset2, spans2)

(***************************************************************************)
(* The match loop of spager_search_search() over one line's text: record  *)
(* the leftmost match after offset, then move past it, or by one byte     *)
(* after an empty match; stop at the end of the text.                      *)
(***************************************************************************)
RECURSIVE ScanLine(_, _, _, _, _)
ScanLine(p, icase, text, offset, spans) ==
  LET m == RegExecNotBol(p, icase, SubSeq(text, offset + 1, Len(text)))
      spans2 == AddSearch(spans, offset + m.so, offset + m.eo)
      offset2 == IF m.eo = m.so THEN offset + 1 ELSE offset + m.eo
  IN  IF m = NoMatch THEN spans
      ELSE IF offset2 >= Len(text) THEN spans2
      ELSE ScanLine(p, icase, text, offset2, spans2)

\* The second loop of spager_search_search(): get each line's text
\* (caching it) and record its matches, in line order.
RECURSIVE SearchLines(_, _, _, _, _)
SearchLines(p, ls, i, f, ps) ==
  IF i > Len(ls) THEN [lines |-> ls, pos |-> ps]
  ELSE LET c == Cache(ls[i], f, ps)
           t == c.line.cached_text
           l2 == IF t = NULL THEN c.line
                 ELSE [c.line EXCEPT !.search = ScanLine(p, IsLower(p), t, 0, @)]
       IN  SearchLines(p, [ls EXCEPT ![i] = l2], i + 1, f, c.pos)

(***************************************************************************)
(* spager_search_search(sps, pattern, ...): free the old pattern, compile  *)
(* the new one (smart case), and on success empty every line's search     *)
(* markup and rebuild it from the whole file.  start_index and direction  *)
(* are not used by the code.  A failed compile returns at once.            *)
(***************************************************************************)
SpagerSearch(p) ==
  /\ Viewer
  /\ pla # NULL
  /\ IF ~p.valid
     THEN /\ pattern' = IF compiled THEN NULL ELSE pattern
          /\ regex' = NULL
          /\ UNCHANGED <<compiled, vars>>
     ELSE LET emptied == [i \in 1..Len(lines) |-> [lines[i] EXCEPT !.search = <<>>]]
              s == SearchLines(p, emptied, 1, file, pos)
          IN  /\ compiled' = TRUE
              /\ pattern' = p
              /\ regex' = p
              /\ lines' = s.lines
              /\ pos' = s.pos
              /\ UNCHANGED <<file, producing, view, hung, written>>
  /\ UNCHANGED <<direction, pla, show_search, last_next>>

HasMatches(i) == Len(lines[i + 1].search) > 0

(***************************************************************************)
(* spager_search_next(sps, start_row, direction): forwards, the lines      *)
(* after start_row, then ARRAY_FOREACH_TO(..., start_row - 1), i.e. lines  *)
(* 0 .. start_row - 2, the bound being converted to size_t (so for         *)
(* start_row = 0 every line); backwards, the lines before start_row, then *)
(* from the last line down to start_row + 1.  Indices are 0-based.         *)
(***************************************************************************)
ForwardOrder(start) ==
  LET n == Len(lines)
      to == IF start - 1 < 0 THEN n ELSE start - 1
  IN  [k \in 1..(n - (start + 1)) |-> start + k]
      \o [k \in 1..(IF to < n THEN to ELSE n) |-> k - 1]

\* Fault-injection variant: the wrap-around loop backwards runs down to
\* start_row itself (i >= start_row).
BackwardOrderInclusive(start) ==
  LET n == Len(lines)
  IN  [k \in 1..start |-> start - k]
      \o [k \in 1..(n - start) |-> n - k]

BackwardOrder(start) ==
  LET n == Len(lines)
  IN  [k \in 1..start |-> start - k]
      \o [k \in 1..(n - 1 - start) |-> n - k]

NextIn(order) ==
  LET hits == {k \in 1..Len(order) : HasMatches(order[k])}
  IN  IF hits = {} THEN [rc |-> "SR_SEARCH_ERROR", index |-> NULL]
      ELSE [rc |-> "SR_SEARCH_MATCHES",
            index |-> order[CHOOSE k \in hits : \A j \in hits : k <= j]]

SpagerSearchNext(start, dir) ==
  /\ Viewer
  /\ pattern # NULL /\ pla # NULL
  /\ LET r == NextIn(IF dir = "SD_SEARCH_FORWARDS" THEN ForwardOrder(start)
                     ELSE BackwardOrder(start))
     IN  last_next' = [start |-> start, dir |-> dir, rc |-> r.rc, index |-> r.index,
                       hits |-> {i \in 0..Len(lines) - 1 : HasMatches(i)}]
  /\ UNCHANGED <<vars, pattern, compiled, regex, direction, pla, show_search>>

-----------------------------------------------------------------------------
SearchInit ==
  /\ Init
  /\ pattern = NULL
  /\ compiled = FALSE
  /\ regex = NULL
  /\ direction = "SD_SEARCH_FORWARDS"
  /\ pla = NULL
  /\ show_search = TRUE
  /\ last_next = NULL

\* The PagedFile's own operations, less paged_line_clear(), which the source
\* calls only from paged_file_free().
FileNext ==
  \/ NewLine
  \/ \E c \in Chunks : AddText(c)
  \/ \E cid \in Cids, c \in Chunks : AddColoredText(cid, c)
  \/ \E c \in Chunks : AddAnsiText(c)
  \/ AddNewline
  \/ FinishProducing
  \/ \E i \in 1..Len(lines) : GetText(i)
  \/ \E m \in WrapModes : LinesWrap(m)

SearchNext ==
  \/ FileNext /\ UNCHANGED search_vars
  \/ SearchClear
  \/ \E new \in {Lines, NULL} : SetLines(new)
  \/ \E p \in Patterns : SpagerSearch(p)
  \/ \E start \in 0..Len(lines) - 1, dir \in Directions : SpagerSearchNext(start, dir)

SearchSpec == SearchInit /\ [][SearchNext]_all_vars

-----------------------------------------------------------------------------
(***************************************************************************)
(* Properties                                                              *)
(***************************************************************************)
SearchTypeOK ==
  /\ TypeOK
  /\ pattern \in Patterns \cup {NULL}
  /\ compiled \in BOOLEAN
  /\ regex \in Patterns \cup {NULL}
  /\ direction \in Directions
  /\ pla \in {Lines, NULL}
  /\ show_search \in BOOLEAN
  /\ last_next \in {NULL} \cup
       [start : Nat, dir : Directions, rc : {"SR_SEARCH_MATCHES", "SR_SEARCH_ERROR"},
        index : Nat \cup {NULL}, hits : SUBSET Nat]

(***************************************************************************)
(* The search index is the file's matches (spec 4.5), with ^ and $         *)
(* matching at the start and end of each line: while a pattern is set,    *)
(* every line's search spans (from ScanLine's regexec loop) are matches   *)
(* of it in the line's text,                                              *)
(* in increasing order and not overlapping, and every match of the        *)
(* pattern in the line is recorded or lies inside an earlier recorded     *)
(* match (leftmost, non-overlapping scanning).                             *)
(***************************************************************************)
SearchIndexSound ==
  pattern # NULL =>
  \A i \in 1..Len(lines) :
    LET t == lines[i].cached_text
        S == lines[i].search
        O == IF t = NULL THEN {} ELSE Occurrences(pattern, t)
    IN  /\ \A k \in 1..Len(S) : [first |-> S[k].first, last |-> S[k].last] \in O
        /\ \A k \in 1..Len(S) - 1 :
             S[k].first < S[k + 1].first /\ S[k].last <= S[k + 1].first
        /\ \A o \in O : \E k \in 1..Len(S) :
             \/ o.first = S[k].first
             \/ S[k].first < o.first /\ o.first < S[k].last

\* Reference for "find next": the nearest other line with matches, going
\* round the file in direction dir from line start (0-based).
CyclicNext(start, dir, hits, n) ==
  LET dist(i) == IF dir = "SD_SEARCH_FORWARDS" THEN (i - start + n) % n
                 ELSE (start - i + n) % n
      cands == hits \ {start}
  IN  IF cands = {} THEN NULL
      ELSE CHOOSE i \in cands : \A j \in cands : dist(i) <= dist(j)

NextAgrees(d) ==
  last_next # NULL /\ last_next.dir = d =>
    LET want == CyclicNext(last_next.start, d, last_next.hits, Len(lines))
    IN  /\ last_next.index = want
        /\ last_next.rc = IF want = NULL THEN "SR_SEARCH_ERROR" ELSE "SR_SEARCH_MATCHES"

(***************************************************************************)
(* "Find previous" (spec 4.5): spager_search_next() backwards returns the  *)
(* nearest line with matches before start_row, wrapping round from the    *)
(* last line, never start_row itself; "no match" only when no other line  *)
(* has a match.                                                            *)
(***************************************************************************)
BackwardNextNearest == NextAgrees("SD_SEARCH_BACKWARDS")

(***************************************************************************)
(* "Find next" (spec 4.5 and 8): spager_search_next() forwards returns the *)
(* nearest line with matches after start_row, wrapping round to line 0    *)
(* and on up to start_row - 1, never start_row itself.                     *)
(***************************************************************************)
ForwardNextNearest == NextAgrees("SD_SEARCH_FORWARDS")

(***************************************************************************)
(* The search object's invariant (spec 3): compiled is set exactly when a  *)
(* pattern is held; spager_search_clear() and a new search keep them      *)
(* together, so a later search never regfree()s a regex that is not       *)
(* compiled.                                                               *)
(***************************************************************************)
CompiledIffPattern == compiled <=> pattern # NULL

(***************************************************************************)
(* No stale matches (spec 7b): when no pattern is held (after a failed     *)
(* search, spager_search_clear() or a rebinding), no line still carries    *)
(* search match spans from an earlier search.                              *)
(***************************************************************************)
NoStaleMatches ==
  pattern = NULL => \A i \in 1..Len(lines) : lines[i].search = <<>>

=============================================================================
