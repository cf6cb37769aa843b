----------------------------- MODULE PagedFile -----------------------------
(***************************************************************************)
(* The backing store of the Simple Pager (pfile/): a PagedFile, its spill  *)
(* file and the PagedLines that index into it, with the markup spans of    *)
(* paged_text.c, lazy caching, and wrapping of the whole line array.       *)
(*                                                                         *)
(* The file is live from the start (paged_file_new(NULL) succeeded, see    *)
(* PagedFileOwnership for its lifecycle).  Its FILE* stream has ONE        *)
(* position, pos, shared by writes (fputs) and by cache reads (fseek +     *)
(* mutt_file_read_line), exactly as in the code.                           *)
(*                                                                         *)
(* The caller is a producer (version.c, key/dump.c, color/*.c) that        *)
(* creates lines and appends text to the newest one, followed by a viewer  *)
(* (the simple pager) that reads, wraps and searches.  producing is the    *)
(* caller's phase; with ViewWhileProducing the viewer may also act while *)
(* producer is still writing, which the API does not forbid.               *)
(***************************************************************************)
EXTENDS Integers, Sequences, SequencesExt, Mbyte, VirtualRows

CONSTANTS
  Chunks,     \* texts a producer appends: sequences of Chars
  Cids,       \* colour ids passed to paged_line_add_colored_text()
  WrapModes,  \* viewport widths and flags: records [width, markers]
  MaxLines,   \* bound on paged_file_new_line() calls
  MaxBytes,   \* bound on the size of the spill file
  SizeMax,    \* stands for SIZE_MAX: exceeds every width in the model
  ViewWhileProducing, \* may the viewer act before the producer has finished?
  NULL        \* the NULL cached_text

ASSUME MaxLines \in Nat /\ MaxBytes \in Nat /\ ViewWhileProducing \in BOOLEAN
ASSUME \A m \in WrapModes : m.width \in Int /\ m.markers \in BOOLEAN
ASSUME \A m \in WrapModes : m.width < SizeMax

VARIABLES
  file,      \* contents of the spill file, a sequence of Bytes
  pos,       \* the stream position of pf->fp
  lines,     \* pf->lines: the PagedLineArray
  producing, \* the caller is still producing text
  view,      \* width and flags of the last paged_lines_wrap() call
  hung,      \* a paged_line_wrap() call never returned
  written    \* history: the bytes each line's add_* calls wrote

vars == <<file, pos, lines, producing, view, hung, written>>

\* mutt_wstr_trunc() takes maxwid as size_t: a negative width is huge.
MaxWid(w) == IF w < 0 THEN SizeMax ELSE w

NoSpans == <<>>

\* The colour id paged_line_add_search() gives a search match.
MT_COLOR_SEARCH == 40

(***************************************************************************)
(* Markup spans (paged_text.c).  A span is [first, last, cid, ansi]; an    *)
(* ANSI span keeps the zero cid of paged_text_markup_new() and owns its    *)
(* escape strings (ansi = TRUE).  paged_text_markup_clear() frees them and *)
(* empties the array.                                                      *)
(***************************************************************************)
MarkupNew(ptma, first, last, cid, ansi) ==
  Append(ptma, [first |-> first, last |-> last, cid |-> cid, ansi |-> ansi])

MarkupClear(ptma) == <<>>

\* fputs(bytes, fp): overwrite from the stream position, extending the file.
Put(f, p, bytes) ==
  SubSeq(f, 1, p) \o bytes \o SubSeq(f, p + Len(bytes) + 1, Len(f))

\* Fault-injection variant: read from the stream position, no fseek().
CacheNoSeek(pl, f, p) ==
  IF pl.cached_text # NULL
  THEN [line |-> pl, pos |-> p]
  ELSE LET rl == ReadLine(f, p, NULL)
           txt == IF rl.text = NULL THEN <<>> ELSE rl.text
       IN  [line |-> [pl EXCEPT !.cached_text = rl.text,
                                !.num_bytes   = StrLen(txt),
                                !.num_cols    = StrWidth(txt)],
            pos  |-> rl.pos]

(***************************************************************************)
(* paged_line_cache(): a no-op once cached_text is set; otherwise seek to  *)
(* the line's offset, read one line and recompute the counters from it.    *)
(* Returns the new line and the new stream position.                       *)
(***************************************************************************)
Cache(pl, f, p) ==
  IF pl.cached_text # NULL
  THEN [line |-> pl, pos |-> p]
  ELSE LET rl == ReadLine(f, pl.offset, NULL)
           txt == IF rl.text = NULL THEN <<>> ELSE rl.text
       IN  [line |-> [pl EXCEPT !.cached_text = rl.text,
                                !.num_bytes   = StrLen(txt),
                                !.num_cols    = StrWidth(txt)],
            pos  |-> rl.pos]

\* Fault-injection variant: a segment's column offset is taken from the
\* byte counter.
RECURSIVE WrapLoopColsFromBytes(_, _, _, _, _, _, _)
WrapLoopColsFromBytes(text, text_len, total_bytes, total_cols, width, markers, segs) ==
  IF total_bytes >= text_len
  THEN [segments |-> segs, hung |-> FALSE]
  ELSE LET seg   == [offset_bytes |-> total_bytes, offset_cols |-> total_bytes]
           r     == WstrTrunc(SubSeq(text, total_bytes + 1, Len(text)),
                              text_len - total_bytes, MaxWid(width))
           width2 == IF total_bytes = 0 /\ markers THEN width - 1 ELSE width
       IN  IF r.bytes = 0 /\ (width2 = width \/ MaxWid(width) = SizeMax)
           THEN [segments |-> Append(segs, seg), hung |-> TRUE]
           ELSE WrapLoopColsFromBytes(text, text_len, total_bytes + r.bytes,
                         total_cols + r.cols, width2, markers, Append(segs, seg))

(***************************************************************************)
(* The loop of paged_line_wrap(): record a segment at the current offset,  *)
(* consume the widest run that fits, and after the first run shrink the    *)
(* width by one when markers are shown.  A run of zero bytes that can      *)
(* never change (the width is no longer shrinking) repeats forever: the    *)
(* result is then marked hung.                                             *)
(***************************************************************************)
RECURSIVE WrapLoop(_, _, _, _, _, _, _)
WrapLoop(text, text_len, total_bytes, total_cols, width, markers, segs) ==
  IF total_bytes >= text_len
  THEN [segments |-> segs, hung |-> FALSE]
  ELSE LET seg   == [offset_bytes |-> total_bytes, offset_cols |-> total_cols]
           r     == WstrTrunc(SubSeq(text, total_bytes + 1, Len(text)),
                              text_len - total_bytes, MaxWid(width))
           width2 == IF total_bytes = 0 /\ markers THEN width - 1 ELSE width
       IN  IF r.bytes = 0 /\ (width2 = width \/ MaxWid(width) = SizeMax)
           THEN [segments |-> Append(segs, seg), hung |-> TRUE]
           ELSE WrapLoop(text, text_len, total_bytes + r.bytes,
                         total_cols + r.cols, width2, markers, Append(segs, seg))

\* paged_line_wrap(pl, width, flags)
WrapLine(pl, f, p, width, markers) ==
  LET cleared == [pl EXCEPT !.segments = <<>>]
  IN  IF pl.num_cols <= width
      THEN [line |-> cleared, pos |-> p, hung |-> FALSE]
      ELSE LET c   == Cache(cleared, f, p)
               txt == IF c.line.cached_text = NULL THEN <<>> ELSE c.line.cached_text
               r   == WrapLoop(txt, c.line.num_bytes, 0, 0, width, markers, <<>>)
           IN  [line |-> [c.line EXCEPT !.segments = r.segments],
                pos  |-> c.pos,
                hung |-> r.hung]

\* paged_lines_wrap(): wrap every line in turn, stopping at a hung one.
RECURSIVE WrapFrom(_, _, _, _, _, _)
WrapFrom(pla, i, f, p, width, markers) ==
  IF i > Len(pla) THEN [lines |-> pla, pos |-> p, hung |-> FALSE]
  ELSE LET w == WrapLine(pla[i], f, p, width, markers)
           pla2 == [pla EXCEPT ![i] = w.line]
       IN  IF w.hung THEN [lines |-> pla2, pos |-> w.pos, hung |-> TRUE]
           ELSE WrapFrom(pla2, i + 1, f, w.pos, width, markers)

-----------------------------------------------------------------------------
(***************************************************************************)
(* Producer operations.  They write to the newest line, as every producer  *)
(* in the source does.                                                     *)
(***************************************************************************)
Producer == producing /\ ~hung /\ Len(lines) > 0
Newest == Len(lines)

\* paged_file_new_line(): a zeroed line at the current stream position.
NewLine ==
  /\ producing /\ ~hung
  /\ Len(lines) < MaxLines
  /\ lines' = Append(lines, [offset |-> pos, num_bytes |-> 0, num_cols |-> 0,
                             text |-> NoSpans, search |-> NoSpans,
                             cached_text |-> NULL, segments |-> <<>>])
  /\ written' = Append(written, <<>>)
  /\ UNCHANGED <<file, pos, producing, view, hung>>

\* The common part of the add_*text() calls: write and count the text.
AddBytes(bytes, span) ==
  /\ Len(Put(file, pos, bytes)) <= MaxBytes
  /\ file' = Put(file, pos, bytes)
  /\ pos' = pos + Len(bytes)
  /\ lines' = [lines EXCEPT
                 ![Newest].text      = IF span = NULL THEN @
                                       ELSE MarkupNew(@, span.first, span.last, span.cid, span.ansi),
                 ![Newest].num_bytes = @ + StrLen(bytes),
                 ![Newest].num_cols  = @ + StrWidth(bytes)]
  /\ written' = [written EXCEPT ![Newest] = @ \o bytes]
  /\ UNCHANGED <<producing, view, hung>>

\* paged_line_add_text()
AddText(chunk) ==
  /\ Producer
  /\ AddBytes(EncodeText(chunk), NULL)

\* paged_line_add_colored_text(): also a span [num_bytes, +bytes) of cid.
AddColoredText(cid, chunk) ==
  LET bytes == EncodeText(chunk)
      nb    == lines[Newest].num_bytes
  IN  /\ Producer
      /\ AddBytes(bytes, [first |-> nb, last |-> nb + StrLen(bytes),
                          cid |-> cid, ansi |-> FALSE])

\* paged_line_add_ansi_text(): a span holding copies of the escape strings.
AddAnsiText(chunk) ==
  LET bytes == EncodeText(chunk)
      nb    == lines[Newest].num_bytes
  IN  /\ Producer
      /\ AddBytes(bytes, [first |-> nb, last |-> nb + StrLen(bytes),
                          cid |-> 0, ansi |-> TRUE])

\* paged_line_add_newline(): write a newline, leave the counters alone.
AddNewline ==
  /\ Producer
  /\ Len(Put(file, pos, <<"NL">>)) <= MaxBytes
  /\ file' = Put(file, pos, <<"NL">>)
  /\ pos' = pos + 1
  /\ written' = [written EXCEPT ![Newest] = @ \o <<"NL">>]
  /\ UNCHANGED <<lines, producing, view, hung>>

\* The producer hands the file to the pager.
FinishProducing ==
  /\ producing /\ ~hung
  /\ producing' = FALSE
  /\ UNCHANGED <<file, pos, lines, view, hung, written>>

-----------------------------------------------------------------------------
(***************************************************************************)
(* Viewer operations.                                                      *)
(***************************************************************************)
Viewer == (~producing \/ ViewWhileProducing) /\ ~hung

\* paged_line_get_text() / paged_line_get_virtual_text(): cache the line.
GetText(i) ==
  LET c == Cache(lines[i], file, pos)
  IN  /\ Viewer
      /\ lines' = [lines EXCEPT ![i] = c.line]
      /\ pos' = c.pos
      /\ UNCHANGED <<file, producing, view, hung, written>>

\* paged_lines_wrap(): the viewport (re)wraps every line to its width.
LinesWrap(mode) ==
  LET w == WrapFrom(lines, 1, file, pos, mode.width, mode.markers)
  IN  /\ Viewer
      /\ lines' = w.lines
      /\ pos' = w.pos
      /\ hung' = w.hung
      /\ view' = mode
      /\ UNCHANGED <<file, producing, written>>

\* paged_line_clear(): drop markup, cached text and segments.
LineClear(i) ==
  /\ Viewer
  /\ lines' = [lines EXCEPT ![i].text        = MarkupClear(@),
                            ![i].search      = MarkupClear(@),
                            ![i].cached_text = NULL,
                            ![i].segments    = <<>>]
  /\ UNCHANGED <<file, pos, producing, view, hung, written>>

-----------------------------------------------------------------------------
Init ==
  /\ file = <<>>
  /\ pos = 0
  /\ lines = <<>>
  /\ producing = TRUE
  /\ view = NULL
  /\ hung = FALSE
  /\ written = <<>>

Next ==
  \/ NewLine
  \/ \E c \in Chunks : AddText(c)
  \/ \E cid \in Cids, c \in Chunks : AddColoredText(cid, c)
  \/ \E c \in Chunks : AddAnsiText(c)
  \/ AddNewline
  \/ FinishProducing
  \/ \E i \in 1..Len(lines) : GetText(i)
  \/ \E m \in WrapModes : LinesWrap(m)
  \/ \E i \in 1..Len(lines) : LineClear(i)

Spec == Init /\ [][Next]_vars

-----------------------------------------------------------------------------
(***************************************************************************)
(* Properties                                                              *)
(***************************************************************************)
Span == [first : Nat, last : Nat, cid : Cids \cup {0, MT_COLOR_SEARCH}, ansi : BOOLEAN]
Segment == [offset_bytes : Nat, offset_cols : Nat]
Text == Seq(Bytes)

TypeOK ==
  /\ file \in Text /\ Len(file) <= MaxBytes
  /\ pos \in 0..Len(file)
  /\ lines \in Seq([offset : Nat, num_bytes : Nat, num_cols : Nat,
                    text : Seq(Span), search : Seq(Span),
                    cached_text : Text \cup {NULL}, segments : Seq(Segment)])
  /\ Len(lines) <= MaxLines
  /\ producing \in BOOLEAN /\ hung \in BOOLEAN
  /\ view \in WrapModes \cup {NULL}
  /\ written \in Seq(Text) /\ Len(written) = Len(lines)

\* Offsets (0-based) at which a character of s starts, and the end of s.
RECURSIVE BoundariesFrom(_, _)
BoundariesFrom(s, i) ==
  IF i > Len(s) THEN {i - 1}
  ELSE {i - 1} \cup BoundariesFrom(s, i + DecodeAt(s, i).len)
Boundaries(s) == BoundariesFrom(s, 1)

StripNL(w) == IF Len(w) > 0 /\ w[Len(w)] = "NL" THEN Front(w) ELSE w

\* A line the producer ended with its only newline, or a non-empty last
\* line written without any newline.
Terminated(i) ==
  LET w == written[i]
      nls == {j \in 1..Len(w) : w[j] = "NL"}
  IN  /\ Len(w) > 0
      /\ nls = {Len(w)} \/ (i = Len(lines) /\ nls = {})

\* What paged_line_get_text() returns for line i in the current state.
GetTextResult(i) == Cache(lines[i], file, pos).line.cached_text

(***************************************************************************)
(* Round trip through the spill file: paged_line_get_text() on a properly *)
(* terminated line returns exactly what the add_*text() calls wrote for    *)
(* that line, without the newline, whether it reads the file now or       *)
(* returns a copy cached earlier.  This ties the offset recorded by        *)
(* paged_file_new_line(), the shared stream position, the read-back in    *)
(* paged_line_cache() and its memoisation together.                        *)
(***************************************************************************)
CacheRoundTrip ==
  \A i \in 1..Len(lines) :
    Terminated(i) => GetTextResult(i) = StripNL(written[i])

(***************************************************************************)
(* Wrapping: after paged_lines_wrap() to the viewport's width, every       *)
(* wrapped line's segments start at (0, 0) and split its cached text into  *)
(* non-empty runs of whole characters, in order, covering all of it, each  *)
(* no wider than the width (one column less after the first segment when  *)
(* markers are shown), with column offsets that add up.                    *)
(***************************************************************************)
SegmentWidth(k) ==
  IF k = 1 \/ ~view.markers THEN view.width ELSE view.width - 1

WrapCoversLine ==
  view # NULL =>
  \A i \in 1..Len(lines) :
    LET segs == lines[i].segments
        txt  == lines[i].cached_text
    IN  Len(segs) > 0 =>
        /\ txt # NULL
        /\ segs[1] = [offset_bytes |-> 0, offset_cols |-> 0]
        /\ \A k \in 1..Len(segs) :
             LET from  == segs[k].offset_bytes
                 to    == IF k = Len(segs) THEN Len(txt)
                          ELSE segs[k + 1].offset_bytes
                 piece == SubSeq(txt, from + 1, to)
             IN  /\ from < to
                 /\ {from, to} \subseteq Boundaries(txt)
                 /\ StrWidth(piece) <= SegmentWidth(k)
                 /\ k < Len(segs) =>
                      segs[k + 1].offset_cols = segs[k].offset_cols + StrWidth(piece)

(***************************************************************************)
(* The Virtual Row Index agrees with the rows the lines really have:       *)
(* paged_lines_count_virtual_rows() is their number and                    *)
(* paged_lines_find_virtual_row() finds row r as the r-th (line, segment)  *)
(* pair, for every row on screen.                                          *)
(***************************************************************************)
VirtualRowIndexAgrees ==
  LET P == RowPositions(lines)
  IN  /\ CountVirtualRows(lines) = Len(P)
      /\ \A r \in 0..Len(P) - 1 :
           FindVirtualRow(lines, r)
             = [found |-> TRUE, pl_index |-> P[r + 1][1], seg_index |-> P[r + 1][2]]

(***************************************************************************)
(* Wrapping is idempotent (spec 4.2 and 8): paged_lines_wrap() twice with  *)
(* the same width and flags yields the same segments as once, from every   *)
(* reachable state.                                                        *)
(***************************************************************************)
WrapIdempotent ==
  \A m \in WrapModes :
    LET once  == WrapFrom(lines, 1, file, pos, m.width, m.markers)
        twice == WrapFrom(once.lines, 1, file, once.pos, m.width, m.markers)
    IN  ~once.hung /\ ~twice.hung =>
          \A i \in 1..Len(lines) :
            twice.lines[i].segments = once.lines[i].segments

(***************************************************************************)
(* Wrapping terminates: no paged_line_wrap() call of the viewport loops    *)
(* forever on a line, whatever the width and the characters.               *)
(***************************************************************************)
NoWrapHang == ~hung

(***************************************************************************)
(* Scrolling past the end clamps to the last row (spec 4.4 and 8):         *)
(* paged_lines_find_virtual_row() for a row beyond the last gives the same *)
(* line and segment as for the last row itself.                            *)
(***************************************************************************)
ClampToLastRow ==
  LET n == CountVirtualRows(lines)
      last == FindVirtualRow(lines, n - 1)
      past == FindVirtualRow(lines, n)
  IN  Len(lines) > 0 =>
        /\ past.pl_index = last.pl_index
        /\ past.seg_index = last.seg_index

=============================================================================
