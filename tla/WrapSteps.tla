----------------------------- MODULE WrapSteps -----------------------------
(***************************************************************************)
(* paged_line_wrap() (pfile/paged_line.c) one loop iteration per step.    *)
(* PagedFile evaluates the loop in one step (WrapLoop) and flags a fixed   *)
(* point as "hung"; here the loop runs as the code runs it, so whether it *)
(* returns is a liveness question.  One line is wrapped: its cached text  *)
(* (no newline, as paged_line_cache() leaves it), the width and the       *)
(* LW_MARKERS flag are chosen at the start.  Of the segments the loop     *)
(* appends only their number is kept (their offsets are the totals at the *)
(* time); ARRAY_ADD() grows the array with mutt_mem_realloc(), which ends *)
(* the process when memory runs out, here after MaxSegs segments.        *)
(***************************************************************************)
EXTENDS Integers, Sequences, Mbyte

CONSTANTS
  Texts,    \* the lines' texts, sequences of Chars without "NL"
  Widths,   \* the width arguments
  SizeMax,  \* stands for SIZE_MAX: exceeds every width in the model
  MaxSegs   \* the segments the process has memory for

ASSUME \A w \in Widths : w \in Int /\ w < SizeMax

VARIABLES
  text,         \* pl->cached_text
  width,        \* the width parameter, decremented after the first segment
  markers,      \* flags & LW_MARKERS
  total_bytes,
  total_cols,
  nsegs,        \* ARRAY_SIZE(&pl->segments)
  pc            \* "loop" in the while loop, "done" once it returned, "oom"
                \* when ARRAY_ADD() ran out of memory and the process exited

wsVars == <<text, width, markers, total_bytes, total_cols, nsegs, pc>>

\* mutt_wstr_trunc() takes its maxwid as size_t: a negative width is huge.
MaxWidth(w) == IF w < 0 THEN SizeMax ELSE w

(***************************************************************************)
(* Entry: segments freed, the early return when the line already fits,    *)
(* else the line is cached and the totals start at 0.                     *)
(***************************************************************************)
WrapInit ==
  \E t \in Texts, w \in Widths, m \in BOOLEAN :
    /\ text = EncodeText(t)
    /\ width = w
    /\ markers = m
    /\ total_bytes = 0
    /\ total_cols = 0
    /\ nsegs = 0
    /\ pc = IF StrWidth(EncodeText(t)) <= w THEN "done" ELSE "loop"

(***************************************************************************)
(* One iteration of while (total_bytes < text_len): add a segment at the  *)
(* totals, take as many bytes as fit in width columns, narrow the width   *)
(* by one after the first segment when markers are shown, advance.        *)
(***************************************************************************)
LoopStep ==
  LET r == WstrTrunc(SubSeq(text, total_bytes + 1, Len(text)),
                     Len(text) - total_bytes, MaxWidth(width))
  IN  /\ pc = "loop" /\ total_bytes < Len(text)
      /\ nsegs < MaxSegs
      /\ nsegs' = nsegs + 1
      /\ width' = IF total_bytes = 0 /\ markers THEN width - 1 ELSE width
      /\ total_bytes' = total_bytes + r.bytes
      /\ total_cols' = total_cols + r.cols
      /\ UNCHANGED <<text, markers, pc>>

\* ARRAY_ADD() cannot grow the array: mutt_mem_realloc() exits.
LoopOutOfMemory ==
  /\ pc = "loop" /\ total_bytes < Len(text)
  /\ nsegs = MaxSegs
  /\ pc' = "oom"
  /\ UNCHANGED <<text, width, markers, total_bytes, total_cols, nsegs>>

\* The loop test fails: paged_line_wrap() returns.
LoopExit ==
  /\ pc = "loop" /\ total_bytes >= Len(text)
  /\ pc' = "done"
  /\ UNCHANGED <<text, width, markers, total_bytes, total_cols, nsegs>>

WrapStepsNext == LoopStep \/ LoopOutOfMemory \/ LoopExit

(***************************************************************************)
(* The loop is straight-line code on the thread that called               *)
(* paged_lines_wrap(): while it is enabled it keeps running.              *)
(***************************************************************************)
WrapStepsSpec == WrapInit /\ [][WrapStepsNext]_wsVars /\ WF_wsVars(WrapStepsNext)

-----------------------------------------------------------------------------
(***************************************************************************)
(* paged_line_wrap() returns (spec 4.2: wrapping splits a line into       *)
(* segments; it terminates): every call eventually leaves the loop,       *)
(* whatever the width, the markers flag and the characters of the line.   *)
(***************************************************************************)
WrapTerminates == <>(pc = "done")

====
