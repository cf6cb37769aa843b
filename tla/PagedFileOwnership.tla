------------------------- MODULE PagedFileOwnership -------------------------
(***************************************************************************)
(* Who closes a PagedFile's backing stream (pfile/paged_file.c).  A       *)
(* caller creates the PagedFile with paged_file_new(fp), with its own      *)
(* stream or with NULL for a private temporary file, fills and shows it,  *)
(* and frees it with paged_file_free(); a caller that supplied a stream    *)
(* then closes it itself, as the comment on paged_file_new() asks.        *)
(* The lines of the file do not matter here and are left out.             *)
(***************************************************************************)
EXTENDS Naturals

CONSTANTS
  CallerStreams,  \* streams a caller may pass to paged_file_new()
  TmpFile,        \* the stream mutt_file_mkstemp() opens
  NULL

VARIABLES
  supplied,   \* the fp argument the caller passed, or NULL
  pf,         \* NULL, or the PagedFile: [fp, close_fp]
  closes,     \* closes[s]: how many times stream s has been fclose()d
  phase,      \* the caller's progress: "start", "created", "freed", "done"
  tmp_opened  \* whether mutt_file_mkstemp() opened the temporary file

vars == <<supplied, pf, closes, phase, tmp_opened>>

Streams == CallerStreams \cup {TmpFile}

Init ==
  /\ supplied = NULL
  /\ pf = NULL
  /\ closes = [s \in Streams |-> 0]
  /\ phase = "start"
  /\ tmp_opened = FALSE

(***************************************************************************)
(* paged_file_new(fp): close_fp is set when fp is supplied; otherwise a   *)
(* temporary file is opened, which may fail, and then NULL is returned    *)
(* and the caller (key/dump.c) goes straight to its cleanup.              *)
(***************************************************************************)
PagedFileNew(fp) ==
  /\ phase = "start"
  /\ supplied' = fp
  /\ \/ /\ fp # NULL
        /\ pf' = [fp |-> fp, close_fp |-> TRUE]
        /\ phase' = "created"
        /\ UNCHANGED tmp_opened
     \/ /\ fp = NULL
        /\ pf' = [fp |-> TmpFile, close_fp |-> FALSE]
        /\ phase' = "created"
        /\ tmp_opened' = TRUE
     \/ /\ fp = NULL
        /\ pf' = NULL
        /\ phase' = "freed"
        /\ UNCHANGED tmp_opened
  /\ UNCHANGED closes

(***************************************************************************)
(* paged_file_free(&pf): closes the stream when close_fp is set, then     *)
(* frees the lines and the PagedFile.  A NULL pf is a no-op.              *)
(***************************************************************************)
PagedFileFree ==
  /\ phase = "created"
  /\ closes' = IF pf.close_fp THEN [closes EXCEPT ![pf.fp] = @ + 1] ELSE closes
  /\ pf' = NULL
  /\ phase' = "freed"
  /\ UNCHANGED <<supplied, tmp_opened>>

\* The caller closes the stream it supplied, as the comment on
\* paged_file_new() requires.
CallerClose ==
  /\ phase = "freed"
  /\ closes' = IF supplied # NULL THEN [closes EXCEPT ![supplied] = @ + 1] ELSE closes
  /\ phase' = "done"
  /\ UNCHANGED <<supplied, pf, tmp_opened>>

Next ==
  \/ \E fp \in CallerStreams \cup {NULL} : PagedFileNew(fp)
  \/ PagedFileFree
  \/ CallerClose

Spec == Init /\ [][Next]_vars


-----------------------------------------------------------------------------
(***************************************************************************)
(* Ownership of the backing store (spec 3, PagedFile): once the caller is *)
(* done, every stream that was opened for the PagedFile has been closed   *)
(* exactly once: a supplied stream by the caller, a private temporary     *)
(* file by paged_file_free().                                              *)
(***************************************************************************)
StreamClosedOnce ==
  phase = "done" =>
    \A s \in Streams :
      closes[s] = IF s = supplied \/ (s = TmpFile /\ tmp_opened)
                  THEN 1 ELSE 0

=============================================================================
