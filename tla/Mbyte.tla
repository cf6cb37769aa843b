------------------------------- MODULE Mbyte -------------------------------
(***************************************************************************)
(* The multi-byte string primitives the Simple Pager relies on, from       *)
(* NeoMutt's mutt/ library (mbyte.c, file.c): the byte length and screen   *)
(* width of a string, the truncate-to-width primitive used by wrapping,    *)
(* and reading one line back from the backing file.                       *)
(*                                                                         *)
(* A string is a sequence of bytes.  The byte alphabet is abstracted to    *)
(*   "a", "A"  one-byte, one-column letters (lower and upper case),        *)
(*   "NL"      the newline byte,                                           *)
(*   "W","w"   the lead and continuation bytes of a wide character, which  *)
(*             is encoded as <<"W","w","w">>: 3 bytes and 2 columns, like  *)
(*             a CJK character in UTF-8.                                   *)
(* Offsets are C offsets: byte p of a string s is s[p + 1].                *)
(***************************************************************************)
EXTENDS Integers, Sequences, SequencesExt

Bytes == {"a", "A", "NL", "W", "w"}

\* Characters a producer writes, and their encoding as bytes.
Chars == {"a", "A", "NL", "W"}
Encode(c) == IF c = "W" THEN <<"W", "w", "w">> ELSE <<c>>
EncodeText(cs) == FlattenSeq([i \in 1..Len(cs) |-> Encode(cs[i])])

(***************************************************************************)
(* mbrtowc() on the bytes of s starting at index i (1-based), with all of  *)
(* the rest of the string available.  A complete wide character decodes to *)
(* "W"; a lead byte cut short by the end of the string is the "buffer too *)
(* small" case (it swallows the rest, cl = n); any other stray lead or     *)
(* continuation byte is an illegal sequence (cl = 1).  Both of the error   *)
(* cases yield the replacement character.                                  *)
(***************************************************************************)
DecodeAt(s, i) ==
  CASE s[i] = "W" /\ i + 2 <= Len(s) /\ s[i + 1] = "w" /\ s[i + 2] = "w"
         -> [len |-> 3, wc |-> "W"]
    [] s[i] = "W" /\ \A j \in i + 1..Len(s) : s[j] = "w"
         -> [len |-> Len(s) - i + 1, wc |-> "REPL"]
    [] s[i] \in {"W", "w"}
         -> [len |-> 1, wc |-> "REPL"]
    [] OTHER
         -> [len |-> 1, wc |-> s[i]]

\* wcwidth() of a decoded character; the replacement character is 1 wide.
WcWidth(wc) == IF wc = "W" THEN 2 ELSE 1

(***************************************************************************)
(* mutt_str_len() and mutt_strwidth().  mutt_strwidth() prints a newline  *)
(* (a non-printable character) as '?', so a newline counts one column.     *)
(***************************************************************************)
StrLen(s) == Len(s)

RECURSIVE StrWidthFrom(_, _)
StrWidthFrom(s, i) ==
  IF i > Len(s) THEN 0
  ELSE LET d == DecodeAt(s, i)
       IN  WcWidth(d.wc) + StrWidthFrom(s, i + d.len)

StrWidth(s) == StrWidthFrom(s, 1)

(***************************************************************************)
(* mutt_wstr_trunc(src, maxlen, maxwid, &width): the longest prefix of     *)
(* src, in whole characters, of at most maxlen bytes and maxwid columns,   *)
(* stopping at a newline.  Returns its bytes and columns.  maxwid is a     *)
(* size_t: the caller's negative int becomes SIZE_MAX (see MaxWid).        *)
(***************************************************************************)
RECURSIVE TruncFrom(_, _, _, _, _, _)
TruncFrom(src, i, maxlen, maxwid, l, w) ==
  IF i > Len(src) THEN [bytes |-> l, cols |-> w]
  ELSE LET d == DecodeAt(src, i)
       IN  IF \/ d.wc = "NL"
              \/ d.len + l > maxlen
              \/ WcWidth(d.wc) + w > maxwid
           THEN [bytes |-> l, cols |-> w]
           ELSE TruncFrom(src, i + d.len, maxlen, maxwid, l + d.len, w + WcWidth(d.wc))

WstrTrunc(src, maxlen, maxwid) == TruncFrom(src, 1, maxlen, maxwid, 0, 0)

\* Fault-injection variant: the position after a last, unterminated line
\* is one past the end of the file.
ReadLineEofOffByOne(file, off, null) ==
  IF off >= Len(file)
  THEN [text |-> null, pos |-> off]
  ELSE LET nls == {i \in off + 1..Len(file) : file[i] = "NL"}
           end == IF nls = {} THEN Len(file) + 1
                  ELSE CHOOSE i \in nls : \A j \in nls : i <= j
       IN  [text |-> SubSeq(file, off + 1, end - 1), pos |-> end]

(***************************************************************************)
(* mutt_file_read_line() after an fseek() to offset off of file: fgets()   *)
(* up to and including the next newline, which is stripped.  At end of     *)
(* file fgets() fails and the result is NULL (here: the value null).  The  *)
(* stream position is left after the bytes read.                           *)
(***************************************************************************)
ReadLine(file, off, null) ==
  IF off >= Len(file)
  THEN [text |-> null, pos |-> off]
  ELSE LET nls == {i \in off + 1..Len(file) : file[i] = "NL"}
           end == IF nls = {} THEN Len(file) + 1
                  ELSE CHOOSE i \in nls : \A j \in nls : i <= j
       IN  [text |-> SubSeq(file, off + 1, end - 1),
            pos  |-> IF nls = {} THEN Len(file) ELSE end]

=============================================================================
