----------------------------- MODULE Producers -----------------------------
(***************************************************************************)
(* The producers of the Simple Pager: the ":bind" / ":macro" dump          *)
(* (key/dump.c) and "neomutt -v" (version.c, print_version()).  Each one   *)
(* is a sequential function of its inputs that makes a sequence of calls   *)
(* on a PagedFile; a call is made by the PagedFile action that models it, *)
(* so this module composes the producers with PagedFile.                   *)
(*                                                                         *)
(* The inputs (the menus' bindings, the build's compile options, the      *)
(* command's arguments) are fixed before the command runs: a job picks    *)
(* them in Init and the producer's calls are then made one per step.      *)
(* Strings are sequences of Chars: every ASCII character is "a", except   *)
(* that the space ending a compile option is "A" (so that options can be  *)
(* counted on a line); "W" is a two-column character, "NL" a newline.     *)
(* The PagedFile's stream is the mkstemp() file of paged_file_new(NULL),  *)
(* so isatty() is false and no escape sequences are written.              *)
(***************************************************************************)
EXTENDS PagedFile

CONSTANTS
  Menus,       \* the MenuTypes 1 .. MENU_MAX - 1, in order
  MenuName,    \* MenuName[m]: the name of menu m in MenuNames (printed as Ch)
  Binds,       \* Binds[m]: the sorted bindings [key, func, desc] of menu m
  Macros,      \* Macros[m]: the sorted macros [key, text, desc] (desc may be NULL)
  Width0,      \* Width0[m]: measure_column(bindings or macros of m, 0)
  Width1,      \* Width1[m]: measure_column(bindings of m, 1)
  CompOpts,    \* CompOpts[]: the compile options [name, enabled]
  DebugOpts,   \* DebugOpts[]: the devel options
  Build,       \* what else the build decides: [ncurses, libs, domain, ispell, configure]
  Jobs,        \* the commands the user runs
  ColorCids,   \* the ColorIds MT_COLOR_NONE + 1 .. MT_COLOR_MAX - 1 in enum order,
               \* less the quoted levels, which every loop over them skips
  ColorClass,  \* ColorClass[cid]: "simple", "compose" (COLOR_COMPOSE) or "status"
  ColorFields, \* the ColorIds of the ColorFields[] name table, in table order
  HasPattern,  \* the cids for which mutt_color_has_pattern() is true
  MT_COLOR_FUNCTION, MT_COLOR_ENUM, MT_COLOR_OPERATOR, MT_COLOR_COMMENT,
  MT_COLOR_STRING, MT_COLOR_STRIPE_ODD, MT_COLOR_STRIPE_EVEN

VARIABLES
  script,   \* the producer's calls still to make
  tag,      \* tag[i]: what line i holds: [kind, menu, width]
  stripe,   \* stripe[i]: pl->cid of line i (0 until striped)
  job       \* the command being run, with its inputs

prodVars == <<script, tag, stripe, job>>
allVars == <<vars, prodVars>>

(***************************************************************************)
(* A call on the PagedFile: new_line (with the tag of the line it makes),  *)
(* add_text, add_colored_text, add_newline, the striping loop over         *)
(* pf->lines, and dlg_spager(), which hands the file to the pager.         *)
(***************************************************************************)
Call(op, s, cid, t) == [op |-> op, s |-> s, cid |-> cid, tag |-> t]
Tag(kind, menu, width) == [kind |-> kind, menu |-> menu, width |-> width]
NewLineCall(t) == Call("new_line", <<>>, 0, t)
Txt(s) == Call("text", s, 0, NULL)
Col(cid, s) == Call("colored", s, cid, NULL)
Newl == Call("newline", <<>>, 0, NULL)
StripeCall == Call("stripe", <<>>, 0, NULL)
Show == Call("show", <<>>, 0, NULL)

\* One ASCII character, as every literal word of the output is abstracted.
Ch == <<"a">>

\* Mutant: the return value of add_colored_text() taken as the byte count.
ColsBytes(s) == Len(EncodeText(s))

\* paged_line_add_colored_text() returns mutt_strwidth() of its text.
Cols(s) == StrWidth(EncodeText(s))

\* buf_printf("%*s", n, ""): n spaces; a negative width left-justifies in |n|.
Pad(n) == [k \in 1..(IF n < 0 THEN -n ELSE n) |-> "a"]

(***************************************************************************)
(* print_bind(): for each binding, a line "bind <menu> <key><pad>          *)
(* <func><pad> # <desc>\n" whose key and function are padded to the       *)
(* column widths; then every line of pf->lines is striped.                 *)
(***************************************************************************)
BindLine(m, b) ==
  << NewLineCall(Tag("bind", m, 0)),
     Col(MT_COLOR_FUNCTION, Ch), Txt(Ch), Col(MT_COLOR_ENUM, Ch), Txt(Ch),
     Col(MT_COLOR_OPERATOR, b.key), Txt(Pad(Width0[m] - Cols(b.key))), Txt(Ch),
     Col(MT_COLOR_FUNCTION, b.func), Txt(Pad(Width1[m] - Cols(b.func))),
     Txt(Ch), Col(MT_COLOR_COMMENT, Ch \o Ch \o b.desc \o <<"NL">>) >>

PrintBind(m) ==
  IF Binds[m] = <<>> THEN <<>>
  ELSE FlattenSeq([k \in 1..Len(Binds[m]) |-> BindLine(m, Binds[m][k])]) \o <<StripeCall>>

\* colon_bind(): every menu followed by a blank line, or one menu.
ColonBind(menu) ==
  IF menu = "MENU_MAX"
  THEN FlattenSeq([i \in 1..Len(Menus) |->
                     PrintBind(Menus[i]) \o <<NewLineCall(Tag("blank", NULL, 0)), Newl>>])
  ELSE PrintBind(menu)

(***************************************************************************)
(* print_macro(): for each macro, "macro <menu> <key><pad> "<text>"        *)
(* ["<desc>"]\n", then the striping.  colon_macro() adds the blank line   *)
(* only after a menu that had macros.                                      *)
(***************************************************************************)
Quoted(s) == Ch \o s \o Ch

MacroLine(m, b) ==
  << NewLineCall(Tag("macro", m, 0)),
     Col(MT_COLOR_FUNCTION, Ch), Txt(Ch), Col(MT_COLOR_ENUM, Ch), Txt(Ch),
     Col(MT_COLOR_OPERATOR, b.key), Txt(Pad(Width0[m] - Cols(b.key))), Txt(Ch),
     Col(MT_COLOR_STRING, Quoted(b.text)) >>
  \o (IF b.desc = NULL THEN <<>> ELSE << Txt(Ch), Col(MT_COLOR_STRING, Quoted(b.desc)) >>)
  \o << Newl >>

PrintMacro(m) ==
  IF Macros[m] = <<>> THEN <<>>
  ELSE FlattenSeq([k \in 1..Len(Macros[m]) |-> MacroLine(m, Macros[m][k])]) \o <<StripeCall>>

ColonMacro(menu) ==
  IF menu = "MENU_MAX"
  THEN FlattenSeq([i \in 1..Len(Menus) |->
                     IF Macros[Menus[i]] = <<>> THEN <<>>
                     ELSE PrintMacro(Menus[i]) \o <<NewLineCall(Tag("blank", NULL, 0)), Newl>>])
  ELSE PrintMacro(menu)

(***************************************************************************)
(* dump_bind_macro(): no argument or "all" dumps every menu, a menu name   *)
(* that one; a second argument is the :bind command proper (goto done),   *)
(* as are a failed paged_file_new() and an unknown menu: nothing is shown. *)
(* args is [n, name]: the number of tokens and the first one.              *)
(***************************************************************************)
MenuByName(name) == {m \in ToSet(Menus) : MenuName[m] = name}

DumpBindMacro(args, bind, pf_ok) ==
  LET menu == IF args.n = 0 \/ args.name = "all" THEN "MENU_MAX"
              ELSE IF MenuByName(args.name) = {} THEN "none"
              ELSE CHOOSE m \in MenuByName(args.name) : TRUE
  IN  IF args.n > 1 \/ ~pf_ok \/ menu = "none" THEN <<>>
      ELSE (IF bind THEN ColonBind(menu) ELSE ColonMacro(menu)) \o <<Show>>

(***************************************************************************)
(* print_compile_options(): options "+name " / "-name " / "name " packed   *)
(* into lines of at most width columns, used counting strlen(name) + 2    *)
(* per option; a line is flushed with its newline when the next option    *)
(* does not fit; the last line has no newline and is followed by a line   *)
(* holding only "\n".                                                      *)
(***************************************************************************)
(***************************************************************************)
(* The two tables print_version() prints.  CompOpts[] lists every option,  *)
(* enabled (1) when the build defines its symbol and disabled (0) when it *)
(* does not; DebugOpts[] lists only the devel options the build defines,  *)
(* each devel-only (2), in table order.  defined is the set of indexes of *)
(* names whose symbol is defined.                                         *)
(***************************************************************************)
CompileOptionsTable(names, defined) ==
  [k \in 1..Len(names) |-> [name |-> names[k], enabled |-> IF k \in defined THEN 1 ELSE 0]]

DebugOptionsTable(names, defined) ==
  LET ks == SelectSeq([k \in 1..Len(names) |-> k], LAMBDA k : k \in defined)
  IN  [j \in 1..Len(ks) |-> [name |-> names[ks[j]], enabled |-> 2]]

OptText(o) == (IF o.enabled = 2 THEN <<>> ELSE Ch) \o o.name \o <<"A">>
Indent == Ch \o Ch

\* Mutant: the fit test leaves out the length of the option being added.
FitsWithoutLen(used, len, width) == ~(width > 0 /\ used > width)

Fits(used, len, width) == ~(width > 0 /\ used + len > width)

RECURSIVE OptionsFrom(_, _, _, _, _)
OptionsFrom(co, width, i, used, buf) ==
  IF i > Len(co)
  THEN << Txt(buf), NewLineCall(Tag("blank", NULL, 0)), Txt(<<"NL">>) >>
  ELSE LET len  == Len(co[i].name) + 2
           wrap == ~Fits(used, len, width)
       IN  (IF wrap THEN << Txt(buf), Txt(<<"NL">>),
                            NewLineCall(Tag("options", NULL, width)), Txt(Indent) >>
            ELSE <<>>)
           \o OptionsFrom(co, width, i + 1,
                          (IF wrap THEN 2 ELSE used) + len,
                          (IF wrap THEN <<>> ELSE buf) \o OptText(co[i]))

PrintCompileOptions(co, width) ==
  << NewLineCall(Tag("options", NULL, width)) >>
  \o (IF width > 0 THEN << Txt(Indent) >> ELSE <<>>)
  \o OptionsFrom(co, width, 1, 2, <<>>)

\* rstrip_in_place(): the trailing newlines of s removed.
RECURSIVE RStrip(_)
RStrip(s) == IF s # <<>> /\ Last(s) = "NL" THEN RStrip(Front(s)) ELSE s

(***************************************************************************)
(* print_version(): one line per piece of system and build information,   *)
(* the Notice (several lines of text) added to ONE line, the compile and  *)
(* devel options, the paths, and ReachingUs (several lines) added to the  *)
(* last line after its "\n".                                               *)
(***************************************************************************)
Notice == <<"a", "NL", "a", "NL">>
ReachingUs == <<"a", "NL", "a", "NL">>
TextLine(s) == << NewLineCall(Tag("info", NULL, 0)), Txt(s) >>
BlankLine == << NewLineCall(Tag("blank", NULL, 0)), Newl >>

PrintVersion(width) ==
  TextLine(<<"a", "NL">>)
  \o TextLine(Notice \o <<"NL">>)
  \o TextLine(Ch) \o << Txt(Ch), Txt(<<"a", "NL">>) >>
  \o TextLine(Ch) \o (IF Build.ncurses THEN << Txt(Ch) >> ELSE <<>>) \o << Txt(<<"NL">>) >>
  \o FlattenSeq([k \in 1..Build.libs |-> TextLine(<<"a", "NL">>)])
  \o BlankLine
  \o TextLine(Ch \o RStrip(Build.configure) \o <<"NL">>)
  \o BlankLine
  \o TextLine(<<"a", "NL">>)
  \o BlankLine
  \o TextLine(<<"a", "NL">>) \o PrintCompileOptions(CompOpts, width)
  \o (IF DebugOpts = <<>> THEN <<>>
      ELSE TextLine(<<"a", "NL">>) \o PrintCompileOptions(DebugOpts, width))
  \o TextLine(<<"NL">>)
  \o (IF Build.domain THEN TextLine(<<"a", "NL">>) ELSE <<>>)
  \o (IF Build.ispell THEN TextLine(<<"a", "NL">>) ELSE <<>>)
  \o FlattenSeq([k \in 1..4 |-> TextLine(<<"a", "NL">>)])
  \o TextLine(<<"NL">>) \o << Txt(ReachingUs) >>
  \o << Show >>

(***************************************************************************)
(* color_dump() (color/dump.c) and, in a USE_DEBUG_COLOR build, the dumps *)
(* of color/debug.c.  Every entry is one whole line written by ONE        *)
(* paged_line_add_text() of a buf_printf() ending in "\n"; its fields     *)
(* (attributes, colour names, swatch, pattern) are abstracted to Ch.  A   *)
(* section is a header line, its entries, and a line holding only the    *)
(* newline of paged_line_add_newline().  The tag of an entry says which   *)
(* colour it lists: <<"simple", cid, 0>>, <<"quoted", level, 0>>,         *)
(* <<"rule", cid, k>> (the k-th regex of cid), <<"debug", list, k>>.     *)
(* A colour job c gives: c.set, the simple cids for which                  *)
(* attr_color_is_set(); c.quoted, the quoted levels set; c.rules[cid],    *)
(* the length of regex_colors_get_list(cid); c.debug, the build flag;     *)
(* c.merged and c.ansi, one Boolean per AttrColor (has a curses_color),  *)
(* c.ansi NULL when the focus is not a pager; c.curses, the CursesColors. *)
(***************************************************************************)
EntryLine(id) == << NewLineCall(Tag("colour", id, 0)), Txt(Ch \o <<"NL">>) >>
Header(sec) == << NewLineCall(Tag("header", sec, 0)), Txt(Ch \o <<"NL">>) >>
SectionEnd == << NewLineCall(Tag("blank", NULL, 0)), Newl >>

\* Concatenate f(x) over the elements x of sequence s, in order.
Each(s, f(_)) == FlattenSeq([k \in 1..Len(s) |-> f(s[k])])

Named(cid) == cid \in ToSet(ColorFields)

\* quoted_colors_dump(): the header is written whatever is set.
QuotedColorsDump(c) ==
  Header("quoted")
  \o FlattenSeq([i \in 1..10 |->
                   IF i - 1 \in c.quoted THEN EntryLine(<<"quoted", i - 1, 0>>) ELSE <<>>])
  \o SectionEnd

\* regex_colors_dump(): a section per cid (status apart) with a pattern,
\* a non-empty list and a name.  MT_COLOR_NONE, where the loop starts, has
\* no pattern.
RegexColorsDump(c) ==
  Each(ColorCids,
       LAMBDA cid :
         IF ColorClass[cid] = "status" \/ cid \notin HasPattern
            \/ c.rules[cid] = 0 \/ ~Named(cid) THEN <<>>
         ELSE Header(<<"regex", cid, 0>>)
              \o FlattenSeq([k \in 1..c.rules[cid] |-> EntryLine(<<"rule", cid, k>>)])
              \o SectionEnd)

\* Mutant: the printing loop does not skip the compose colours.
SimpleColorsDumpWithCompose(c) ==
  LET counted == {cid \in c.set : ColorClass[cid] # "status"}
      listed(cid) == ColorClass[cid] # "status" /\ cid \in c.set /\ Named(cid)
      composed == {cid \in c.set : ColorClass[cid] = "compose"}
  IN  (IF counted = {} THEN <<>>
       ELSE Header("simple")
            \o Each(ColorCids, LAMBDA cid :
                      IF listed(cid) THEN EntryLine(<<"simple", cid, 0>>) ELSE <<>>)
            \o SectionEnd)
      \o (IF composed = {} THEN <<>>
          ELSE Header("compose")
               \o Each(ColorFields, LAMBDA cid :
                         IF cid \in composed THEN EntryLine(<<"simple", cid, 0>>) ELSE <<>>)
               \o SectionEnd)

(***************************************************************************)
(* simple_colors_dump(): the "# Simple Colors" section is written when    *)
(* some non-quoted, non-status colour is set, counting the compose ones;  *)
(* its loop then skips them.  The compose colours follow in their own     *)
(* section, in the order of ColorFields[].                                *)
(***************************************************************************)
SimpleColorsDump(c) ==
  LET counted == {cid \in c.set : ColorClass[cid] # "status"}
      listed(cid) == ColorClass[cid] = "simple" /\ cid \in c.set /\ Named(cid)
      composed == {cid \in c.set : ColorClass[cid] = "compose"}
  IN  (IF counted = {} THEN <<>>
       ELSE Header("simple")
            \o Each(ColorCids, LAMBDA cid :
                      IF listed(cid) THEN EntryLine(<<"simple", cid, 0>>) ELSE <<>>)
            \o SectionEnd)
      \o (IF composed = {} THEN <<>>
          ELSE Header("compose")
               \o Each(ColorFields, LAMBDA cid :
                         IF cid \in composed THEN EntryLine(<<"simple", cid, 0>>) ELSE <<>>)
               \o SectionEnd)

StatusCid == CHOOSE cid \in ToSet(ColorCids) : ColorClass[cid] = "status"

\* status_colors_dump(): the plain status line, then one line per regex.
StatusColorsDump(c) ==
  IF StatusCid \notin c.set /\ c.rules[StatusCid] = 0 THEN <<>>
  ELSE Header("status") \o EntryLine(<<"simple", StatusCid, 0>>)
       \o FlattenSeq([k \in 1..c.rules[StatusCid] |-> EntryLine(<<"rule", StatusCid, k>>)])
       \o SectionEnd

\* merged_colors_dump(): the MergedColors that have a CursesColor.
MergedColorsDump(has) ==
  IF has = <<>> THEN <<>>
  ELSE Header("merged")
       \o FlattenSeq([k \in 1..Len(has) |->
                        IF has[k] THEN EntryLine(<<"debug", "merged", k>>) ELSE <<>>])
       \o SectionEnd

\* ansi_colors_dump(): the same for the ansi_list of the focused pager;
\* nothing when the focus is not a pager (has = NULL) or the list is empty.
AnsiColorsDump(has) ==
  IF has = NULL \/ has = <<>> THEN <<>>
  ELSE Header("ansi")
       \o FlattenSeq([k \in 1..Len(has) |->
                        IF has[k] THEN EntryLine(<<"debug", "ansi", k>>) ELSE <<>>])
       \o SectionEnd

\* curses_colors_dump(): a header, a column-title line, one line each.
CursesColorsDump(n) ==
  IF n = 0 THEN <<>>
  ELSE Header("curses") \o Header("titles")
       \o FlattenSeq([k \in 1..n |-> EntryLine(<<"debug", "curses", k>>)])
       \o SectionEnd

LogCall == Call("log", <<>>, 0, NULL)

ColorDump(c) ==
  SimpleColorsDump(c) \o QuotedColorsDump(c) \o StatusColorsDump(c) \o RegexColorsDump(c)
  \o (IF c.debug
      THEN MergedColorsDump(c.merged) \o AnsiColorsDump(c.ansi)
           \o CursesColorsDump(c.curses) \o << LogCall >>
      ELSE <<>>)

\* The calls a job makes; the caller of color_dump() shows the file.
Calls(j) ==
  IF j.cmd = "version" THEN PrintVersion(j.width)
  ELSE IF j.cmd = "color" THEN ColorDump(j) \o << Show >>
  ELSE DumpBindMacro(j.args, j.cmd = "bind", j.pf_ok)

-----------------------------------------------------------------------------
ProducersInit ==
  /\ Init
  /\ \E j \in Jobs : script = Calls(j) /\ job = j
  /\ tag = <<>>
  /\ stripe = <<>>

Next1 == script # <<>> /\ producing
Op == Head(script)

\* Mutant: the new PagedLine is not zero-initialised; its cid is garbage.
DoNewLineUninit ==
  /\ Next1 /\ Op.op = "new_line"
  /\ NewLine
  /\ tag' = Append(tag, Op.tag)
  /\ stripe' = Append(stripe, -1)
  /\ script' = Tail(script)
  /\ UNCHANGED job

\* pl = paged_file_new_line(pf): a zeroed line, cid 0.
DoNewLine ==
  /\ Next1 /\ Op.op = "new_line"
  /\ NewLine
  /\ tag' = Append(tag, Op.tag)
  /\ stripe' = Append(stripe, 0)
  /\ script' = Tail(script)
  /\ UNCHANGED job

DoText ==
  /\ Next1 /\ Op.op = "text"
  /\ AddText(Op.s)
  /\ script' = Tail(script)
  /\ UNCHANGED <<tag, stripe, job>>

DoColored ==
  /\ Next1 /\ Op.op = "colored"
  /\ AddColoredText(Op.cid, Op.s)
  /\ script' = Tail(script)
  /\ UNCHANGED <<tag, stripe, job>>

DoNewline ==
  /\ Next1 /\ Op.op = "newline"
  /\ AddNewline
  /\ script' = Tail(script)
  /\ UNCHANGED <<tag, stripe, job>>

\* ARRAY_FOREACH(pl, &pf->lines): even indices odd-striped, odd even-striped.
DoStripe ==
  /\ Next1 /\ Op.op = "stripe"
  /\ stripe' = [i \in 1..Len(lines) |->
                  IF (i - 1) % 2 = 0 THEN MT_COLOR_STRIPE_ODD ELSE MT_COLOR_STRIPE_EVEN]
  /\ script' = Tail(script)
  /\ UNCHANGED <<vars, tag, job>>

(***************************************************************************)
(* log_paged_file(): paged_line_get_text() on every line in order, from  *)
(* inside color_dump(), before the file is handed over: each read seeks  *)
(* the shared stream to the line and leaves it after the line read.       *)
(***************************************************************************)
RECURSIVE CacheEach(_, _, _, _)
CacheEach(ls, f, p, i) ==
  IF i > Len(ls) THEN [lines |-> ls, pos |-> p]
  ELSE LET c == Cache(ls[i], f, p)
       IN  CacheEach([ls EXCEPT ![i] = c.line], f, c.pos, i + 1)

DoLog ==
  /\ Next1 /\ Op.op = "log"
  /\ lines' = CacheEach(lines, file, pos, 1).lines
  /\ pos' = CacheEach(lines, file, pos, 1).pos
  /\ script' = Tail(script)
  /\ UNCHANGED <<file, producing, view, hung, written, tag, stripe, job>>

DoShow ==
  /\ Next1 /\ Op.op = "show"
  /\ FinishProducing
  /\ script' = Tail(script)
  /\ UNCHANGED <<tag, stripe, job>>

ProducersNext ==
  \/ DoNewLine \/ DoText \/ DoColored \/ DoNewline \/ DoStripe \/ DoLog \/ DoShow

ProducersSpec == ProducersInit /\ [][ProducersNext]_allVars

-----------------------------------------------------------------------------
ProducersTypeOK ==
  /\ TypeOK
  /\ Len(tag) = Len(lines) /\ Len(stripe) = Len(lines)
  /\ \A i \in 1..Len(stripe) :
       stripe[i] \in {0, MT_COLOR_STRIPE_ODD, MT_COLOR_STRIPE_EVEN}

\* The display column at which span k of line i starts.
SpanCol(i, k) == StrWidth(SubSeq(written[i], 1, lines[i].text[k].first))

\* The spans that start a padded column: the function and the comment of a
\* binding, the macro text of a macro.
PaddedSpans(kind) == IF kind = "bind" THEN {4, 5} ELSE {4}

(***************************************************************************)
(* The dump is a table (print_bind(), print_macro()): in every line of one *)
(* menu's block the function name, the description and the macro text     *)
(* start in the same screen column, whatever the widths of the keys and   *)
(* functions before them.  This rests on the pad being computed from the  *)
(* column count add_colored_text() returns, and on measure_column().      *)
(***************************************************************************)
ColumnsAligned ==
  \A i, j \in 1..Len(lines) :
    /\ tag[i].kind \in {"bind", "macro"}
    /\ tag[j] = tag[i]
    => \A k \in PaddedSpans(tag[i].kind) :
         k <= Len(lines[i].text) /\ k <= Len(lines[j].text)
         => SpanCol(i, k) = SpanCol(j, k)

NumOptions(i) == Len(SelectSeq(written[i], LAMBDA c : c = "A"))

(***************************************************************************)
(* print_compile_options() wraps to the screen (spec: "wrapped to          *)
(* SCREEN_WIDTH characters"): with a width, every line of options fits in *)
(* it, unless it holds a single option too long for any line.             *)
(***************************************************************************)
OptionsWithinWidth ==
  \A i \in 1..Len(lines) :
    tag[i].kind = "options" /\ tag[i].width > 0
    => StrWidth(StripNL(written[i])) <= tag[i].width \/ NumOptions(i) <= 1

\* What the pager shows as line i: paged_line_cache() reads from its offset
\* up to the first newline.
Shown(i) == ReadLine(file, lines[i].offset, NULL).text

(***************************************************************************)
(* Everything a producer writes is shown (spec 4.3: a line's text is read *)
(* back from its offset to the newline): once the file is handed to the   *)
(* pager, every line shows exactly what was written to it, its final      *)
(* newline apart.  Text after a newline within one line is never shown.   *)
(***************************************************************************)
NoHiddenText ==
  ~producing =>
    \A i \in 1..Len(lines) :
      \/ Shown(i) = StripNL(written[i])
      \/ Shown(i) = NULL /\ written[i] = <<>>

\* The lines of colour entries, and the entries each colour job must list.
ListedAs(id) == {i \in 1..Len(lines) : tag[i].kind = "colour" /\ tag[i].menu = id}
SetColours(c) ==
  {<<"simple", cid, 0>> : cid \in {x \in c.set : Named(x)}}
  \cup {<<"quoted", q, 0>> : q \in c.quoted}
  \cup UNION {{<<"rule", cid, k>> : k \in 1..c.rules[cid]} :
                 cid \in {x \in ToSet(ColorCids) : x \in HasPattern /\ Named(x)}}
  \cup (IF c.rules[StatusCid] > 0 THEN {<<"simple", StatusCid, 0>>} ELSE {})

(***************************************************************************)
(* The colour dump is complete and has no duplicates: once color_dump()   *)
(* has written the file, every colour that is set (simple, compose,       *)
(* quoted, status, each regex rule) is listed on exactly one line, and    *)
(* nothing else is listed as a colour.  The simple and compose colours    *)
(* come from two loops over overlapping ranges of ColorIds, with the     *)
(* count and the printing loop skipping different classes.               *)
(***************************************************************************)
EverySetColourListedOnce ==
  ~producing /\ job.cmd = "color" =>
    /\ \A id \in SetColours(job) : Cardinality(ListedAs(id)) = 1
    /\ \A i \in 1..Len(lines) : tag[i].kind = "colour" /\ tag[i].menu[1] # "debug"
                                => tag[i].menu \in SetColours(job)

(***************************************************************************)
(* What the pager shows of a dump is what the producer wrote: when the    *)
(* key or colour dump is handed over, paged_line_get_text() of every line *)
(* returns the text written to it without its newline, whether the line  *)
(* was cached by log_paged_file() in the middle of production or is read *)
(* now through the stream those reads moved.                               *)
(***************************************************************************)
ShownAsWritten ==
  ~producing /\ job.cmd \in {"bind", "macro", "color"} =>
    \A i \in 1..Len(lines) : GetTextResult(i) = StripNL(written[i])

====
