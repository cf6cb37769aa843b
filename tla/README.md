# TLA+ models of NeoMutt's simple pager engine and its neighbours

These modules model the paged-text engine under `src/pfile/`, its search engine `src/spager/search.c`, the producers that write into it (`key/dump.c`, `version.c`, `color/dump.c`, `color/debug.c`), and three other parts of the tree: the NeoMutt core object (`core/neomutt.c`), the Number config type (`config/number.c`) and the message body cache (`bcache.c`). The pager engine does the following:
- it buffers text written by a producer in a spill file, together with colour markup;
- it re-reads lines lazily;
- it wraps lines to a width that is aware of wide characters;
- it maps screen rows to (line, segment) pairs;
- it searches with a regex, keeping the match spans in every line.

All of it is single-threaded C. The concurrency that matters is the order of calls. Producers and the viewer share one `FILE*` stream and one array of lines, and nothing in the API orders their calls.

## 1. Inventory of the system

| Part | Source | State | Operations |
|---|---|---|---|
| Markup Span Store | `pfile/paged_text.c` | array of `{first,last,cid,ansi_start,ansi_end}` | `paged_text_markup_new`, `paged_text_markup_clear` |
| Paged Line | `pfile/paged_line.c`, `.h` | `offset`, `num_bytes`, `num_cols`, `text` spans, `search` spans, `cached_text`, `segments` | `add_text`, `add_colored_text`, `add_ansi_text`, `add_newline`, `add_search`, `cache`, `wrap`, `get_text`, `get_virtual_text`, `clear` |
| Paged File | `pfile/paged_file.c` | `fp`, `close_fp`, `lines` | `paged_file_new`, `paged_file_new_line`, `paged_file_free` |
| Virtual Row Index | `pfile/paged_line.c` | (none: it is computed from `segments`) | `paged_lines_count_virtual_rows`, `paged_lines_find_virtual_row`, `paged_lines_wrap` |
| Simple Pager Search | `spager/search.c` | `pattern`, `compiled`, `regex`, `direction`, `pla` (non-owning), `show_search` | `new`, `clear`, `free`, `set_lines`, `search`, `next` |
| Producers | `version.c`, `key/dump.c`, `color/debug.c`, `color/dump.c` | (none beyond the PagedFile) | they write lines with `new_line` and `add_*`, then call `dlg_spager()` |
| NeoMutt core object | `core/neomutt.c` | `notify` tree, `sub`, `accounts`, `modules`, umasks | `neomutt_new/init/cleanup/free`, `gui_init/cleanup`, `account_add/remove`, `mailboxlist_get_all/clear`, `mutt_file_fopen_masked_full` |
| Number config type | `config/number.c` | the item's `short`, `cdef->initial` | `string_set`, `native_set`, `reset` (getters only read) |
| Body cache | `bcache.c` | a directory of `<id>` and `<id>.tmp` files | `open`, `close`, `get`, `put`, `commit`, `del`, `exists`, `list` |
| Other | `usage.c`, `debug/spager.c`, `core/mxapi.h` (declarations), headers, tests | | see section 6 |

**How the parts interact.**
- A producer creates a `PagedFile` and calls `paged_file_new_line()`. That call records `ftell(fp)` as the line's offset.
- The producer appends with `add_*text`. Each call does `fputs` to the shared stream and updates the counters and markup.
- The viewer (`dlg_spager`, not in `src/`) then calls the following, in any order:
  - `paged_lines_wrap(width)`;
  - the virtual-row functions;
  - `get_virtual_text`, which caches;
  - the search.
- `paged_line_cache()` does `fseek` on the *same* stream and reads one line. It then recounts `num_bytes` and `num_cols` from what it read, and memoises the text.
- The search holds a raw pointer to `pf->lines` and writes spans into every line.

**Behaviours that make the code hard to get right**, and the properties aimed at them (hazards in PROJECT.json):
- **Counter drift.** The counters of a line are computed in two ways: by the `add_*` calls, where a newline inside the text counts, and by `cache`, where it does not.
  - Wrapping reads the counters before and after caching.
  - Property: `WrapIdempotent` (no run: the checked chunks never put a newline inside one `add_text`; see "Also seen").
- **The wrap loop's progress.** Progress depends on `mutt_wstr_trunc` returning at least one character. Other factors are the `LW_MARKERS` decrement, applied while `total_bytes == 0`, and the signed-to-`size_t` conversion of the width.
  - Property: `WrapTerminates` (liveness, on the loop run one iteration per step in `WrapSteps`). The repeated decrement itself ends the loop through `SIZE_MAX` with a segment wider than the width; no property covers it.
- **The shared stream position.** Caches and writes share one stream position, and caches are memoised, so reading during production is unsafe.
  - Property: `CacheRoundTrip`, checked only with reads after production (`ViewWhileProducing = FALSE`), because no caller under `src/` reads earlier. With reads during production it fails (see "Also seen").
- **Off-by-one and clamping** in the row lookup.
  - Properties: `VirtualRowIndexAgrees`, `ClampToLastRow`.
- **The search object's invariant** across a failed recompile, and stale spans after clear or rebind.
  - Properties: `CompiledIffPattern`, `NoStaleMatches`.
- **The match loop.** It covers offsets, `REG_NOTBOL`, and empty matches.
  - Property: `SearchIndexSound`, violated by `^a` (run `search_anchor`) and by `$` on `"aa"`.
- **Bounds of the cyclic next/previous scan**, in `size_t` arithmetic.
  - Properties: `ForwardNextNearest`, `BackwardNextNearest`.
- **Stream ownership** (`close_fp`).
  - Property: `StreamClosedOnce`.
- **Producers writing across a newline.** A PagedLine is read back only up to its first newline.
  - Properties: `NoHiddenText`, `ShownAsWritten`. Layout: `ColumnsAligned`, `OptionsWithinWidth`.
- **Two loops that must partition the colours.** The simple and compose colours are listed by loops over overlapping ranges of colour ids; the count and the printing loop skip different classes.
  - Property: `EverySetColourListedOnce`.
- **Initialisation order in `neomutt_init()`.** The objects' Notify parents are set before some of them are replaced.
  - Properties: `EventsReachNeoMutt` (the timeout, resize and account Notifies), `ConfigEventsReachNeoMutt` (the config subset), `NoDanglingParent`. The MailboxList pointers left dangling by `neomutt_account_remove()` are the caller's, and no property looks at them.
- **Narrowing to `short`, and a default set without its validator.**
  - Property: `NumberValueValid`.
- **Partial failure of Module callbacks in `neomutt_init()`.** Each stage combines the results of every Module with `rc &=`, and a later stage runs only if the earlier ones succeeded.
  - Property: `InitReportsModules`.
- **A crash between `fopen("w+")` and the commit** of a cached body.
  - Properties: `GetNeverPartial`, `BCacheRefinesStore`. Both rest on the modelled caller closing the file before the commit; a rename before the stream is flushed, and an empty body committed, are excluded, not checked.

## 2. Modules

| Module | Models | Notes |
|---|---|---|
| `Mbyte` | the mutt library primitives the engine calls: `mbrtowc`/`wcwidth`, `mutt_str_len`, `mutt_strwidth`, `mutt_wstr_trunc`, `mutt_file_read_line` | The library is not under `src/`, so these are modelled from its documented behaviour (`spec_modelled` in the map). |
| `VirtualRows` | `paged_lines_count_virtual_rows`, `paged_lines_find_virtual_row` | `RowPositions` is the flat reference. |
| `PagedFile` | Paged File + Paged Line + Markup Span Store | This is the main state machine. |
| `Regex` | how `regexec(..., REG_NOTBOL)` and `mutt_mb_is_lower` behave on the patterns modelled | `Occurrences` is the reference. |
| `SimplePagerSearch` | `spager/search.c`, composed with `PagedFile` | It EXTENDS `PagedFile`, so a search caches lines and moves the same stream position. |
| `PagedFileOwnership` | `paged_file_new` / `paged_file_free` and the caller's duty to close a stream it supplied | |
| `Producers` | `key/dump.c`, `version.c`'s `print_version`, `color/dump.c`'s `color_dump` and the dumps of `color/debug.c`, composed with `PagedFile` | See below. |
| `WrapSteps` | the loop of `paged_line_wrap`, one iteration per step | `PagedFile` evaluates the loop in one step; here its termination is a liveness property under weak fairness. |
| `NeoMuttCore` | `core/neomutt.c` | See below. |
| `NumberConfig` | `config/number.c` | See below. |
| `NeoMutt` | `NeoMuttCore` and `NumberConfig` together: config items are set while the object is ready | Interleaving composition. |
| `BodyCache` | `bcache.c`, with its fetching caller and crashes | See below. |
| `BodyStore` | the abstract promise of the body cache: a map from id to absent or full body, and the answer of each call | `MCBodyCache` instantiates it with a refinement mapping: an id's body is its final file `<id>`; `.tmp` files are invisible. |
| `MCPagedFile`, `MCSearch`, `MCProducers`, `MCNeoMutt`, `MCBodyCache`, `MCWrapSteps` | model-checking instances | |

**Data abstraction.**
- Bytes are `"a"`, `"A"` (one-column letters), `"NL"`, and a wide character `<<"W","w","w">>` of 3 bytes and 2 columns.
- A malformed sequence decodes to a one-column replacement character.
- A regex is a literal, optionally anchored with `^` and `$`, or a pattern that fails to compile.
- Colour ids are numbers: 19 for a producer colour, and 40 (`MT_COLOR_SEARCH`) for search.
- ANSI escape strings are a flag on the span.

**PagedFile state ↔ code.**
- `file` is the spill file's bytes and `pos` is the stream position.
- `lines` is `pf->lines`. Each line is a record with the fields of `struct PagedLine`.
- `producing` is the caller's phase.
- `view` is the last wrap mode.
- `hung` records that a `paged_line_wrap` call never returned.
- `written` is a history variable: what each line's `add_*` calls wrote.

**PagedFile actions ↔ code.**
- `NewLine` is `paged_file_new_line`.
- `AddText`, `AddColoredText` and `AddAnsiText` (through `AddBytes`) are the three `add_*text` calls.
- `AddNewline` is `paged_line_add_newline`.
- `GetText` is `get_text` / `get_virtual_text`, including their cache.
- `LinesWrap` is `paged_lines_wrap`. The whole loop is there: `WrapFrom` → `WrapLine` (`paged_line_wrap`, with its cache) → `WrapLoop`.
- `LineClear` is `paged_line_clear`.
- `FinishProducing` is the hand-over from producer to viewer.
- `paged_line_add_search` is `AddSearch` in `SimplePagerSearch`: `MarkupNew` with cid 40.

**SimplePagerSearch.**
- `SearchClear`, `SetLines`, `SpagerSearch` and `SpagerSearchNext` map to the functions of the same names.
- `SpagerSearch` contains the rest of the search function:
  - the compile-failure path;
  - emptying every line's spans;
  - `SearchLines`, which caches each line;
  - `ScanLine`, which is the `regexec` loop.
- `spager_search_new` is `SearchInit`.
- `spager_search_free` is `clear` followed by deallocation.
- `last_next` records the inputs and outputs of the last `next` call. It also records a snapshot of the lines that had matches at that time, so the properties can judge the call.

**Producers.**
- A producer is a sequential function of its inputs: the menus' sorted bindings and macros, the build's compile options, and the command's arguments. `Calls(job)` is the list of PagedFile calls it makes, built by operators that follow the code:
  - `DumpBindMacro` (argument parsing and its `goto done` paths);
  - `ColonBind`/`ColonMacro`, `PrintBind`/`PrintMacro`, with one `BindLine`/`MacroLine` per entry;
  - `PrintVersion` and the `RECURSIVE` `OptionsFrom` loop of `print_compile_options`, and `RStrip` (`rstrip_in_place`).
- `Init` picks a job. Each step makes the next call through the PagedFile action that models it: `DoNewLine` (`NewLine`), `DoText`, `DoColored`, `DoNewline`, `DoStripe` (the loop that restripes all of `pf->lines`), and `DoShow` (`dlg_spager`, i.e. `FinishProducing`).
- `tag` is a history variable: what each line is (a binding of menu m, an options line with its width, ...). `stripe` is each line's `cid`.
- Every ASCII character is `"a"`, except that the space ending a compile option is `"A"`, so that options can be counted. Keys and option names are sequences of these, and `"W"` gives a two-column key. `measure_column()` is not in the repository; it is taken as the widest entry of the column.
- The stream is a temporary file, so `isatty()` is false and no escape codes are written.
- The colour dump (`ColorDump`) is a job whose inputs are the colour registry: the simple colours that are set, the quoted levels, the number of regex rules of each colour, and, for a `USE_DEBUG_COLOR` build, the merged, ANSI and curses lists.
  - `SimpleColorsDump`, `QuotedColorsDump`, `StatusColorsDump` and `RegexColorsDump` follow the four functions; `MergedColorsDump`, `AnsiColorsDump` and `CursesColorsDump` follow `color/debug.c`.
  - Every entry is one line written by one `add_text` of a formatted string ending in `\n`. The text of an entry is abstracted to one character; its tag says which colour it lists.
  - `DoLog` is `log_paged_file()`: `paged_line_get_text()` on each line in order (`CacheEach`), which seeks the shared stream and caches the line.
  - `job` keeps the command and its inputs, so that properties can compare the output with them. The caller of `color_dump()` is not under `src/`; the job ends by handing the file to the pager, as the key dumps do.

**WrapSteps.**
- One line is wrapped: its cached text, the width and `LW_MARKERS` are chosen at the start. `LoopStep` is one iteration of the `while` loop, `LoopExit` the failed loop test.
- The segments are kept only as their number. `ARRAY_ADD()` grows the array with `mutt_mem_realloc()`, which exits the process when memory runs out. `LoopOutOfMemory` is that exit, after `MaxSegs` segments.

**NeoMuttCore.**
- Notify objects are numbers `1..MaxNotify`, allocated in order. Accounts are model values. `parent` is the Notify tree, and `live` is the set of objects not freed.
- `phase` is the object's life cycle: absent, created, ready, failed, freed.
- `NeoMuttInit(modules_ok, config_ok, commands_ok)` has one disjunct per outcome. `NeoMuttInitModules(arg, res)` drives it from the Module table: `ModuleTable` is a sequence of the sets of callbacks each Module has, `res` the result each present callback returns. `InitModules`, `InitConfigRc` and `InitCommands` are the three stages (`rc &=` over every Module: `StageRc`), each skipped when an earlier one failed, and `init_calls` records every callback called with its result. `modules` is `n->modules`; `NeoMuttGuiInit` returns false without it. On success, `init_config` hangs `sub` under the *current* `n->notify`, and then the code allocates three new Notifies.
- `AccountAdd`, `AccountRemove` (a NULL account removes all of them), `MailboxListGetAll(type)` (mailboxes of accounts of a type, or all for `MUTT_UNKNOWN`), `MailboxListClear`, `FopenMasked` (the permission `0666 & ~umask` with the user's umask), `NeoMuttFree`.

**NumberConfig.**
- `var[i]` is the `short` of item i. Storing an int keeps its low 16 bits (`Short`). `initial[i]` is `cdef->initial`. `nret` is the returned `CSR_` code.
- A string value is a record of its kind: empty, text, a numeral, or a numeral past the `int` range.
- A validator is given by the set of values it accepts.

**BodyCache.**
- A file is absent, partial or full. `writer` is the name the caller has open, and `pending` is the id it will commit.
- The caller, the IMAP/POP fetch code (not in `src/`), puts with `tmp = 1`, writes, closes and commits before fetching the next body.
- `Crash` loses the process and leaves an open file partial. It is bounded by `MaxCrashes`.

**BodyStore.** The cache as its callers see it: `Fetch(id)` starts a body, `Commit(id)` makes it full, `Delete`, `Get`, `Exists` and `List` answer from the map, and `Crash` forgets the body being fetched. The concrete cache's `put`, `close` and writes are stuttering steps of it.

## 3. Runs

| Run | Expect | What it shows |
|---|---|---|
| `pagedfile_core` | pass | Up to 2 lines, 6 bytes and widths 2 and 3 (with markers). The spill-file round trip, the wrap segmentation and the row index all hold: 1.1M states. |
| `wrap_hang` | violation | `MCWrapSteps`, under weak fairness of the loop: a two-column character at width 1 (or at width 2 with markers, after the first segment) makes the loop append empty segments without advancing, until the process runs out of memory. `WrapTerminates` is violated. |
| `search_core` | pass | Case-folded `a`, exact `A` and an invalid pattern over up to 3 lines, so that a start row has two other rows, with and without matches. Find-previous returns the nearest other matching row, wrapping round from the last: 1.2M states. |
| `search_forward_next` | violation | Find-next from row 0 returns row 0. |
| `search_failed_recompile` | violation | `compiled` stays TRUE with no pattern. |
| `search_anchor` | violation | `^a` records no match in a line starting with `a`: every `regexec()` passes `REG_NOTBOL`, against spec 4.5's "line-boundary anchors are honored". `SearchIndexSound` is violated. |
| `file_ownership` | violation | A supplied stream is closed twice; a temporary one is never closed. |
| `producers_layout` | pass | Every form of `:bind`/`:macro` (all menus, one menu, an unknown menu, a second argument, no temp file) and `neomutt -v` at widths 0 and 9, plus three colour dumps. The tables are aligned in screen columns, and compile options wrap within the width. Every colour that is set is listed exactly once. Every line of a key or colour dump reads back as written, including after `log_paged_file()` cached them at the end of `color_dump()`. |
| `version_hidden_text` | violation | `neomutt -v` writes the Notice and ReachingUs after a newline on one PagedLine, and the pager never shows them. |
| `neomutt_core` | pass | `MCNeoMutt`: the core object's whole life, with a table of two Modules whose callbacks each succeed or fail (or no table) and two accounts of two types, interleaved with `:set`/native set/reset of two Number items. The Notify tree never has a freed parent, timeouts, resizes and account events reach `n->notify`, `neomutt_init()` fails exactly when some callback it called failed, and on success every callback of every Module was called; number items stay within their sign and validator: 922k states. |
| `neomutt_config_events` | violation | After a successful `neomutt_init()`, the config subset's Notify hangs under a Notify that is no longer `n->notify`. |
| `bcache_crash` | pass | Two ids, a cache path that is absent, a directory or a file, and up to two crashes. `mutt_bcache_get()` never returns a partial body, and the cache implements `BodyStore` (`BCacheRefinesStore`). |

Each property of a passing run has a mutant in PROJECT.json. A mutant is a plausible bug in the mapped definition, and TLC finds the property violated when the mutant is in place:
- `mutt_file_read_line` with the end-of-file position off by one;
- `cache` without its `fseek`;
- segment columns taken from the byte counter;
- the row lookup with `<=`;
- the `regexec` result not checked;
- the backward wrap-around including `start_row`;
- a new PagedLine not zero-initialised; pads computed from bytes, not columns; the option fit test without the option's length;
- `mailboxlist_get_all` adding accounts instead of mailboxes; `neomutt_free` not freeing the accounts; `init` creating the new Notify before `init_config`;
- the range check off by one;
- a stage's result taken from its last Module only (`rc =` instead of `rc &=`);
- `put` writing under the final name; `list` counting `.` and `..`; `mutt_bcache_move` with its arguments swapped in `commit` (against the refinement);
- `simple_colors_dump()` without its `COLOR_COMPOSE` skip; `cache` without its `fseek` (against `ShownAsWritten`).

**Bounds.**
- Two lines are enough to reach every case that involves a line boundary: the shared stream position, offsets and row lookup across lines.
- Six bytes allow a wide character plus a letter plus a newline in one line, or short lines in both.
- Widths 2 and 3 (with markers) put a 2-column character exactly at a segment boundary.
- The `search_core` run has 3 lines and 3 bytes: a start row then has two other rows, so the nearest of two matching rows, and the order of the backward wrap-around, are both reached. The violation runs use 1 or 2 lines, which is enough for their traces.
- The violation runs use smaller bounds still; TLC reports the shortest trace.
- Producers: two menus, one with a one-column and a two-column key, one with only macros (with and without a description). `CompOpts[]` and `DebugOpts[]` are built from the build's defined symbols (`CompileOptionsTable`, `DebugOptionsTable`): four compile options, two defined, at width 9 make three lines, and a defined devel option longer than the width makes a line of its own. Each job's calls are deterministic, so the run is every job's complete trace.
- Colour jobs:
  - a debug build with a simple, a status and two compose colours (listed in a different order by `ColorFields[]`), quoted levels 0 and 9, two regex rules and a status rule, a merged list with one entry lacking a curses colour, and one curses colour;
  - a release build with only a compose colour set;
  - a debug build with only a status rule and an ANSI list.
- WrapSteps: lines of three one-column characters, or a letter and a two-column character in either order, at widths 1 and 2, with and without markers. No line makes more than three segments, so `MaxSegs = 4` is reached only by a loop that makes no progress.
- NeoMutt: seven Notifies (three for `new`, one for the config subset, three more for `init`) are exactly what one life can allocate. Two accounts of different types show selection by type. Two Modules, one without `commands_register` and one without `config_define_variables`, reach a stage where only some Modules take part, and every callback result is enumerated; a NULL table skips the stages. The mailbox list is capped at 3 entries. Number inputs cover each return path: empty, text, overflow, in range, ±32768 around the short's bounds, and a native 65541 that would wrap.
- BodyCache: two ids so that one can be committed while the other is partial; two crashes so that a crash can hit a retry.

**Fairness.**
- The program is single-threaded and user-driven. Which call comes next is the user's choice, so no call of the API is assumed to happen eventually, and the passing runs check safety only.
- The one liveness question is whether a call returns. In `WrapSteps` the loop of `paged_line_wrap` takes one step per iteration, under weak fairness: it is straight-line code on the calling thread, so while it can run, it does.
  - `WrapTerminates` asks that it return.
  - `PagedFile` keeps the loop atomic, and flags a provable fixed point as `hung` (`NoWrapHang`).
- Deadlock is checked in the pager and search runs, where the viewer can always act, and in `neomutt_core` and `bcache_crash`.
- The ownership model's session really ends, and so does a producer's command once the file is shown or the command fails. Those cfgs turn deadlock checking off.

## 4. Findings

See `findings` in PROJECT.json. In short:
- Wrapping can loop until the process runs out of memory.
- Find-next is off by one on wrap-around.
- A failed recompile breaks the search invariant and leads to a double `regfree`.
- `close_fp` is inverted.
- `print_version()` hides three lines of the Notice and all of ReachingUs from the pager.
- `^` never matches in a search, because `REG_NOTBOL` is always passed.
- `neomutt_init()` re-creates `n->notify` after `init_config()` has attached the config subset to the old one. Config events go to an orphaned Notify, and three Notifies leak.

Also seen, with no run (the project keeps at most twelve runs). The properties are kept in the modules; a cfg that sets them as its INVARIANT reproduces the trace:
- Wrapping is not idempotent (counter drift: `WrapIdempotent` with one chunk `<<"a","a","NL">>` at width 2). `add_text` counts a newline that `cache` does not (paged_line.c:192).
- A row past the end gives segment -1, not the last row (`ClampToLastRow`, paged_line.c:361).
- Caching a line that is still being written freezes stale text (`CacheRoundTrip` with `ViewWhileProducing = TRUE`, paged_line.c:189).
- Spans survive clear, rebind and a failed search (`NoStaleMatches`, search.c:46); spec 7b says no stale match data remains.
- `neomutt_gui_init()` ignores the result of its steps and always returns true (neomutt.c:342).
- `neomutt_account_add()` does not check whether the account is already in the list.
- `print_bind()` puts the `\n` inside the COMMENT span, so the span ends past the text read back (key/dump.c:90). `colon_bind()` adds a blank line after an empty menu too, where `colon_macro()` does not, and the last blank lines are never striped.
- `print_compile_options()` counts a devel option as `strlen + 2` but prints `strlen + 1`, and when the first option does not fit it writes an empty indented line.
- After an empty match, the scan advances by one from the old offset and not past the match (search.c:161). So `$` on `"aa"` is recorded twice: `SearchIndexSound` is violated when the pattern set is `{$}`.
- `LW_MARKERS` takes the column from the segments after the first (paged_line.c:233). Spec 4.2 and the scenario in spec 8 take it from the first segment, but spec 9 leaves this as an open question.
- `spager_search_search` always returns `SR_SEARCH_ERROR` (search.c:170).
- With only compose colours set, `simple_colors_dump()` writes an empty "# Simple Colors" section: a header and a blank line (color/dump.c:330). Its count loop does not skip compose colours, but its printing loop does. The release-build colour job of `MCProducers` produces it. `quoted_colors_dump()` writes its header even when no quoted colour is set.
- From reading the code, not checked: a status rule with a match number of two or more digits shifts its `#` comment column (`"%-28s %d"`, color/dump.c:465).

## 5. Plan

Sitting 1 built the pager core. Sitting 2 added the producers, the NeoMutt core object with the Number config type, and the body cache. Sitting 3 added the colour dumps and the step-by-step wrap loop with its liveness property. Sitting 4 added the Module callbacks of `neomutt_init()`, the `BodyStore` abstract specification with the body cache's refinement of it, and the build-dependent option tables of `version.c`. Sitting 5 removed properties that could not fail (a refinement that repeated `CacheRoundTrip`, the Number type invariant), turned the anchored-search disagreement into the `search_anchor` run, raised the find-previous run to three lines, and narrowed the hazards' property lists to the properties that really reach them. The next steps, most important first:
1. An abstract specification of the paged file's logical lines with their markup spans, which `PagedFile` refines, so that the COMMENT span of `print_bind()`, which ends past the re-read text, is caught. (An earlier refinement without spans repeated `CacheRoundTrip` and was removed.)
2. An abstract cyclic next/previous-match specification, which `SpagerSearchNext` refines for the backward direction.
3. `spager_search_next` with `start_row` at or past the end (the NULL dereference at search.c:217). No caller in `src/` passes such a row.

## 6. Not modelled

- `core/mxapi.h`: the mailbox backend interface, declarations only (component Declarations). `init_locale()` only sets the locale.
- `number_string_get()` and `number_native_get()`: they only read the item.
- `print_copyright()` writes fixed text to stdout. `feature_enabled()` is a lookup in the `CompOpts` table and changes no state; option names are abstract, so the lookup would not tell them apart.
- `neomutt_gui_init()`'s calls of each Module's `gui_init` and their results: the function ignores them (neomutt.c:342), and the hazard has no run of its own.
- The text of a colour entry: `color_log_color_attrs()`, `color_log_attrs_list()`, `color_log_name()` and `color_log_color()` format it into buffers that have room for every case, and no property depends on the wording. `curses_color_dump()` only writes to the debug log.
- `usage.c` and `debug/spager.c`: text output only, with no state beyond what they print.
- The body cache's path building (`bcache_path`): string formatting, abstracted to success or failure of `open`. Data lost at an OS crash without `fsync` is outside the model.
- `score.h`, `sidebar.h`, `index/status.h`, `pattern/module.c`: declarations.
- The tests: they are read for the behaviour they expect.
- Colour rendering, `ansi_start`/`ansi_end` strings, the contents of `regerror` messages and logging: they have no bearing on any property.
