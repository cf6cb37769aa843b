---------------------------- MODULE MCProducers ----------------------------
(***************************************************************************)
(* Model-checking instance of Producers: two menus, one with bindings of  *)
(* a narrow and a wide key and no macros, one with macros (with and       *)
(* without a description) and no bindings; a build with four compile      *)
(* options, two devel options, one too long for any line, one library     *)
(* line; every form of the :bind / :macro command and "neomutt -v" at     *)
(* widths 0 (no wrapping) and 9.                                           *)
(* Colours: two simple ones (one with regex rules), two compose ones      *)
(* listed in a different order by ColorFields[], and status; three colour *)
(* jobs: a debug build with every kind of section, a release build with  *)
(* only compose colours set, and one with only a status rule.             *)
(***************************************************************************)
EXTENDS Producers

CONSTANTS m1, m2

MCMenus == <<m1, m2>>
MCMenuName == [m \in {m1, m2} |-> IF m = m1 THEN "index" ELSE "pager"]

Bind(k, f, d) == [key |-> k, func |-> f, desc |-> d]
Macro(k, t, d) == [key |-> k, text |-> t, desc |-> d]

MCBinds == [m \in {m1, m2} |->
              IF m = m1 THEN << Bind(<<"a">>, <<"a", "a">>, <<"a">>),
                                Bind(<<"W">>, <<"a">>, <<"a">>) >>
              ELSE << >>]
MCMacros == [m \in {m1, m2} |->
               IF m = m1 THEN << >>
               ELSE << Macro(<<"a", "a">>, <<"a">>, <<"a">>),
                       Macro(<<"W">>, <<"a", "a">>, NULL) >>]

\* measure_column(): the widest entry of the column, in screen columns.
MaxCols(S) == CHOOSE w \in S : \A v \in S : v <= w
MCWidth0 == [m \in {m1, m2} |->
               IF m = m1 THEN MaxCols({Cols(Binds[m][k].key) : k \in 1..2})
               ELSE MaxCols({Cols(Macros[m][k].key) : k \in 1..2})]
MCWidth1 == [m \in {m1, m2} |->
               IF m = m1 THEN MaxCols({Cols(Binds[m][k].func) : k \in 1..2}) ELSE 0]

\* A build of four compile options (the 1st and 3rd defined) and three devel
\* options, of which it defines the 1st and the 2nd, too long for any line.
Name(n) == [k \in 1..n |-> "a"]
MCCompOpts == CompileOptionsTable(<< Name(2), Name(1), Name(3), Name(1) >>, {1, 3})
MCDebugOpts == DebugOptionsTable(<< Name(2), Name(8), Name(3) >>, {1, 2})
MCBuild == [ncurses |-> TRUE, libs |-> 1, domain |-> FALSE, ispell |-> TRUE,
            configure |-> <<"a", "NL">>]

Args(n, name) == [n |-> n, name |-> name]
KeyJob(cmd, args, ok) == [cmd |-> cmd, args |-> args, pf_ok |-> ok, width |-> 0]
VersionJob(w) == [cmd |-> "version", args |-> Args(0, "all"), pf_ok |-> TRUE, width |-> w]

MCJobs ==
  { KeyJob("bind", Args(0, "all"), TRUE), KeyJob("bind", Args(1, "index"), TRUE),
    KeyJob("bind", Args(1, "pager"), TRUE), KeyJob("bind", Args(1, "bogus"), TRUE),
    KeyJob("bind", Args(2, "index"), TRUE), KeyJob("bind", Args(0, "all"), FALSE),
    KeyJob("macro", Args(1, "all"), TRUE), KeyJob("macro", Args(1, "pager"), TRUE),
    VersionJob(0), VersionJob(9) }

\* Colours 11 and 12 are simple (12 takes patterns, like "body"), 13 and 15
\* are compose colours, 14 is status.
MCColorCids == <<11, 12, 13, 14, 15>>
MCColorClass == [c \in 11..15 |-> IF c \in {13, 15} THEN "compose"
                                  ELSE IF c = 14 THEN "status" ELSE "simple"]
MCColorFields == <<15, 11, 12, 13, 14>>
MCHasPattern == {12, 14}

Rules(r12, r14) == [c \in 11..15 |-> IF c = 12 THEN r12 ELSE IF c = 14 THEN r14 ELSE 0]
ColourJob(set, quoted, rules, debug, merged, ansi, curses) ==
  [cmd |-> "color", set |-> set, quoted |-> quoted, rules |-> rules, debug |-> debug,
   merged |-> merged, ansi |-> ansi, curses |-> curses]

MCColourJobs ==
  { ColourJob({11, 13, 14, 15}, {0, 9}, Rules(2, 1), TRUE, <<TRUE, FALSE>>, NULL, 1),
    ColourJob({13}, {}, Rules(0, 0), FALSE, <<>>, NULL, 0),
    ColourJob({}, {}, Rules(0, 1), TRUE, <<>>, <<TRUE>>, 0) }

MCAllJobs == MCJobs \cup MCColourJobs

MCVersionJobs == { VersionJob(9) }

====
