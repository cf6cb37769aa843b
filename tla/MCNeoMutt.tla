----------------------------- MODULE MCNeoMutt -----------------------------
(***************************************************************************)
(* Model-checking instance of NeoMutt: two Accounts of different types,   *)
(* one of them with two Mailboxes, a starting umask of 022, and a           *)
(* DT_NOT_NEGATIVE Number item with a validator, set to values at the     *)
(* edges of a short and of an int.                                        *)
(***************************************************************************)
EXTENDS NeoMutt

CONSTANTS a1, a2, m1, m2, m3, n1, n2

\* MUTT_MBOX = 1, MUTT_IMAP = 3
MCAccountType == [a \in {a1, a2} |-> IF a = a1 THEN 1 ELSE 3]
MCBoxes == [a \in {a1, a2} |-> IF a = a1 THEN <<m1, m2>> ELSE <<m3>>]

\* octal 022
MCUmasks == {18}

\* n1: DT_NOT_NEGATIVE, no validator, default 0; n2: may be negative, a
\* validator accepting -50..50, default 10.  Strings: "", "x", numerals in
\* and just out of a short's range, and one past INT_MAX.
MCDefault == [i \in {n1, n2} |-> IF i = n1 THEN 0 ELSE 10]
MCNotNegative == [i \in {n1, n2} |-> i = n1]
MCHasValidator == [i \in {n1, n2} |-> i = n2]
MCAccepted == [i \in {n1, n2} |-> -50..50]
Str(kind, num) == [kind |-> kind, num |-> num]
MCStrInputs ==
  {Str("empty", 0), Str("text", 0), Str("overflow", 0)} \cup
  {Str("numeral", n) : n \in {5, -1, 100, 32767, -32768, 32768}}
\* native values: one in range, a negative one, and two that a short would
\* truncate to a valid value (32768 to -32768, 65541 to 5)
MCIntInputs == {5, -1, 32768, 65541}

\* Two Modules that both have init() and config_define_types(), so that an
\* earlier Module's failure meets a later one's success; the first defines
\* config variables, the second registers commands.
MCModuleTable ==
  << {"init", "config_define_types", "config_define_variables"},
     {"init", "config_define_types", "commands_register"} >>

\* get_all appends without clearing; three nodes let a second call append
MailboxListBound == Len(mblist) <= 3

====
