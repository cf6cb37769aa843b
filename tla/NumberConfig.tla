---------------------------- MODULE NumberConfig ----------------------------
(***************************************************************************)
(* The Number config type (config/number.c): config items of type        *)
(* DT_NUMBER, each stored in a short, set by string or by native value,   *)
(* and reset.  number_string_get() and number_native_get() only read the *)
(* item (the short widened to an int, and "%d" of it or of cdef->initial) *)
(* and are left out.  An item's flags and validator are constants; a   *)
(* validator (a function of the value, defined with the item elsewhere)   *)
(* is the set of values it accepts.  A string value is a record: its     *)
(* kind is "empty", "text" (not a number), "numeral" (a decimal numeral   *)
(* of the int num) or "overflow" (a numeral past the range of an int).    *)
(***************************************************************************)
EXTENDS Integers

CONSTANTS
  Items,         \* the Number config items
  Default,       \* Default[i]: cdef->initial as defined
  NotNegative,   \* NotNegative[i]: cdef->type & DT_NOT_NEGATIVE
  HasValidator,  \* HasValidator[i]: cdef->validator != NULL
  Accepted,      \* Accepted[i]: the values the validator accepts
  StrInputs,     \* strings a user may :set
  IntInputs      \* values code may pass to cs_subset_native_set()

VARIABLES
  var,      \* var[i]: *(short *) var, the item's value
  initial,  \* initial[i]: cdef->initial
  nret      \* the CSR_ code the last set or reset returned

numVars == <<var, initial, nret>>

SHRT_MIN == -32768
SHRT_MAX == 32767
INT_MIN == -2147483647 - 1
INT_MAX == 2147483647

\* storing an int in a short keeps its low 16 bits, two's complement
Short(x) == ((x - SHRT_MIN) % 65536) + SHRT_MIN

\* mutt_str_atoi(): a decimal numeral that fits an int, else an error
AtoiOk(s) == s.kind = "numeral"

Rc(result, flag) == [result |-> result, flag |-> flag]
Success == Rc("success", "none")
NoChange == Rc("success", "no_change")
InvType == Rc("invalid", "inv_type")
InvValidator == Rc("invalid", "inv_validator")

Validates(i, v) == ~HasValidator[i] \/ v \in Accepted[i]

NumberInit ==
  /\ var = Default
  /\ initial = Default
  /\ nret = Success

(***************************************************************************)
(* Store num in the item after the checks common to every setter: equal   *)
(* to the current value is CSR_SUC_NO_CHANGE, a rejecting validator is    *)
(* CSR_INV_VALIDATOR, else the short is written.                           *)
(***************************************************************************)
StoreChecked(i, num) ==
  \/ /\ num = var[i]
     /\ nret' = NoChange /\ UNCHANGED var
  \/ /\ num # var[i] /\ ~Validates(i, num)
     /\ nret' = InvValidator /\ UNCHANGED var
  \/ /\ num # var[i] /\ Validates(i, num)
     /\ var' = [var EXCEPT ![i] = Short(num)] /\ nret' = Success

\* the range and DT_NOT_NEGATIVE checks, true when num gets past them
\* mutant: the upper bound off by one
InRangeOffByOne(num) == SHRT_MIN <= num /\ num <= SHRT_MAX + 1

InRange(num) == SHRT_MIN <= num /\ num <= SHRT_MAX
SignOk(i, num) == ~(num < 0 /\ NotNegative[i])

(***************************************************************************)
(* number_string_set(): empty or unparsable (both CSR_INV_TYPE, only the  *)
(* message differs), out of short range, negative                          *)
(* for DT_NOT_NEGATIVE; then with a var the checked store, without one    *)
(* (setting the default) cdef->initial = num, with no validator.          *)
(***************************************************************************)
NumberStringSet(i, value, to_var) ==
  LET num == value.num IN
  /\ \/ /\ (~AtoiOk(value) \/ ~InRange(num))
        /\ nret' = InvType /\ UNCHANGED <<var, initial>>
     \/ /\ AtoiOk(value) /\ InRange(num) /\ ~SignOk(i, num)
        /\ nret' = InvValidator /\ UNCHANGED <<var, initial>>
     \/ /\ AtoiOk(value) /\ InRange(num) /\ SignOk(i, num)
        /\ \/ to_var /\ StoreChecked(i, num) /\ UNCHANGED initial
           \/ /\ ~to_var /\ initial' = [initial EXCEPT ![i] = num]
              /\ nret' = Success /\ UNCHANGED var

\* number_native_set(): the same checks on an intptr_t, no parsing
NumberNativeSet(i, value) ==
  /\ \/ /\ ~InRange(value)
        /\ nret' = InvType /\ UNCHANGED var
     \/ /\ InRange(value) /\ ~SignOk(i, value)
        /\ nret' = InvValidator /\ UNCHANGED var
     \/ /\ InRange(value) /\ SignOk(i, value)
        /\ StoreChecked(i, value)
  /\ UNCHANGED initial

(***************************************************************************)
(* number_reset(): back to cdef->initial through the validator, with no   *)
(* range or sign check (string_set checked them when it set initial).     *)
(***************************************************************************)
NumberReset(i) ==
  /\ StoreChecked(i, initial[i])
  /\ UNCHANGED initial

NumberNext ==
  \E i \in Items :
    \/ \E v \in StrInputs, to_var \in BOOLEAN : NumberStringSet(i, v, to_var)
    \/ \E v \in IntInputs : NumberNativeSet(i, v)
    \/ NumberReset(i)

-----------------------------------------------------------------------------

(***************************************************************************)
(* An item only ever holds a value its definition allows: never negative *)
(* for DT_NOT_NEGATIVE, and accepted by the validator unless it is still  *)
(* the compiled-in default.  Setting a new default by string skips the    *)
(* validator, so this rests on number_reset() validating cdef->initial,   *)
(* and on the short range check before a value is narrowed.               *)
(***************************************************************************)
NumberValueValid ==
  \A i \in Items :
    /\ SignOk(i, var[i])
    /\ (var[i] = Default[i] \/ Validates(i, var[i]))

====
