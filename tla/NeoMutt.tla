------------------------------- MODULE NeoMutt -------------------------------
(***************************************************************************)
(* The NeoMutt object with a Number config item in its config set.  The   *)
(* item is defined while neomutt_init() runs (the config Module registers *)
(* the Number type with number_init() and defines its variables), so the  *)
(* config calls interleave with the core's only once init has succeeded,  *)
(* and stop when neomutt_free() frees the subset.                          *)
(***************************************************************************)
EXTENDS NeoMuttCore, NumberConfig

vars == <<coreVars, numVars>>

SystemInit == Init /\ NumberInit

SystemNext ==
  \/ Next /\ UNCHANGED numVars
  \/ phase = "ready" /\ NumberNext /\ UNCHANGED coreVars

SystemSpec == SystemInit /\ [][SystemNext]_vars

====
