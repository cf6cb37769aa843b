----------------------------- MODULE BodyStore -----------------------------
(***************************************************************************)
(* What the message body cache promises its callers: a store of whole     *)
(* message bodies by id.  A caller fetches a body into the cache; when it *)
(* commits it, the body appears, whole, under its id.  A delete removes   *)
(* it, and a get or an exists call answers with what is stored.  Nothing  *)
(* else, a crash of the process included, changes what is stored; a crash *)
(* forgets the fetched body that was not yet committed.                    *)
(***************************************************************************)
CONSTANTS
  Ids         \* message ids

VARIABLES
  store,      \* store[id]: "full" when a body is stored under id, else "absent"
  pending,    \* the id whose body was fetched and awaits its commit, or "none"
  answer      \* the last call and its answer: [op, val]

vars == <<store, pending, answer>>

Init ==
  /\ store = [id \in Ids |-> "absent"]
  /\ pending = "none"
  /\ answer = [op |-> "none", val |-> 0]

\* a put, its writes and close: the body is fetched, the store unchanged
Fetch(id) ==
  /\ pending = "none"
  /\ pending' = id
  /\ UNCHANGED <<store, answer>>

Put ==
  /\ answer'.op = "put"
  /\ UNCHANGED <<store, pending>>

Commit(id) ==
  /\ pending = id
  /\ store' = [store EXCEPT ![id] = "full"]
  /\ pending' = "none"
  /\ answer' = [op |-> "commit", val |-> TRUE]

Delete(id) ==
  /\ store' = [store EXCEPT ![id] = "absent"]
  /\ answer' = [op |-> "del", val |-> store[id] = "full"]
  /\ UNCHANGED pending

Get(id) ==
  /\ answer' = [op |-> "get", val |-> store[id]]
  /\ UNCHANGED <<store, pending>>

Exists(id) ==
  /\ answer' = [op |-> "exists", val |-> store[id] = "full"]
  /\ UNCHANGED <<store, pending>>

\* the number of entries also counts bodies not yet committed
List ==
  /\ answer'.op = "list"
  /\ UNCHANGED <<store, pending>>

Crash ==
  /\ pending' = "none"
  /\ answer' = [op |-> "none", val |-> 0]
  /\ UNCHANGED store

Next ==
  \/ \E id \in Ids : Fetch(id) \/ Commit(id) \/ Delete(id) \/ Get(id) \/ Exists(id)
  \/ Put
  \/ List
  \/ Crash

Spec == Init /\ [][Next]_vars

=============================================================================
