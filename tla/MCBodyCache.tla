---------------------------- MODULE MCBodyCache ----------------------------
(***************************************************************************)
(* Model-checking instance of BodyCache: two message ids, callers that    *)
(* cache through "<id>.tmp", any starting state of the cache path, and    *)
(* up to two crashes; and the mapping onto the abstract BodyStore.        *)
(***************************************************************************)
EXTENDS BodyCache

CONSTANTS i1, i2

(***************************************************************************)
(* The refinement mapping: what is stored under an id is the file under   *)
(* its final name; the fetched body and the answers are the caller's.     *)
(***************************************************************************)
MappedStore == [id \in Ids |-> files[Name(id, FALSE)]]

Store == INSTANCE BodyStore WITH store <- MappedStore, answer <- res

(***************************************************************************)
(* The body cache implements an atomic store of whole bodies (BodyStore): *)
(* writing under "<id>.tmp" and renaming it over "<id>" in                *)
(* mutt_bcache_commit() makes a fetched body appear whole in one step and *)
(* succeed, unlink() in mutt_bcache_del() removes it, get and exists       *)
(* answer with what is stored, and no crash, put or list changes it.      *)
(***************************************************************************)
BCacheRefinesStore == Store!Spec

====
