----------------------------- MODULE BodyCache -----------------------------
(***************************************************************************)
(* The message body cache (bcache.c): a directory of files named by       *)
(* message id, written through mutt_bcache_put() under "<id>.tmp" and     *)
(* moved into place by mutt_bcache_commit(), with a crash of the process  *)
(* at any point.                                                           *)
(*                                                                         *)
(* A file is "absent", "partial" (opened, truncated or written only in    *)
(* part) or "full".  A name is [id, tmp].  The callers (the IMAP and POP  *)
(* fetch code, outside this file) pass tmp = 1, write the body into the   *)
(* stream put returned, close it and then commit that id if the fetch     *)
(* succeeded; Client* are their steps.                                     *)
(* A crash loses the process, the open handle and what stdio had not yet  *)
(* written: a file open for writing is left partial.  The files stay.     *)
(***************************************************************************)
EXTENDS Integers, FiniteSets

CONSTANTS
  Ids,         \* message ids
  PutTmp,      \* the tmp arguments the callers pass to mutt_bcache_put()
  DirStates,   \* what the cache path may be at start: "absent", "dir", "file"
  MaxCrashes   \* crashes the model allows

VARIABLES
  bc,        \* the body_cache_t: "closed" (NULL) or "open"
  dir,       \* the cache directory: "absent", "dir" or "file"
  files,     \* files[n]: the file under name n
  writer,    \* the name the caller has open for writing, or "none"
  written,   \* whether the caller has written the whole body into it
  pending,   \* the id the caller has fetched and closed, to commit, or "none"
  res,       \* the last call's result: [op, val]
  crashes    \* crashes so far

bcVars == <<bc, dir, files, writer, written, pending, res, crashes>>

Name(id, tmp) == [id |-> id, tmp |-> tmp]
Names == {Name(id, tmp) : id \in Ids, tmp \in BOOLEAN}
NoWriter == [id |-> "none", tmp |-> FALSE]

BCacheInit ==
  /\ bc = "closed"
  /\ dir \in DirStates
  /\ files = [n \in Names |-> "absent"]
  /\ writer = NoWriter
  /\ written = FALSE
  /\ pending = "none"
  /\ res = [op |-> "none", val |-> 0]
  /\ crashes = 0

(***************************************************************************)
(* mutt_bcache_open(): NULL when bcache_path() fails ($message_cachedir   *)
(* unset, or the path too long for the buffer); mutt_bcache_close().      *)
(***************************************************************************)
BCacheOpen(path_ok) ==
  /\ bc = "closed"
  /\ bc' = IF path_ok THEN "open" ELSE "closed"
  /\ UNCHANGED <<dir, files, writer, written, pending, res, crashes>>

BCacheClose ==
  /\ bc = "open" /\ writer = NoWriter
  /\ bc' = "closed"
  /\ UNCHANGED <<dir, files, writer, written, pending, res, crashes>>

\* mutt_bcache_get(): fopen(path id, "r"), whatever the file holds
BCacheGet(id) ==
  /\ bc = "open"
  /\ res' = [op |-> "get", val |-> files[Name(id, FALSE)]]
  /\ UNCHANGED <<bc, dir, files, writer, written, pending, crashes>>

(***************************************************************************)
(* mutt_bcache_put(): NULL if the path is not a directory, or cannot be   *)
(* made; else fopen(path id[.tmp], "w+"), which truncates the file.  A    *)
(* caller commits what it fetched before it fetches the next message.     *)
(***************************************************************************)
\* mutant: the body is written under its final name
BCachePutNoTmp(id, tmp) ==
  /\ bc = "open" /\ writer = NoWriter /\ pending = "none"
  /\ \/ /\ dir = "file"
        /\ UNCHANGED <<dir, files, writer, written>>
     \/ /\ dir \in {"absent", "dir"}
        /\ dir' = "dir"
        /\ files' = [files EXCEPT ![Name(id, FALSE)] = "partial"]
        /\ writer' = Name(id, FALSE)
        /\ written' = FALSE
  /\ res' = [op |-> "put", val |-> dir # "file"]
  /\ UNCHANGED <<bc, pending, crashes>>

BCachePut(id, tmp) ==
  /\ bc = "open" /\ writer = NoWriter /\ pending = "none"
  /\ \/ /\ dir = "file"
        /\ UNCHANGED <<dir, files, writer, written>>
     \/ /\ dir \in {"absent", "dir"}
        /\ dir' = "dir"
        /\ files' = [files EXCEPT ![Name(id, tmp)] = "partial"]
        /\ writer' = Name(id, tmp)
        /\ written' = FALSE
  /\ res' = [op |-> "put", val |-> dir # "file"]
  /\ UNCHANGED <<bc, pending, crashes>>

\* the caller writes the body into the stream, then fclose()s it
ClientWrite ==
  /\ writer # NoWriter /\ ~written
  /\ written' = TRUE
  /\ UNCHANGED <<bc, dir, files, writer, pending, res, crashes>>

ClientClose ==
  /\ writer # NoWriter
  /\ files' = [files EXCEPT ![writer] = IF written THEN "full" ELSE "partial"]
  /\ pending' = IF written /\ writer.tmp THEN writer.id ELSE "none"
  /\ writer' = NoWriter
  /\ written' = FALSE
  /\ UNCHANGED <<bc, dir, res, crashes>>

(***************************************************************************)
(* mutt_bcache_commit() = mutt_bcache_move(id.tmp, id): rename(), which   *)
(* fails when id.tmp does not exist and otherwise replaces id.            *)
(***************************************************************************)
\* mutant: the arguments of mutt_bcache_move() swapped, "<id>" renamed to "<id>.tmp"
BCacheCommitSwapped(id) ==
  /\ bc = "open" /\ pending = id
  /\ files' = IF files[Name(id, FALSE)] = "absent" THEN files
              ELSE [files EXCEPT ![Name(id, TRUE)] = files[Name(id, FALSE)],
                                 ![Name(id, FALSE)] = "absent"]
  /\ pending' = "none"
  /\ res' = [op |-> "commit", val |-> files[Name(id, FALSE)] # "absent"]
  /\ UNCHANGED <<bc, dir, writer, written, crashes>>

BCacheCommit(id) ==
  /\ bc = "open" /\ pending = id
  /\ files' = IF files[Name(id, TRUE)] = "absent" THEN files
              ELSE [files EXCEPT ![Name(id, FALSE)] = files[Name(id, TRUE)],
                                 ![Name(id, TRUE)] = "absent"]
  /\ pending' = "none"
  /\ res' = [op |-> "commit", val |-> files[Name(id, TRUE)] # "absent"]
  /\ UNCHANGED <<bc, dir, writer, written, crashes>>

\* mutt_bcache_del(): unlink(path id)
BCacheDel(id) ==
  /\ bc = "open" /\ writer = NoWriter
  /\ files' = [files EXCEPT ![Name(id, FALSE)] = "absent"]
  /\ res' = [op |-> "del", val |-> files[Name(id, FALSE)] # "absent"]
  /\ UNCHANGED <<bc, dir, writer, written, pending, crashes>>

(***************************************************************************)
(* mutt_bcache_exists(): 0 for a regular file that is not empty.  A       *)
(* partial file may be empty (just truncated) or not.                      *)
(***************************************************************************)
BCacheExists(id) ==
  /\ bc = "open"
  /\ \E nonempty \in BOOLEAN :
       res' = [op |-> "exists",
               val |-> \/ files[Name(id, FALSE)] = "full"
                       \/ files[Name(id, FALSE)] = "partial" /\ nonempty]
  /\ UNCHANGED <<bc, dir, files, writer, written, pending, crashes>>

(***************************************************************************)
(* mutt_bcache_list() with no want_id callback: -1 if the directory      *)
(* cannot be opened, else the number of entries not starting with ".",    *)
(* "<id>.tmp" files included.                                              *)
(***************************************************************************)
\* mutant: "." and ".." counted
BCacheListDots ==
  /\ bc = "open"
  /\ res' = [op |-> "list",
              val |-> IF dir # "dir" THEN -1
                      ELSE 2 + Cardinality({n \in Names : files[n] # "absent"})]
  /\ UNCHANGED <<bc, dir, files, writer, written, pending, crashes>>

BCacheList ==
  /\ bc = "open"
  /\ res' = [op |-> "list",
              val |-> IF dir # "dir" THEN -1
                      ELSE Cardinality({n \in Names : files[n] # "absent"})]
  /\ UNCHANGED <<bc, dir, files, writer, written, pending, crashes>>

(***************************************************************************)
(* The process dies: the cache handle and the caller's stream are gone,   *)
(* and a file being written is left partial.                               *)
(***************************************************************************)
Crash ==
  /\ crashes < MaxCrashes
  /\ crashes' = crashes + 1
  /\ bc' = "closed"
  /\ files' = IF writer = NoWriter THEN files ELSE [files EXCEPT ![writer] = "partial"]
  /\ writer' = NoWriter
  /\ written' = FALSE
  /\ pending' = "none"
  /\ res' = [op |-> "none", val |-> 0]
  /\ UNCHANGED dir

BCacheNext ==
  \/ \E ok \in BOOLEAN : BCacheOpen(ok)
  \/ BCacheClose
  \/ \E id \in Ids : BCacheGet(id)
  \/ \E id \in Ids, tmp \in PutTmp : BCachePut(id, tmp)
  \/ ClientWrite
  \/ ClientClose
  \/ \E id \in Ids : BCacheCommit(id)
  \/ \E id \in Ids : BCacheDel(id)
  \/ \E id \in Ids : BCacheExists(id)
  \/ BCacheList
  \/ Crash

BCacheSpec == BCacheInit /\ [][BCacheNext]_bcVars

-----------------------------------------------------------------------------

BCacheTypeOK ==
  /\ bc \in {"closed", "open"}
  /\ dir \in {"absent", "dir", "file"}
  /\ files \in [Names -> {"absent", "partial", "full"}]
  /\ writer \in Names \cup {NoWriter}
  /\ pending \in Ids \cup {"none"}
  /\ res \in [op : {"none"}, val : {0}]
           \cup [op : {"get"}, val : {"absent", "partial", "full"}]
           \cup [op : {"put", "commit", "del", "exists"}, val : BOOLEAN]
           \cup [op : {"list"}, val : -1..Cardinality(Names)]
  /\ crashes \in 0..MaxCrashes

(***************************************************************************)
(* A stream mutt_bcache_get() returns always holds a whole body: a crash  *)
(* while a body is being cached, before or after the caller wrote it,     *)
(* leaves at most a partial "<id>.tmp", which get never opens, and a      *)
(* later put of the same id truncates it.                                 *)
(***************************************************************************)
GetNeverPartial == res.op = "get" => res.val # "partial"

====
