---------------------------- MODULE NeoMuttCore ----------------------------
(***************************************************************************)
(* The NeoMutt core object (core/neomutt.c): its life cycle, the tree of  *)
(* Notify objects that carries events up to NeoMutt->notify, the list of  *)
(* Accounts, the Mailbox list built from them, and the umask discipline   *)
(* of mutt_file_fopen_masked_full().                                       *)
(*                                                                         *)
(* A Notify object is a number 1..MaxNotify, in the order notify_new()    *)
(* allocates it; an Account stands for the Account's own Notify (created  *)
(* by account_new(), outside this file).  parent[x] is the object that    *)
(* notify_set_parent() gave x.  The Modules are a table of which          *)
(* callbacks each one has; the callbacks live outside this file, and the  *)
(* result of each call is a free choice.  cs_subset_new() gives the      *)
(* config subset a Notify whose parent is its notify argument, and        *)
(* cs_subset_free() and account_free() free that Notify                  *)
(* (config/subset.c, core/account.c).                                      *)
(***************************************************************************)
EXTENDS Naturals, Sequences, SequencesExt, Bitwise

CONSTANTS
  Accounts,     \* the Accounts a caller may add
  AccountType,  \* AccountType[a]: the MailboxType of Account a
  Boxes,        \* Boxes[a]: the Mailboxes of Account a, in list order
  Types,        \* Mailbox types a caller may ask for; MUTT_MAILBOX_ANY = 0
  Umasks,       \* the umasks the process may start with
  ModuleTable,  \* the modules[] argument: ModuleTable[i] is the set of
                \* callbacks Module i has
  MaxNotify,    \* the Notify objects the model may allocate
  NULL

VARIABLES
  phase,          \* "absent", "created", "ready", "failed", "freed"
  notify,         \* n->notify
  notify_timeout, \* n->notify_timeout
  notify_resize,  \* n->notify_resize
  sub,            \* the Notify of n->sub, the NeoMutt config subset
  parent,         \* parent[x]: the parent of Notify x, or NULL
  live,           \* the Notify objects allocated and not yet freed
  next,           \* how many Notify objects notify_new() has allocated
  accounts,       \* n->accounts, a TAILQ of Accounts
  mblist,         \* the caller's MailboxList, filled by get_all
  umask,          \* the process umask
  user_umask,     \* n->user_default_umask
  created,        \* the modes of the files fopen_masked created
  ret,            \* the value the last call returned
  modules,        \* n->modules: NULL or ModuleTable
  init_calls      \* the Module callbacks neomutt_init() ran, with their results

coreVars == <<phase, notify, notify_timeout, notify_resize, sub, parent,
              live, next, accounts, mblist, umask, user_umask, created, ret,
              modules, init_calls>>

moduleVars == <<modules, init_calls>>

Notifies == 1..MaxNotify

\* the Module callbacks neomutt_init() runs, in the order of its stages
Callbacks == {"init", "config_define_types", "config_define_variables",
              "commands_register"}

\* the Modules of the table that have callback cb
Present(cb) == {i \in 1..Len(ModuleTable) : cb \in ModuleTable[i]}

\* a result for every call of every callback the table has
Results == [UNION {{<<i, cb>> : i \in Present(cb)} : cb \in Callbacks} -> BOOLEAN]
Nodes == Notifies \cup Accounts

ASSUME MaxNotify >= 7

\* the mode mutt_file_fopen_full() gives a new file: 0666 under the umask
Perm(u) == 438 - (438 & u)

\* octal 077, the umask neomutt_init() sets
Umask077 == 63

Init ==
  /\ phase = "absent"
  /\ notify = NULL /\ notify_timeout = NULL /\ notify_resize = NULL
  /\ sub = NULL
  /\ parent = [x \in Nodes |-> NULL]
  /\ live = Accounts
  /\ next = 0
  /\ accounts = <<>>
  /\ mblist = <<>>
  /\ umask \in Umasks
  /\ user_umask = 0
  /\ created = {}
  /\ ret = NULL
  /\ modules = NULL
  /\ init_calls = {}

(***************************************************************************)
(* neomutt_new(): three Notify objects, timeout and resize children of    *)
(* notify.                                                                 *)
(***************************************************************************)
NeoMuttNew ==
  /\ phase = "absent"
  /\ phase' = "created"
  /\ notify' = next + 1 /\ notify_timeout' = next + 2 /\ notify_resize' = next + 3
  /\ parent' = [parent EXCEPT ![next + 2] = next + 1, ![next + 3] = next + 1]
  /\ live' = live \cup {next + 1, next + 2, next + 3}
  /\ next' = next + 3
  /\ accounts' = <<>>
  /\ UNCHANGED <<sub, mblist, umask, user_umask, created, ret, moduleVars>>

(***************************************************************************)
(* init_config(): cs_subset_new(NULL, NULL, n->notify) gives the config   *)
(* subset a Notify under the current n->notify, whatever the Modules'      *)
(* config callbacks then return.                                           *)
(***************************************************************************)
InitConfig ==
  /\ sub' = next + 1
  /\ parent' = [parent EXCEPT ![next + 1] = notify]
  /\ live' = live \cup {next + 1}

(***************************************************************************)
(* neomutt_init(): locale, Modules, config and commands; a stage that     *)
(* fails returns false at once.  On success the accounts list and three   *)
(* new Notify objects replace those of neomutt_new(), and the umask is     *)
(* saved and set to 077.                                                   *)
(***************************************************************************)
\* mutant: the new timeout and resize Notify objects parented to the old one
NeoMuttInitParentFirst(modules_ok, config_ok, commands_ok) ==
  /\ phase = "created"
  /\ modules_ok /\ config_ok /\ commands_ok
  /\ phase' = "ready"
  /\ sub' = next + 1
  /\ parent' = [parent EXCEPT ![next + 1] = notify,
                              ![next + 3] = notify, ![next + 4] = notify]
  /\ live' = live \cup {next + 1, next + 2, next + 3, next + 4}
  /\ next' = next + 4
  /\ notify' = next + 2 /\ notify_timeout' = next + 3 /\ notify_resize' = next + 4
  /\ accounts' = <<>> /\ umask' = Umask077 /\ user_umask' = umask /\ ret' = TRUE
  /\ UNCHANGED <<mblist, created>>

NeoMuttInit(modules_ok, config_ok, commands_ok) ==
  /\ phase = "created"
  /\ \/ /\ ~modules_ok
        /\ phase' = "failed"
        /\ UNCHANGED <<sub, parent, live, next>>
     \/ /\ modules_ok /\ ~(config_ok /\ commands_ok)
        /\ phase' = "failed"
        /\ InitConfig
        /\ next' = next + 1
     \/ /\ modules_ok /\ config_ok /\ commands_ok
        /\ phase' = "ready"
        /\ sub' = next + 1
        /\ parent' = [parent EXCEPT ![next + 1] = notify,
                                    ![next + 3] = next + 2, ![next + 4] = next + 2]
        /\ live' = live \cup {next + 1, next + 2, next + 3, next + 4}
        /\ next' = next + 4
  /\ notify' = IF phase' = "ready" THEN next + 2 ELSE notify
  /\ notify_timeout' = IF phase' = "ready" THEN next + 3 ELSE notify_timeout
  /\ notify_resize' = IF phase' = "ready" THEN next + 4 ELSE notify_resize
  /\ accounts' = IF phase' = "ready" THEN <<>> ELSE accounts
  /\ umask' = IF phase' = "ready" THEN Umask077 ELSE umask
  /\ user_umask' = IF phase' = "ready" THEN umask ELSE user_umask
  /\ ret' = (phase' = "ready")
  /\ UNCHANGED <<mblist, created>>

(***************************************************************************)
(* The loops of init_modules(), init_config() and init_commands(): for    *)
(* each Module in table order that has the callback, rc &= its result.    *)
(* Every such Module is called, whatever an earlier one returned.         *)
(***************************************************************************)
\* mutant: rc = instead of rc &=, so only the last Module's result counts
StageRcLast(cb, res) ==
  Present(cb) = {} \/ res[<<Max(Present(cb)), cb>>]

StageRc(cb, res) == \A i \in Present(cb) : res[<<i, cb>>]

CallsOf(cb, res) == {[mod |-> i, cb |-> cb, ok |-> res[<<i, cb>>]] : i \in Present(cb)}

(***************************************************************************)
(* The stages of neomutt_init(modules): init_locale() always succeeds;    *)
(* init_modules() returns true at once for a NULL table, else stores it   *)
(* in n->modules and runs every init(); init_config() returns true at     *)
(* once without n->modules, else runs every config_define_types(),        *)
(* returns false if one failed, and runs every config_define_variables(); *)
(* init_commands() runs every commands_register().  A failed stage ends   *)
(* neomutt_init(), so the later stages' callbacks are not run.            *)
(***************************************************************************)
InitModules(arg, res) == arg = NULL \/ StageRc("init", res)

InitConfigRc(arg, res) ==
  arg = NULL \/ (StageRc("config_define_types", res) /\ StageRc("config_define_variables", res))

InitCommands(arg, res) == arg = NULL \/ StageRc("commands_register", res)

InitCallsRun(arg, res) ==
  IF arg = NULL THEN {}
  ELSE CallsOf("init", res)
       \cup (IF ~InitModules(arg, res) THEN {}
             ELSE CallsOf("config_define_types", res))
       \cup (IF ~InitModules(arg, res) \/ ~StageRc("config_define_types", res) THEN {}
             ELSE CallsOf("config_define_variables", res))
       \cup (IF ~InitModules(arg, res) \/ ~InitConfigRc(arg, res) THEN {}
             ELSE CallsOf("commands_register", res))

NeoMuttInitModules(arg, res) ==
  /\ NeoMuttInit(InitModules(arg, res), InitConfigRc(arg, res), InitCommands(arg, res))
  /\ modules' = arg
  /\ init_calls' = InitCallsRun(arg, res)

(***************************************************************************)
(* neomutt_gui_init(): false without n->modules; otherwise it runs every  *)
(* Module's gui_init() and ANDs the results into rc, but returns true.    *)
(* gui_cleanup() and cleanup() only run Module callbacks.                  *)
(***************************************************************************)
NeoMuttGuiInit ==
  /\ phase = "ready"
  /\ ret' = (modules # NULL)
  /\ UNCHANGED <<phase, notify, notify_timeout, notify_resize, sub, parent,
                 live, next, accounts, mblist, umask, user_umask, created, moduleVars>>

NeoMuttGuiCleanup ==
  /\ phase = "ready"
  /\ ret' = NULL
  /\ UNCHANGED <<phase, notify, notify_timeout, notify_resize, sub, parent,
                 live, next, accounts, mblist, umask, user_umask, created, moduleVars>>

NeoMuttCleanup ==
  /\ phase = "ready"
  /\ ret' = NULL
  /\ UNCHANGED <<phase, notify, notify_timeout, notify_resize, sub, parent,
                 live, next, accounts, mblist, umask, user_umask, created, moduleVars>>

(***************************************************************************)
(* neomutt_account_add(): append a to n->accounts and make its Notify a   *)
(* child of n->notify.  Nothing stops a caller adding an Account twice,   *)
(* which corrupts the TAILQ; the callers (mx.c) add each Account once.   *)
(***************************************************************************)
AccountAdd(a) ==
  /\ phase = "ready"
  /\ a \in live /\ ~Contains(accounts, a)
  /\ accounts' = Append(accounts, a)
  /\ parent' = [parent EXCEPT ![a] = notify]
  /\ ret' = TRUE
  /\ UNCHANGED <<phase, notify, notify_timeout, notify_resize, sub, live, next,
                 mblist, umask, user_umask, created, moduleVars>>

(***************************************************************************)
(* neomutt_account_remove(): false on an empty list.  With a = NULL every *)
(* Account is unlinked and freed; otherwise the first entry equal to a,   *)
(* and the result says whether one was found.                              *)
(***************************************************************************)
RemoveAccounts(a) ==
  IF a = NULL THEN ToSet(accounts) ELSE ToSet(accounts) \cap {a}

AccountRemoveSteps(a) ==
  /\ accounts' = SelectSeq(accounts, LAMBDA x : x \notin RemoveAccounts(a))
  /\ live' = live \ RemoveAccounts(a)

AccountRemove(a) ==
  /\ phase = "ready"
  /\ \/ /\ accounts = <<>>
        /\ ret' = FALSE
        /\ UNCHANGED <<accounts, live>>
     \/ /\ accounts # <<>>
        /\ AccountRemoveSteps(a)
        /\ ret' = (RemoveAccounts(a) # {})
  /\ UNCHANGED <<phase, notify, notify_timeout, notify_resize, sub, parent, next,
                 mblist, umask, user_umask, created, moduleVars>>

(***************************************************************************)
(* neomutt_mailboxlist_get_all(): append a node for every Mailbox of      *)
(* every Account of the given type (any type for 0), in list order, and   *)
(* return how many were added.  neomutt_mailboxlist_clear() frees the     *)
(* nodes, not the Mailboxes.                                               *)
(***************************************************************************)
Matching(type) ==
  SelectSeq(accounts, LAMBDA a : type = 0 \/ AccountType[a] = type)

\* mutant: the list nodes point at the Accounts, not at their Mailboxes
MailboxListGetAllAccounts(type) ==
  /\ phase = "ready"
  /\ mblist' = mblist \o Matching(type)
  /\ ret' = Len(Matching(type))
  /\ UNCHANGED <<phase, notify, notify_timeout, notify_resize, sub, parent,
                 live, next, accounts, umask, user_umask, created, moduleVars>>

MailboxListGetAll(type) ==
  LET found == FlattenSeq([i \in 1..Len(Matching(type)) |-> Boxes[Matching(type)[i]]])
  IN /\ phase = "ready"
     /\ mblist' = mblist \o found
     /\ ret' = Len(found)
     /\ UNCHANGED <<phase, notify, notify_timeout, notify_resize, sub, parent,
                    live, next, accounts, umask, user_umask, created, moduleVars>>

MailboxListClear ==
  /\ mblist' = <<>>
  /\ ret' = NULL
  /\ UNCHANGED <<phase, notify, notify_timeout, notify_resize, sub, parent,
                 live, next, accounts, umask, user_umask, created, moduleVars>>

(***************************************************************************)
(* mutt_file_fopen_masked_full(): set the user's umask, create the file   *)
(* with mode 0666 under it, and put the old umask back.                   *)
(***************************************************************************)
FopenMasked ==
  /\ phase = "ready"
  /\ created' = created \cup {Perm(user_umask)}
  /\ umask' = umask
  /\ ret' = NULL
  /\ UNCHANGED <<phase, notify, notify_timeout, notify_resize, sub, parent,
                 live, next, accounts, mblist, user_umask, moduleVars>>

(***************************************************************************)
(* neomutt_free(): remove (and free) every Account, free the config       *)
(* subset and its Notify, then the resize, timeout and main Notify, in    *)
(* that order.  The Notify objects neomutt_init() replaced stay live.     *)
(***************************************************************************)
\* mutant: the Notify objects are freed without removing the Accounts
NeoMuttFreeKeepAccounts ==
  /\ phase \in {"created", "ready", "failed"}
  /\ phase' = "freed"
  /\ live' = live \ {sub, notify_resize, notify_timeout, notify}
  /\ sub' = NULL /\ notify_resize' = NULL /\ notify_timeout' = NULL /\ notify' = NULL
  /\ ret' = NULL
  /\ UNCHANGED <<accounts, parent, next, mblist, umask, user_umask, created, moduleVars>>

NeoMuttFree ==
  /\ phase \in {"created", "ready", "failed"}
  /\ phase' = "freed"
  /\ accounts' = <<>>
  /\ live' = live \ (ToSet(accounts) \cup {sub, notify_resize, notify_timeout, notify})
  /\ sub' = NULL /\ notify_resize' = NULL /\ notify_timeout' = NULL /\ notify' = NULL
  /\ ret' = NULL
  /\ UNCHANGED <<parent, next, mblist, umask, user_umask, created, moduleVars>>

Next ==
  \/ NeoMuttNew
  \/ \E arg \in {NULL, ModuleTable}, res \in Results : NeoMuttInitModules(arg, res)
  \/ NeoMuttGuiInit
  \/ NeoMuttGuiCleanup
  \/ NeoMuttCleanup
  \/ \E a \in Accounts : AccountAdd(a)
  \/ \E a \in Accounts \cup {NULL} : AccountRemove(a)
  \/ \E t \in Types : MailboxListGetAll(t)
  \/ MailboxListClear
  \/ FopenMasked
  \/ NeoMuttFree

Spec == Init /\ [][Next]_coreVars

-----------------------------------------------------------------------------
(***************************************************************************)
(* Properties                                                              *)
(***************************************************************************)

NeoMuttTypeOK ==
  /\ phase \in {"absent", "created", "ready", "failed", "freed"}
  /\ {notify, notify_timeout, notify_resize, sub} \subseteq Notifies \cup {NULL}
  /\ parent \in [Nodes -> Notifies \cup {NULL}]
  /\ live \subseteq Nodes /\ next \in 0..MaxNotify
  /\ accounts \in Seq(Accounts) /\ mblist \in Seq(UNION {ToSet(Boxes[a]) : a \in Accounts})
  /\ umask \in Umasks \cup {Umask077} /\ created \subseteq 0..438
  /\ modules \in {NULL, ModuleTable}
  /\ init_calls \subseteq [mod : 1..Len(ModuleTable), cb : Callbacks, ok : BOOLEAN]

\* the Notify an event sent to x ends at: the end of x's parent chain
RECURSIVE Root(_)
Root(x) == IF parent[x] = NULL THEN x ELSE Root(parent[x])

(***************************************************************************)
(* Every live Notify's parent is live: notify_send() walks from a child   *)
(* to its parent, so a freed parent under a live child is a use after     *)
(* free.  neomutt_free() must unlink and free the Accounts, and free the  *)
(* subset and the timeout and resize Notify objects, before n->notify.    *)
(***************************************************************************)
NoDanglingParent ==
  \A x \in live : parent[x] = NULL \/ parent[x] \in live

(***************************************************************************)
(* While NeoMutt is in use, the events of every listed Account and of the *)
(* timeout and resize Notify objects reach n->notify, where the GUI and   *)
(* the other observers listen: neomutt_init() and neomutt_account_add()   *)
(* parent them to the n->notify that is current afterwards.               *)
(***************************************************************************)
EventsReachNeoMutt ==
  phase \in {"created", "ready"} =>
    \A x \in {notify_timeout, notify_resize} \cup ToSet(accounts) : Root(x) = notify

(***************************************************************************)
(* Once neomutt_init() has succeeded, config events reach n->notify too:   *)
(* the config subset's Notify hangs below the current n->notify.           *)
(***************************************************************************)
ConfigEventsReachNeoMutt ==
  phase = "ready" => Root(sub) = notify

(***************************************************************************)
(* neomutt_init() reports its Modules honestly: it succeeds exactly when   *)
(* every Module callback it ran succeeded, and then it has run every       *)
(* init, config and commands callback of every Module.  The rc &= of each  *)
(* loop must keep an earlier Module's failure, and the early return        *)
(* between config types and variables must not hide one.                   *)
(***************************************************************************)
InitReportsModules ==
  phase \in {"ready", "failed"} =>
    /\ (phase = "ready") <=> (\A c \in init_calls : c.ok)
    /\ phase = "ready" /\ modules # NULL =>
         \A cb \in Callbacks : \A i \in Present(cb) :
           \E c \in init_calls : c.mod = i /\ c.cb = cb

====
