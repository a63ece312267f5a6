----------------------------- MODULE CodexAccounts -----------------------------
(****************************************************************************)
(* The managed Codex accounts of app/codex_accounts.rs. Each command is a   *)
(* process of its own: it loads the configuration, works, and writes a      *)
(* whole configuration back under the file's lock, which covers the write   *)
(* but not the load. The accounts' CODEX_HOME directories are changed       *)
(* beside the configuration, so a failure between the two has to be undone. *)
(****************************************************************************)
EXTENDS Naturals, FiniteSets

CONSTANTS
    Procs,       \* command processes
    Ids,         \* account identifiers allocate_account_id can draw
    People,      \* identities: an email together with its workspace
    Faults,      \* what may fail: subset of FaultKinds
    MaxCommands  \* bound on commands run

FaultKinds == {"login", "prepare", "rename", "sync", "archive", "crash"}
Ambient == "ambient"
None == "none"
NoHome == [who |-> "absent", token |-> 0]   \* no home
NoAuth == [who |-> None, token |-> 0]       \* a home without auth.json
AccountsAssumption ==
    /\ Faults \subseteq FaultKinds /\ MaxCommands \in Nat /\ None \notin Procs
    /\ {NoHome.who, NoAuth.who} \cap People = {}
Auths == [who : People, token : 1..MaxCommands] \cup {NoHome, NoAuth}
Configs == [listed : SUBSET Ids, active : Ids \cup {Ambient}]
EmptyConfig == [listed |-> {}, active |-> Ambient]

VARIABLES
    config,    \* the Codex route in the configuration file
    holder,    \* the process holding the configuration's write lock
    home,      \* home[i]: what i's CODEX_HOME holds
    pc,        \* where each command is
    draft,     \* draft[p]: the configuration p loaded and is changing
    pending,   \* pending[p]: the id of p's fresh login
    account,   \* account[p]: the id p's command is about
    stale,     \* stale[p]: other accounts of the same person, to archive
    oldAuth,   \* oldAuth[p]: the login p replaced
    before,    \* before[p]: the files when p's login began
    commands,
    renamed,   \* auxiliary: which files p's login has replaced, visibly to others
    unsynced   \* auxiliary: ids listed by a commit whose directory sync failed

locals == <<draft, pending, account, stale, oldAuth, before>>
aux == <<renamed, unsynced>>
vars == <<config, holder, home, pc, draft, pending, account, stale, oldAuth,
          before, commands, renamed, unsynced>>

Exists(i) == home[i] # NoHome
Files == [config |-> config, home |-> home]

Init ==
    /\ config = EmptyConfig /\ holder = None
    /\ home = [i \in Ids |-> NoHome]
    /\ pc = [p \in Procs |-> "idle"]
    /\ draft = [p \in Procs |-> EmptyConfig]
    /\ pending = [p \in Procs |-> None] /\ account = [p \in Procs |-> None]
    /\ stale = [p \in Procs |-> {}] /\ oldAuth = [p \in Procs |-> NoAuth]
    /\ before = [p \in Procs |-> Files]
    /\ commands = 0
    /\ renamed = [p \in Procs |-> {}] /\ unsynced = {}

Goto(p, step) == pc' = [pc EXCEPT ![p] = step]
Begin(p) == pc[p] \in {"idle", "failed"} /\ commands < MaxCommands /\ commands' = commands + 1
Fault(kind) == kind \in Faults

(* login: a fresh id whose home does not exist, and an empty home for it.   *)
Login(p) ==
    /\ Begin(p)
    /\ \E i \in Ids :
         /\ ~Exists(i)
         /\ home' = [home EXCEPT ![i] = NoAuth]
         /\ pending' = [pending EXCEPT ![p] = i]
    /\ before' = [before EXCEPT ![p] = Files]
    /\ renamed' = [renamed EXCEPT ![p] = {}]
    /\ Goto(p, "login")
    /\ UNCHANGED <<config, holder, draft, account, stale, oldAuth, unsynced>>

(* login_in_home: `codex login` writes auth.json, or it fails or leaves no  *)
(* identity, and the login is given up.                                     *)
LoginInHome(p) ==
    /\ pc[p] = "login"
    /\ \/ \E who \in People :
            /\ home' = [home EXCEPT ![pending[p]] = [who |-> who, token |-> commands]]
            /\ Goto(p, "merge")
       \/ Fault("login") /\ UNCHANGED home /\ Goto(p, "discard")
    /\ UNCHANGED <<config, holder, locals, commands, aux>>

(* duplicate_accounts, same_identity: listed accounts of the same person.   *)
Duplicates(who) == {i \in config.listed : home[i].who = who}

Merge(p, kept, dup) ==
    /\ account' = [account EXCEPT ![p] = kept]
    /\ stale' = [stale EXCEPT ![p] = dup \ {kept}]
    /\ draft' = [draft EXCEPT ![p] =
         [listed |-> (config.listed \ dup) \cup {kept}, active |-> kept]]

\* Mutant: a reauthentication is stored under its new id.
FinishLoginFresh(p) ==
    /\ pc[p] = "merge"
    /\ Merge(p, pending[p], Duplicates(home[pending[p]].who))
    /\ Goto(p, "prepare")
    /\ UNCHANGED <<config, home, holder, pending, oldAuth, before, commands, aux>>

(* finish_login, up to the new configuration: the first duplicate keeps its *)
(* id and home, the others leave the list, and it becomes active.           *)
FinishLogin(p) ==
    /\ pc[p] = "merge"
    /\ LET dup == Duplicates(home[pending[p]].who)
       IN  \E kept \in IF dup = {} THEN {pending[p]} ELSE dup : Merge(p, kept, dup)
    /\ Goto(p, "prepare")
    /\ UNCHANGED <<config, home, holder, pending, oldAuth, before, commands, aux>>

(* stage_write and prepare: the lock is taken and the write made ready      *)
(* before an existing login is touched.                                     *)
PrepareWrite(p) ==
    /\ pc[p] = "prepare"
    /\ \/ holder = None /\ holder' = p /\ Goto(p, "replace")
       \/ Fault("prepare") /\ UNCHANGED holder /\ Goto(p, "discard")
    /\ UNCHANGED <<config, home, locals, commands, aux>>

Record(p, file) == renamed' = [renamed EXCEPT ![p] = @ \cup {file}]

(* A reauthenticated account's auth.json is read and replaced by the fresh  *)
(* one. One that cannot be read, or a write that fails before or after its  *)
(* rename, gives the login up; what was renamed is not undone.              *)
ReplaceAuth(p) ==
    /\ pc[p] = "replace"
    /\ LET a == account[p]
       IN  \/ /\ a = pending[p] /\ Goto(p, "commit")
              /\ UNCHANGED <<home, oldAuth, holder, renamed>>
           \/ /\ a # pending[p] /\ home[a] \notin {NoHome, NoAuth}
              /\ oldAuth' = [oldAuth EXCEPT ![p] = home[a]]
              /\ home' = [home EXCEPT ![a] = home[pending[p]]] /\ Record(p, "auth")
              /\ \/ Goto(p, "commit") /\ UNCHANGED holder
                 \/ Fault("sync") /\ holder' = None /\ Goto(p, "discard")
           \/ /\ a # pending[p] /\ (home[a] \in {NoHome, NoAuth} \/ Fault("rename"))
              /\ holder' = None /\ Goto(p, "discard")
              /\ UNCHANGED <<home, oldAuth, renamed>>
    /\ UNCHANGED <<config, draft, pending, account, stale, before, commands, unsynced>>

\* Mutant: an error keeps the lock.
CommitHolding(p) ==
    /\ pc[p] = "commit" /\ UNCHANGED <<home, locals, commands, unsynced>>
    /\ \/ config' = draft[p] /\ holder' = None /\ Record(p, "config") /\ Goto(p, "archive")
       \/ Fault("rename") /\ Goto(p, "rollback") /\ UNCHANGED <<config, holder, renamed>>

(* commit: renamed and synced, or an error before the rename, or one after  *)
(* it. Either way the lock is released.                                     *)
CommitLogin(p) ==
    /\ pc[p] = "commit" /\ holder' = None /\ UNCHANGED <<home, locals, commands>>
    /\ \/ /\ config' = draft[p] /\ Record(p, "config") /\ UNCHANGED unsynced
          /\ Goto(p, "archive")
       \/ Fault("rename") /\ UNCHANGED <<config, aux>> /\ Goto(p, "rollback")
       \/ /\ Fault("sync") /\ config' = draft[p] /\ Record(p, "config")
          /\ unsynced' = unsynced \cup {account[p]} /\ Goto(p, "rollback")

(* After an error of the commit the old login is written back, which may    *)
(* fail in turn.                                                            *)
RollBack(p) ==
    /\ pc[p] = "rollback" /\ Goto(p, "discard")
    /\ \/ /\ account[p] = pending[p] \/ ~Exists(account[p]) \/ Fault("rename")
          /\ UNCHANGED <<home, renamed>>
       \/ /\ account[p] # pending[p] /\ Exists(account[p])
          /\ home' = [home EXCEPT ![account[p]] = oldAuth[p]]
          /\ renamed' = [renamed EXCEPT ![p] = @ \ {"auth"}]
    /\ UNCHANGED <<config, holder, locals, commands, unsynced>>

(* archive_managed_home for each other duplicate; a home already gone is    *)
(* nothing to do, and the first that cannot be moved fails the login.       *)
ArchiveDuplicates(p) ==
    /\ pc[p] = "archive"
    /\ \E gone \in SUBSET stale[p] :
         /\ home' = [i \in Ids |-> IF i \in gone THEN NoHome ELSE home[i]]
         /\ \/ /\ gone = stale[p]
               /\ Goto(p, IF account[p] = pending[p] THEN "idle" ELSE "tidy")
            \/ gone # stale[p] /\ Fault("archive") /\ Goto(p, "discard")
    /\ UNCHANGED <<config, holder, locals, commands, aux>>

(* remove_failed_home: after an error, and after a login that was saved     *)
(* under another id. Whether it succeeds is ignored.                        *)
Discard(p) ==
    /\ pc[p] \in {"discard", "tidy"}
    /\ \/ home' = [home EXCEPT ![pending[p]] = NoHome]
       \/ Fault("archive") /\ UNCHANGED home
    /\ Goto(p, IF pc[p] = "discard" THEN "failed" ELSE "idle")
    /\ UNCHANGED <<config, holder, locals, commands, aux>>

(* activate: an enabled listed account or ambient; anything else is refused.*)
Activate(p) ==
    /\ Begin(p)
    /\ \E a \in config.listed \cup {Ambient} :
         draft' = [draft EXCEPT ![p] = [listed |-> config.listed, active |-> a]]
    /\ Goto(p, "write")
    /\ UNCHANGED <<config, home, holder, pending, account, stale, oldAuth, before, aux>>

(* remove: the account leaves the list; the active one gives way to ambient.*)
Remove(p) ==
    /\ Begin(p)
    /\ \E a \in config.listed :
         /\ account' = [account EXCEPT ![p] = a]
         /\ draft' = [draft EXCEPT ![p] =
              [listed |-> config.listed \ {a},
               active |-> IF config.active = a THEN Ambient ELSE config.active]]
    /\ Goto(p, "writeRemoval")
    /\ UNCHANGED <<config, home, holder, pending, stale, oldAuth, before, aux>>

(* write_config: one atomic write under the lock; an error may come after   *)
(* the rename.                                                              *)
WriteConfig(p) ==
    /\ pc[p] \in {"write", "writeRemoval"} /\ holder = None
    /\ \/ config' = draft[p] /\ Goto(p, IF pc[p] = "write" THEN "idle" ELSE "remove")
       \/ Fault("rename") /\ UNCHANGED config /\ Goto(p, "failed")
       \/ Fault("sync") /\ config' = draft[p] /\ Goto(p, "failed")
    /\ UNCHANGED <<home, holder, locals, commands, aux>>

(* archive_managed_home: the removed account's home, after the write.       *)
ArchiveRemoved(p) ==
    /\ pc[p] = "remove"
    /\ \/ home' = [home EXCEPT ![account[p]] = NoHome]
       \/ Fault("archive") /\ UNCHANGED home
    /\ Goto(p, "idle")
    /\ UNCHANGED <<config, holder, locals, commands, aux>>

(* The command is killed; the kernel releases the lock.                     *)
Crash(p) ==
    /\ Fault("crash") /\ pc[p] \notin {"idle", "failed"}
    /\ Goto(p, "idle")
    /\ holder' = IF holder = p THEN None ELSE holder
    /\ UNCHANGED <<config, home, locals, commands, aux>>

Next ==
    \E p \in Procs :
        \/ Login(p) \/ LoginInHome(p) \/ FinishLogin(p) \/ PrepareWrite(p)
        \/ ReplaceAuth(p) \/ CommitLogin(p) \/ RollBack(p) \/ ArchiveDuplicates(p) \/ Discard(p)
        \/ Activate(p) \/ Remove(p) \/ WriteConfig(p) \/ ArchiveRemoved(p)
        \/ Crash(p)

Spec == Init /\ [][Next]_vars

Steps ==
    {"idle", "failed", "login", "merge", "prepare", "replace", "commit", "rollback",
     "archive", "discard", "tidy", "write", "writeRemoval", "remove"}
LoginSteps == Steps \ {"idle", "failed", "write", "writeRemoval", "remove"}
MergedSteps == LoginSteps \ {"login", "merge", "discard"}

(* Every variable keeps its shape, and the lock is held exactly while a     *)
(* login replaces an auth.json and commits.                                 *)
TypeOK ==
    /\ config \in Configs /\ home \in [Ids -> Auths] /\ holder \in Procs \cup {None}
    /\ pc \in [Procs -> Steps] /\ draft \in [Procs -> Configs]
    /\ pending \in [Procs -> Ids \cup {None}] /\ account \in [Procs -> Ids \cup {None}]
    /\ stale \in [Procs -> SUBSET Ids] /\ oldAuth \in [Procs -> Auths]
    /\ before \in [Procs -> [config : Configs, home : [Ids -> Auths]]]
    /\ commands \in 0 .. MaxCommands
    /\ renamed \in [Procs -> SUBSET {"auth", "config"}] /\ unsynced \subseteq Ids
    /\ \A p \in Procs : pc[p] \in {"replace", "commit"} <=> holder = p
(* A command knows the accounts it is about.                                *)
Named(p) ==
    /\ pc[p] \in LoginSteps => pending[p] \in Ids /\ commands # 0
    /\ pc[p] \in MergedSteps \cup {"writeRemoval", "remove"} => account[p] \in Ids
AccountsTyped == TypeOK /\ \A p \in Procs : Named(p)

(* The active account is ambient or a listed one, whichever commands write  *)
(* over each other (activate, remove, finish_login).                        *)
ActiveIsListed == config.active \in config.listed \cup {Ambient}

(* Every managed account the configuration lists has its CODEX_HOME after   *)
(* any failure, crash or removal but one: a login that lists a new account  *)
(* and whose directory sync fails after the rename is given up, and its     *)
(* home removed, although the configuration that lists it is in place.      *)
ListedHasHome == \A i \in config.listed \ unsynced : Exists(i)

(* What a login has changed since it began, at each of its steps: only the  *)
(* files whose rename others can see. Beside its own home these are the     *)
(* configuration, the login of the account that it renews, which remains    *)
(* the same person's, and the homes of the duplicates it unlisted.          *)
ChangedOnly(p) ==
    /\ config = IF "config" \in renamed[p] THEN draft[p] ELSE before[p].config
    /\ before[p].home[pending[p]] = NoHome
    /\ \A i \in Ids \ {pending[p]} :
         \/ home[i] = before[p].home[i]
         \/ /\ i = account[p] /\ "auth" \in renamed[p]
            /\ home[i].who = before[p].home[i].who
         \/ i \in stale[p] /\ "config" \in renamed[p] /\ home[i] = NoHome

(* What a command has in hand while no other runs, and every step of it     *)
(* keeps: a login's fresh home is listed nowhere, unless its id is one that *)
(* lost its home; from finish_login to commit the draft is the list with    *)
(* the duplicates merged into one, and the login that is replaced can be    *)
(* put back; what is archived after a write is no longer listed.            *)
Fresh(p) == pending[p] \in config.listed => pending[p] \in unsynced
LoginInHand(p) ==
    /\ Exists(pending[p])
    /\ pc[p] \in {"login", "merge", "prepare", "replace"} => renamed[p] = {}
MergeInHand(p) ==
    LET dup == Duplicates(home[pending[p]].who) IN
    /\ home[pending[p]].who \in People
    /\ account[p] \in IF dup = {} THEN {pending[p]} ELSE dup
    /\ stale[p] = dup \ {account[p]}
    /\ draft[p] = [listed |-> (config.listed \ dup) \cup {account[p]}, active |-> account[p]]
    /\ pc[p] = "commit" => Exists(account[p])
Restorable(p) ==
    account[p] # pending[p] => /\ oldAuth[p] = before[p].home[account[p]]
                               /\ oldAuth[p] # NoHome
WriteInHand(p) ==
    /\ pc[p] = "write" => draft[p].listed = config.listed
    /\ pc[p] = "writeRemoval" => draft[p].listed = config.listed \ {account[p]}
    /\ pc[p] = "remove" => account[p] \notin config.listed
    /\ pc[p] = "archive" => /\ stale[p] \cap config.listed = {} /\ "config" \in renamed[p]
                            /\ account[p] # pending[p] \/ stale[p] # {} => Fresh(p)
CommandInHand(p) ==
    /\ pc[p] \in LoginSteps => ChangedOnly(p)
    /\ pc[p] \in LoginSteps \ {"archive"} => Fresh(p)
    /\ pc[p] \in {"login", "merge", "prepare", "replace", "commit"} => LoginInHand(p)
    /\ pc[p] = "merge" => home[pending[p]].who \in People
    /\ pc[p] \in {"prepare", "replace", "commit"} => MergeInHand(p)
    /\ pc[p] \in {"commit", "rollback"} => Restorable(p)
    /\ WriteInHand(p)
AccountKept ==
    /\ AccountsTyped /\ ActiveIsListed /\ ListedHasHome
    /\ \A p \in Procs : /\ draft[p].active \in draft[p].listed \cup {Ambient}
                         /\ CommandInHand(p)
(* And what is left of it when commands write over each other.              *)
DraftsKept ==
    /\ AccountsTyped /\ ActiveIsListed
    /\ \A p \in Procs : draft[p].active \in draft[p].listed \cup {Ambient}

(* A login that fails, whatever failed and whatever undoing it failed too,  *)
(* leaves the configuration and every home as it found them but for what    *)
(* ChangedOnly names: a rename that came before the failure.                *)
FailedLoginConfined ==
    \A p \in Procs : pc[p] = "discard" /\ pc'[p] = "failed" => ChangedOnly(p)'

(* A login keeps the id and home of an account of the same person, and      *)
(* never unlists anybody: each person listed before is listed after, under  *)
(* an id that person already had.                                           *)
ReauthKeepsAccount ==
    \A p \in Procs : pc[p] = "commit" /\ config' # config =>
         \A i \in config.listed \cap {j \in Ids : home[j].who \in People} :
             \E k \in config.listed \cap config'.listed : home[k].who = home[i].who
=============================================================================
