-------------------------------- MODULE Daemon --------------------------------
(****************************************************************************)
(* The daemon's state across process restarts (crates/app/src/daemon.rs):   *)
(* run_loop builds the actor from the snapshot cache, submits one periodic  *)
(* refresh per scope before it listens, and a task persists every changed   *)
(* publication.  The process may end at any moment, with a publication that *)
(* was not persisted yet, and start again.  The persisted file is replaced  *)
(* atomically (crates/storage/src/atomic_file.rs).                          *)
(****************************************************************************)
EXTENDS ActorProperties

CONSTANTS
    Startup,         \* the startup requests: each scope once, Periodic
    MaxRestarts      \* bound: how often the process is started again

ASSUME DaemonAssumption ==
    /\ Startup \in Seq({Refresh(s, "Periodic") : s \in Scopes})
    /\ MaxRestarts \in Nat

VARIABLES
    disk,            \* the envelope in the snapshot cache
    unseen,          \* the persistence task has a changed publication to write
    owed,            \* wall time until which a retained overlay asks to wait
    restarts

diskVars == <<disk, unseen, owed, restarts>>
daemonVars == <<vars, diskVars>>

NoCache == [s \in Scopes |-> Loading]

(* Disk, flag and count are well typed. *)
DaemonTypeOK ==
    /\ ActorTypeOK
    /\ disk \in [Scopes -> ProviderSnapshot]
    /\ unseen \in BOOLEAN
    /\ owed \in [Scopes -> Nat]
    /\ restarts \in Nat

DaemonInit ==
    /\ ClockInit
    /\ SchedulerInit
    /\ ActorInit(NoCache, Startup)
    /\ disk = NoCache
    /\ unseen = FALSE
    /\ owed = [s \in Scopes |-> None]
    /\ restarts = 0

(* Every actor step; a publication wakes the persistence task, and the      *)
(* result of a new fetch replaces what the provider asked for before.       *)
ActorStep ==
    /\ Next
    /\ unseen' = (unseen \/ snapshots' # snapshots)
    /\ owed' = [s \in Scopes |->
           IF \E w \in RequiredWorkers \ workers' : w.scope = s THEN None ELSE owed[s]]
    /\ UNCHANGED <<disk, restarts>>

(* persist_snapshots writes the latest publication; intermediate ones are   *)
(* skipped by the watch channel.                                            *)
Persist ==
    /\ unseen
    /\ pc \in {"select", "draining"}
    /\ disk' = snapshots
    /\ unseen' = FALSE
    /\ owed' = [s \in Scopes |->
           IF HasSample(snapshots[s]) /\ snapshots[s].error = "RateLimited"
           THEN snapshots[s].stale + snapshots[s].retryAfter
           ELSE owed[s]]
    /\ UNCHANGED <<vars, restarts>>

(* The process ends, cleanly or not, and run_loop starts a new one. *)
Restart ==
    /\ restarts < MaxRestarts
    /\ restarts' = restarts + 1
    /\ unseen' = FALSE
    /\ UNCHANGED <<clockVars, disk, owed>>
    /\ normalDue' = mono + NormalCadence /\ popupDue' = None
    /\ pendingResets' = [s \in Scopes |-> NoReset]
    /\ lastFired' = [s \in Scopes |-> None]
    /\ pc' = "select" /\ todo' = {} /\ enrich' = {}
    /\ commands' = Startup /\ UNCHANGED submitted
    /\ workers' = {}
    /\ activeRequired' = [s \in Scopes |-> None]
    /\ activeOptional' = [s \in Scopes |-> None]
    /\ pending' = <<>> /\ pendingScopes' = {}
    /\ generations' = [s \in Scopes |-> 0]
    /\ cooldowns' = [s \in Scopes |-> StartCooldown(disk[s], wall, mono)]
    /\ failures' = [s \in Scopes |-> StartFailures(disk[s], wall)]
    /\ lastAttempts' = [s \in Scopes |-> None]
    /\ snapshots' = [s \in Scopes |-> StartSnapshot(s, disk[s], wall)]
    /\ shutdown' = FALSE

DaemonNext == ActorStep \/ Persist \/ Restart

DaemonSpec == DaemonInit /\ [][DaemonNext]_daemonVars

------------------------------------------------------------------------------
(* "retained rate-limit Retry-After state must remain authoritative across  *)
(* a daemon restart" (run_loop): no automatic fetch starts before the       *)
(* Retry-After of a persisted overlay has passed, unless a later fetch      *)
(* already replaced that overlay.                                           *)
RetryAfterSurvivesRestart ==
    [][\A w \in workers' \ workers :
          w.kind = "required" /\ w.trigger # "Manual" => owed[w.scope] <= wall]_daemonVars

(* "A retained sample starts stale and becomes fresh only after a           *)
(* successful provider fetch" (new_with_retained): a snapshot turns fresh   *)
(* only in the step that joins the scope's required worker.                 *)
IsFresh(snapshot) == HasSample(snapshot) /\ snapshot.stale = None
FreshOnlyByFetch ==
    [][\A s \in Scopes : IsFresh(snapshots'[s]) /\ ~IsFresh(snapshots[s])
          => \E w \in RequiredWorkers \ workers' : w.scope = s]_daemonVars

(* "Never retain activity across a configuration/credential boundary        *)
(* without proof" (new_with_retained): until a history worker of this       *)
(* process has returned, a scope with local history shows no activity,      *)
(* neither as history nor in its restored sample; and whatever was read     *)
(* back from the cache, every snapshot, deadline and counter is well typed. *)
NoRetainedActivity ==
    /\ DaemonTypeOK
    /\ \A s \in HistoryScopes : generations[s] = 0 =>
           snapshots[s].data = None /\ snapshots[s].sample.cost = None

==============================================================================
