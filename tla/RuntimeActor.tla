----------------------------- MODULE RuntimeActor -----------------------------
(****************************************************************************)
(* The runtime state actor (crates/runtime/src/actor.rs): the single owner  *)
(* of the scheduler and the snapshot store.  It admits refresh requests,    *)
(* runs at most MaxInFlight required fetches, queues the rest, joins worker *)
(* tasks, publishes snapshots and drains its workers on shutdown.           *)
(*                                                                          *)
(* The actor's select loop waits at pc = "select".  A handler runs without  *)
(* an await on the daemon's single-threaded executor, so no other task runs *)
(* inside one; its loops are steps of their own (pc = "admit" for the       *)
(* requests a command or a deadline yields, pc = "fill" for the freed       *)
(* slots) between which only the clocks move.  A worker runs from its spawn *)
(* until the actor joins it; what it returns is chosen when it is joined.   *)
(****************************************************************************)
EXTENDS Scheduler, SnapshotStore, Sequences, FiniteSets

CONSTANTS
    Rank,             \* order of the scopes in the actor's BTreeMaps
    UnknownScopes,    \* scopes a client may name that are not registered
    HistoryScopes,    \* scopes whose source has a local history
    MaxInFlight,      \* RuntimeLimits::max_in_flight
    CommandCapacity,  \* RuntimeLimits::command_capacity
    MinInterval,      \* automatic_minimum_interval
    RateLimitBase,    \* first backoff delay after a RateLimited error
    TransientBase,    \* first backoff delay after another transient error
    BackoffCap,       \* longest exponential delay
    ErrorKinds,       \* errors the providers of this instance report
    RetryAfters,      \* Retry-After hints they attach, None for no hint
    SampleTimes,      \* fetch times of their samples (past or future)
    Triggers,         \* triggers the clients submit
    MaxCommands       \* bound: commands the clients submit

ASSUME ActorAssumption ==
    /\ IsFiniteSet(Scopes)
    /\ Rank \in [Scopes -> Nat]
    /\ \A s, t \in Scopes : Rank[s] = Rank[t] => s = t
    /\ UnknownScopes \cap Scopes = {}
    /\ HistoryScopes \subseteq Scopes
    /\ MaxInFlight \in Nat \ {0}
    /\ CommandCapacity \in Nat \ {0}
    /\ MinInterval \in [Scopes -> Nat]
    /\ RateLimitBase \in Nat \ {0}
    /\ TransientBase \in Nat \ {0}
    /\ BackoffCap \in Nat \ {0}
    /\ ErrorKinds \subseteq ErrorKind
    /\ RetryAfters \subseteq Nat
    /\ SampleTimes \subseteq 1 .. 2 * MaxTime
    /\ Triggers \subseteq {"Manual", "MenuOpen", "Periodic"}
    /\ MaxCommands \in Nat

VARIABLES
    pc,              \* where the actor task is
    todo,            \* requests the running handler has still to admit
    enrich,          \* optional work spawned once the slots are filled
    commands,        \* the bounded command channel
    submitted,       \* commands submitted so far
    workers,         \* RuntimeActor::workers with work_metadata
    activeRequired,  \* generation of the running required fetch of a scope
    activeOptional,  \* generation of the current optional worker of a scope
    pending,         \* VecDeque of queued requests
    pendingScopes,   \* their scopes
    generations,     \* last generation handed out
    cooldowns,       \* automatic_cooldowns
    failures,        \* automatic_failures
    lastAttempts,    \* automatic_last_attempts
    snapshots,       \* SnapshotStore, and what the watch channel shows
    shutdown         \* the cancellation token is cancelled

handlerVars == <<pc, todo, enrich>>
commandVars == <<commands, submitted>>
workVars == <<workers, activeRequired, activeOptional, generations>>
queueVars == <<pending, pendingScopes>>
backoffVars == <<cooldowns, failures>>
vars == <<clockVars, schedVars, handlerVars, commandVars, workVars, queueVars,
          backoffVars, lastAttempts, snapshots, shutdown>>

Trigger == {"Manual", "MenuOpen", "Periodic", "ResetBoundary"}
NoTrigger == "none"
AnyScope == Scopes \cup UnknownScopes

Request == [scope : AnyScope, trigger : Trigger]
QueuedRequest == [scope : Scopes, trigger : Trigger]

Refresh(s, trigger) == [op |-> "refresh", scope |-> s, trigger |-> trigger]
Popup(open) == [op |-> "popup", open |-> open]
Reset(s, boundary) == [op |-> "reset", scope |-> s, boundary |-> boundary]

RuntimeCommand ==
    {Refresh(s, t) : s \in AnyScope, t \in Trigger}
        \cup {Popup(open) : open \in BOOLEAN}
        \cup {Reset(s, b) : s \in AnyScope, b \in Boundaries}

(* A required worker carries its trigger; an optional one of a scope        *)
(* without local history the fetch time of the sample it enriches.          *)
Worker == [kind : {"required", "optional"}, scope : Scopes, gen : Nat \ {0},
           trigger : Trigger \cup {NoTrigger}, base : Nat]

RequiredWorker(s, g, trigger) ==
    [kind |-> "required", scope |-> s, gen |-> g, trigger |-> trigger,
     base |-> None]
HistoryWorker(s, g, trigger) ==
    [kind |-> "optional", scope |-> s, gen |-> g, trigger |-> trigger,
     base |-> None]
EnrichmentWorker(s, g, fetchedAt) ==
    [kind |-> "optional", scope |-> s, gen |-> g, trigger |-> NoTrigger,
     base |-> fetchedAt]

(* The actor's state is well typed. *)
ActorTypeOK ==
    /\ SchedulerTypeOK
    /\ pc \in {"select", "admit", "fill", "draining", "stopped"}
    /\ todo \subseteq Request
    /\ enrich \subseteq Worker
    /\ commands \in Seq(RuntimeCommand)
    /\ submitted \in Nat
    /\ workers \subseteq Worker
    /\ activeRequired \in [Scopes -> Nat]
    /\ activeOptional \in [Scopes -> Nat]
    /\ pending \in Seq(QueuedRequest)
    /\ pendingScopes \subseteq Scopes
    /\ generations \in [Scopes -> Nat]
    /\ cooldowns \in [Scopes -> Nat]
    /\ failures \in [Scopes -> 0 .. 6]
    /\ lastAttempts \in [Scopes -> Nat]
    /\ snapshots \in [Scopes -> ProviderSnapshot]
    /\ shutdown \in BOOLEAN

------------------------------------------------------------------------------
(* automatic_backoff_delay: None for the errors that no retry will cure.    *)

Smaller(a, b) == IF a <= b THEN a ELSE b
BackoffBase(error) == IF error = "RateLimited" THEN RateLimitBase ELSE TransientBase
Multiplier == <<1, 2, 4, 8, 16, 32>>

AutomaticBackoffDelay(error, retryAfter, count) ==
    IF error \in AutomaticErrors
    THEN Later(retryAfter,
               Smaller(BackoffBase(error) * Multiplier[count], BackoffCap))
    ELSE None

RecordAutomaticBackoff(s, error, retryAfter) ==
    LET count == Smaller(failures[s] + 1, 6)
        delay == AutomaticBackoffDelay(error, retryAfter, count)
    IN  /\ failures' = [failures EXCEPT ![s] = IF delay = None THEN None ELSE count]
        /\ cooldowns' = [cooldowns EXCEPT
               ![s] = IF delay = None THEN None ELSE mono + delay]

ClearBackoff(s) ==
    /\ failures' = [failures EXCEPT ![s] = None]
    /\ cooldowns' = [cooldowns EXCEPT ![s] = None]

(* retained_automatic_backoff: the remaining delay of the overlay a cached  *)
(* snapshot was persisted with.                                             *)
RetainedDelay(retained, now) ==
    IF HasSample(retained) /\ retained.error # NoError
    THEN LET delay == AutomaticBackoffDelay(retained.error, retained.retryAfter, 1)
             elapsed == IF retained.stale >= now THEN 0 ELSE now - retained.stale
         IN  IF elapsed >= delay THEN None ELSE delay - elapsed
    ELSE None

------------------------------------------------------------------------------
(* new_with_retained: the state a fresh actor starts from.                  *)

(* Mutant: activity of the previous process is kept. *)
StartSnapshotKeepingActivity(s, retained, now) ==
    LET restored == Restore(retained, now)
    IN  IF s \in HistoryScopes
        THEN ApplyLocalHistory(restored, "Scanning", retained.data)
        ELSE restored

StartSnapshot(s, retained, now) ==
    LET restored == Restore(retained, now)
    IN  IF s \in HistoryScopes
        THEN ApplyLocalHistory(restored, "Scanning", None)
        ELSE restored

(* Mutant: a restart forgets the cooldown. *)
StartWithoutCooldown(retained, now, at) == None

StartCooldown(retained, now, at) ==
    IF RetainedDelay(retained, now) = None THEN None
    ELSE at + RetainedDelay(retained, now)

StartFailures(retained, now) ==
    IF RetainedDelay(retained, now) = None THEN None ELSE 1

ActorInit(retained, startup) ==
    /\ pc = "select" /\ todo = {} /\ enrich = {}
    /\ commands = startup /\ submitted = 0
    /\ workers = {}
    /\ activeRequired = [s \in Scopes |-> None]
    /\ activeOptional = [s \in Scopes |-> None]
    /\ pending = <<>> /\ pendingScopes = {}
    /\ generations = [s \in Scopes |-> 0]
    /\ cooldowns = [s \in Scopes |-> StartCooldown(retained[s], wall, mono)]
    /\ failures = [s \in Scopes |-> StartFailures(retained[s], wall)]
    /\ lastAttempts = [s \in Scopes |-> None]
    /\ snapshots = [s \in Scopes |-> StartSnapshot(s, retained[s], wall)]
    /\ shutdown = FALSE

Init ==
    /\ ClockInit
    /\ SchedulerInit
    /\ ActorInit([s \in Scopes |-> Loading], <<>>)

------------------------------------------------------------------------------
(* Clients: the daemon's socket, tray and startup tasks.  `refresh' waits   *)
(* for room in the channel; a popup or reset command that finds it full is  *)
(* refused and leaves no trace, as is a command that arrives after the      *)
(* shutdown was requested: it is never received.                            *)

Selecting == pc = "select" /\ ~shutdown

Submit(command) ==
    /\ Selecting
    /\ submitted < MaxCommands
    /\ Len(commands) < CommandCapacity
    /\ commands' = Append(commands, command)
    /\ submitted' = submitted + 1
    /\ UNCHANGED <<clockVars, schedVars, handlerVars, workVars, queueVars,
                   backoffVars, lastAttempts, snapshots, shutdown>>

SubmitRefresh == \E s \in AnyScope, t \in Triggers : Submit(Refresh(s, t))
SubmitPopup == \E open \in BOOLEAN : Submit(Popup(open))
SubmitReset == \E s \in AnyScope, b \in Boundaries : Submit(Reset(s, b))

RequestShutdown ==
    /\ Selecting
    /\ shutdown' = TRUE
    /\ UNCHANGED <<clockVars, schedVars, handlerVars, commandVars, workVars,
                   queueVars, backoffVars, lastAttempts, snapshots>>

(* The clocks are not read any more once the actor drains its workers. *)
ClocksMatter ==
    /\ ~shutdown
    /\ UNCHANGED <<schedVars, handlerVars, commandVars, workVars, queueVars,
                   backoffVars, lastAttempts, snapshots, shutdown>>

TickClock == Tick /\ ClocksMatter
StepClock == StepWall /\ ClocksMatter

------------------------------------------------------------------------------
(* handle_command and handle_schedule_due.  The biased select takes a       *)
(* shutdown first, then a finished worker, then a command and a deadline    *)
(* last; a worker that has not been joined may still be running.            *)

Admit(requests) ==
    /\ todo' = requests
    /\ pc' = IF requests = {} THEN "select" ELSE "admit"
    /\ UNCHANGED enrich

TakeCommand(op) ==
    /\ Selecting
    /\ commands # <<>>
    /\ Head(commands).op = op
    /\ commands' = Tail(commands)
    /\ UNCHANGED <<clockVars, submitted, workVars, queueVars, backoffVars,
                   lastAttempts, shutdown>>

TakeRefresh ==
    /\ TakeCommand("refresh")
    /\ Admit({[scope |-> Head(commands).scope, trigger |-> Head(commands).trigger]})
    /\ UNCHANGED <<schedVars, snapshots>>

NeedsMenuOpenRefresh(snapshot) ==
    IF snapshot.error # NoError THEN snapshot.error \in AutomaticErrors
    ELSE ~HasSample(snapshot) \/ snapshot.stale # None

TakePopup ==
    LET open == Head(commands).open
    IN  /\ TakeCommand("popup")
        /\ SetPopupOpen(open)
        /\ Admit(IF open /\ ~PopupOpen
                 THEN {[scope |-> s, trigger |-> "MenuOpen"] :
                          s \in {t \in Scopes : NeedsMenuOpenRefresh(snapshots[t])}}
                 ELSE {})
        /\ UNCHANGED snapshots

TakeScheduleReset ==
    LET s == Head(commands).scope
        boundary == Head(commands).boundary
    IN  /\ TakeCommand("reset")
        /\ Admit({})
        /\ IF s \in Scopes
           THEN /\ ScheduleReset(s, boundary)
                /\ snapshots' = IF Armable(s, boundary) /\ Representable(boundary)
                                THEN [snapshots EXCEPT ![s] = MarkScheduled(@, boundary)]
                                ELSE snapshots
           ELSE UNCHANGED <<schedVars, snapshots>>

TakeScheduleDue ==
    /\ Selecting
    /\ commands = <<>>
    /\ DeadlineReached
    /\ TakeDue
    /\ Admit({[scope |-> s, trigger |-> "Periodic"] :
                  s \in IF PeriodicIsDue THEN Scopes ELSE {}}
             \cup {[scope |-> s, trigger |-> "ResetBoundary"] :
                  s \in {t \in Scopes : ResetIsDue(t)}})
    /\ UNCHANGED <<clockVars, commandVars, workVars, queueVars, backoffVars,
                   lastAttempts, snapshots, shutdown>>

------------------------------------------------------------------------------
(* Mutant: the generation of the last worker is used again. *)
NextGenerationReused(s) == generations[s]

NextGeneration(s) == generations[s] + 1

(* Mutant: every refresh cancels the running scan. *)
KeepsScanNever(s, trigger) == FALSE

KeepsScan(s, trigger) ==
    /\ s \in HistoryScopes
    /\ trigger # "Manual"
    /\ activeOptional[s] # None

(* start_required: a running history scan survives an automatic refresh;    *)
(* any other optional worker of the scope is cancelled, and a history scan  *)
(* is started with the same generation.                                     *)

StartRequired(s, trigger) ==
    LET g == NextGeneration(s)
        newScan == s \in HistoryScopes /\ ~KeepsScan(s, trigger)
        marked == MarkRefreshing(snapshots[s], wall)
    IN  /\ lastAttempts' = [lastAttempts EXCEPT ![s] = mono]
        /\ generations' = [generations EXCEPT ![s] = g]
        /\ activeRequired' = [activeRequired EXCEPT ![s] = g]
        /\ activeOptional' = [activeOptional EXCEPT
               ![s] = IF KeepsScan(s, trigger) THEN @ ELSE IF newScan THEN g ELSE None]
        /\ snapshots' = [snapshots EXCEPT
               ![s] = IF newScan THEN MarkHistoryState(marked, "Scanning") ELSE marked]
        /\ workers' = workers \cup {RequiredWorker(s, g, trigger)}
               \cup (IF newScan THEN {HistoryWorker(s, g, trigger)} ELSE {})

StartHistoryOnly(s, trigger) ==
    IF s \in HistoryScopes /\ activeOptional[s] = None
    THEN LET g == NextGeneration(s)
         IN  /\ generations' = [generations EXCEPT ![s] = g]
             /\ activeOptional' = [activeOptional EXCEPT ![s] = g]
             /\ snapshots' = [snapshots EXCEPT ![s] = MarkHistoryState(@, "Scanning")]
             /\ workers' = workers \cup {HistoryWorker(s, g, trigger)}
             /\ UNCHANGED activeRequired
    ELSE UNCHANGED <<workVars, snapshots>>

------------------------------------------------------------------------------
(* admit_refresh, one request at a time: the periodic ones before those of  *)
(* reset boundaries, each in scope order.                                   *)

Before(r, q) ==
    \/ r.trigger = "Periodic" /\ q.trigger # "Periodic"
    \/ r.trigger = q.trigger /\ Rank[r.scope] < Rank[q.scope]

Admitting(r) ==
    /\ pc = "admit"
    /\ r \in todo
    /\ \A q \in todo \ {r} : Before(r, q)
    /\ Admit(todo \ {r})
    /\ UNCHANGED <<clockVars, schedVars, commandVars, backoffVars, shutdown>>

(* Mutant: a queued scope is not seen as busy. *)
BusyIgnoringQueue(s) == activeRequired[s] # None

Busy(s) == activeRequired[s] # None \/ s \in pendingScopes

(* Mutant: only reset boundaries and menu retries respect the cooldown. *)
CoolingExceptPeriodic(r) ==
    r.trigger \in {"MenuOpen", "ResetBoundary"} /\ cooldowns[r.scope] > mono

Cooling(r) == r.trigger # "Manual" /\ cooldowns[r.scope] > mono
WithinFloor(r) ==
    /\ r.trigger = "Periodic"
    /\ lastAttempts[r.scope] # None
    /\ lastAttempts[r.scope] + MinInterval[r.scope] > mono

ActiveScopes == {s \in Scopes : activeRequired[s] # None}

(* Mutant: off by one. *)
SlotFreeOffByOne == Cardinality(ActiveScopes) <= MaxInFlight

SlotFree == Cardinality(ActiveScopes) < MaxInFlight

(* The request passes the checks that precede the concurrency limit. *)
Admissible(r) ==
    /\ r.scope \in Scopes
    /\ ~Busy(r.scope)
    /\ ~Cooling(r)
    /\ ~WithinFloor(r)

AdmitUnknown(r) ==
    /\ Admitting(r)
    /\ r.scope \notin Scopes
    /\ UNCHANGED <<workVars, queueVars, lastAttempts, snapshots>>

AdmitCoalesced(r) ==
    /\ Admitting(r)
    /\ r.scope \in Scopes
    /\ Busy(r.scope)
    /\ UNCHANGED <<workVars, queueVars, lastAttempts, snapshots>>

AdmitHistoryOnly(r) ==
    /\ Admitting(r)
    /\ r.scope \in Scopes
    /\ ~Busy(r.scope)
    /\ Cooling(r) \/ WithinFloor(r)
    /\ StartHistoryOnly(r.scope, r.trigger)
    /\ UNCHANGED <<queueVars, lastAttempts>>

AdmitStarted(r) ==
    /\ Admitting(r)
    /\ Admissible(r)
    /\ SlotFree
    /\ StartRequired(r.scope, r.trigger)
    /\ UNCHANGED queueVars

AdmitQueued(r) ==
    /\ Admitting(r)
    /\ Admissible(r)
    /\ ~SlotFree
    /\ snapshots' = [snapshots EXCEPT ![r.scope] = MarkScheduled(@, wall)]
    /\ pendingScopes' = pendingScopes \cup {r.scope}
    /\ pending' = Append(pending, r)
    /\ UNCHANGED <<workVars, lastAttempts>>

------------------------------------------------------------------------------
(* handle_worker_result.  A worker that is not current any more (its        *)
(* optional work was cancelled) is joined without effect, whether it was    *)
(* aborted in time or had already returned.                                 *)

RequiredIsCurrent(w) == activeRequired[w.scope] = w.gen

(* Mutant: a late optional result is applied whatever its generation. *)
OptionalAlwaysCurrent(w) == activeOptional[w.scope] # None

OptionalIsCurrent(w) == activeOptional[w.scope] = w.gen

Joined(w, kind) ==
    /\ Selecting
    /\ w \in workers
    /\ w.kind = kind
    /\ workers' = workers \ {w}
    /\ UNCHANGED <<clockVars, commandVars, todo, queueVars, generations,
                   lastAttempts, shutdown>>

(* finish_required, up to fill_required_slots. *)
FinishRequired(w, enrichment) ==
    /\ Joined(w, "required")
    /\ RequiredIsCurrent(w)
    /\ activeRequired' = [activeRequired EXCEPT ![w.scope] = None]
    /\ pc' = "fill"
    /\ enrich' = enrichment
    /\ UNCHANGED activeOptional

(* A sample for the right scope, with or without a ledger of its own and    *)
(* with or without the rate window and its reset time.                      *)
RequiredSucceeded(w) ==
    \E at \in SampleTimes, cost \in {None, w.gen},
       reset \in Boundaries \cup {None}, window \in BOOLEAN :
        LET s == w.scope
            fetched == [fetchedAt |-> at, gen |-> w.gen, reset |-> reset, cost |-> cost]
            next == ApplySuccess(snapshots[s], fetched, window, wall)
        IN  /\ reset # None => window
            /\ FinishRequired(w, IF s \in HistoryScopes THEN {}
                                 ELSE {EnrichmentWorker(s, w.gen, at)})
            /\ ClearBackoff(s)
            /\ snapshots' = [snapshots EXCEPT ![s] = next]
            /\ ReconcileResets(s, {next.sample.reset} \ {None}, next.sample.fetchedAt)

(* Mutant: the mismatch is published but the fetch is not finished. *)
RequiredMismatchedUnfinished(w) ==
    /\ Joined(w, "required")
    /\ snapshots' = [snapshots EXCEPT ![w.scope] = ApplyFailure(@, "Parse", None, wall)]
    /\ UNCHANGED <<schedVars, backoffVars, pc, enrich, activeRequired, activeOptional>>

(* A sample for another scope counts as a parse failure but leaves backoff  *)
(* and reset boundary alone.                                                *)
RequiredMismatched(w) ==
    /\ FinishRequired(w, {})
    /\ snapshots' = [snapshots EXCEPT ![w.scope] = ApplyFailure(@, "Parse", None, wall)]
    /\ UNCHANGED <<schedVars, backoffVars>>

(* Mutant: the fired boundaries are forgotten with the armed one. *)
ClearResetHistory(s) ==
    /\ pendingResets' = [pendingResets EXCEPT ![s] = NoReset]
    /\ lastFired' = [lastFired EXCEPT ![s] = None]
    /\ UNCHANGED <<normalDue, popupDue>>

ClearResetBoundary(s) == ReconcileResets(s, {}, wall)

RequiredFailed(w) ==
    \E error \in ErrorKinds, retryAfter \in RetryAfters :
        /\ FinishRequired(w, {})
        /\ RecordAutomaticBackoff(w.scope, error, retryAfter)
        /\ IF error \in AutomaticErrors THEN UNCHANGED schedVars
           ELSE ClearResetBoundary(w.scope)
        /\ snapshots' = [snapshots EXCEPT
               ![w.scope] = ApplyFailure(@, error, retryAfter, wall)]

RequiredPanicked(w) ==
    /\ FinishRequired(w, {})
    /\ RecordAutomaticBackoff(w.scope, "ProviderUnavailable", None)
    /\ snapshots' = [snapshots EXCEPT
           ![w.scope] = ApplyFailure(@, "ProviderUnavailable", None, wall)]
    /\ UNCHANGED schedVars

(* Mutant: the handler may return before the free slots are filled. *)
SlotsFilledTooSoon == TRUE

(* fill_required_slots. *)
SlotsFilled == ~SlotFree \/ pending = <<>>

FillSlot ==
    /\ pc = "fill"
    /\ SlotFree /\ pending # <<>>
    /\ pending' = Tail(pending)
    /\ pendingScopes' = pendingScopes \ {Head(pending).scope}
    /\ StartRequired(Head(pending).scope, Head(pending).trigger)
    /\ UNCHANGED <<clockVars, schedVars, handlerVars, commandVars, backoffVars,
                   shutdown>>

(* The slots are filled; handle_required ends by spawning the enrichment of *)
(* a successful sample, which replaces the scope's optional worker.         *)
FillDone ==
    /\ pc = "fill"
    /\ SlotsFilled
    /\ pc' = "select"
    /\ enrich' = {}
    /\ workers' = workers \cup enrich
    /\ activeOptional' = [s \in Scopes |->
           IF \E w \in enrich : w.scope = s
           THEN (CHOOSE w \in enrich : w.scope = s).gen
           ELSE activeOptional[s]]
    /\ UNCHANGED <<clockVars, schedVars, todo, commandVars, activeRequired,
                   generations, queueVars, backoffVars, lastAttempts, snapshots,
                   shutdown>>

FinishOptional(w) ==
    /\ Joined(w, "optional")
    /\ OptionalIsCurrent(w)
    /\ activeOptional' = [activeOptional EXCEPT ![w.scope] = None]
    /\ UNCHANGED <<schedVars, pc, enrich, activeRequired, backoffVars>>

(* handle_optional with Ok: `data' is the ledger, None for none. *)
OptionalReturned(w) ==
    \E data \in {None, w.gen} :
        /\ FinishOptional(w)
        /\ snapshots' = [snapshots EXCEPT ![w.scope] =
               IF w.scope \in HistoryScopes
               THEN ApplyLocalHistory(@, IF data = None THEN "Empty" ELSE "Ready", data)
               ELSE IF data = None THEN @ ELSE ApplyCostUsage(@, w.base, data)]

(* handle_optional with Err, or the optional worker panicked. *)
OptionalFailed(w) ==
    /\ FinishOptional(w)
    /\ snapshots' = [snapshots EXCEPT ![w.scope] = MarkHistoryState(@, "Failed")]

ReapSuperseded(w) ==
    /\ Joined(w, "optional")
    /\ ~OptionalIsCurrent(w)
    /\ UNCHANGED <<schedVars, pc, enrich, activeRequired, activeOptional,
                   backoffVars, snapshots>>

------------------------------------------------------------------------------
(* The end of run: the handler loop is left and cancel_and_drain joins      *)
(* every worker, in time or aborted (ShutdownDrain has its steps).          *)

BeginDrain ==
    /\ pc = "select"
    /\ shutdown
    /\ pc' = "draining"
    /\ UNCHANGED <<clockVars, schedVars, todo, enrich, commandVars, workVars,
                   queueVars, backoffVars, lastAttempts, snapshots, shutdown>>

DrainWorkers ==
    /\ pc = "draining"
    /\ pc' = "stopped"
    /\ workers' = {}
    /\ UNCHANGED <<clockVars, schedVars, todo, enrich, commandVars,
                   activeRequired, activeOptional, generations, queueVars,
                   backoffVars, lastAttempts, snapshots, shutdown>>

Stopped == pc = "stopped" /\ UNCHANGED vars

------------------------------------------------------------------------------
ClientStep == SubmitRefresh \/ SubmitPopup \/ SubmitReset \/ RequestShutdown
ClockStep == TickClock \/ StepClock
SelectStep == TakeRefresh \/ TakePopup \/ TakeScheduleReset \/ TakeScheduleDue
AdmitStep ==
    \E r \in todo :
        \/ AdmitUnknown(r)
        \/ AdmitCoalesced(r)
        \/ AdmitHistoryOnly(r)
        \/ AdmitStarted(r)
        \/ AdmitQueued(r)
FillStep == FillSlot \/ FillDone
RequiredStep ==
    \E w \in workers :
        \/ RequiredSucceeded(w)
        \/ RequiredMismatched(w)
        \/ RequiredFailed(w)
        \/ RequiredPanicked(w)
OptionalStep ==
    \E w \in workers :
        \/ OptionalReturned(w)
        \/ OptionalFailed(w)
        \/ ReapSuperseded(w)
StopStep == BeginDrain \/ DrainWorkers \/ Stopped

Next ==
    \/ ClientStep
    \/ ClockStep
    \/ SelectStep
    \/ AdmitStep
    \/ FillStep
    \/ RequiredStep
    \/ OptionalStep
    \/ StopStep

Spec == Init /\ [][Next]_vars

==============================================================================
