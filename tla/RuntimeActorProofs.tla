-------------------------- MODULE RuntimeActorProofs --------------------------
(****************************************************************************)
(* Proofs about the runtime actor, for every set of scopes, concurrency     *)
(* limit, cadence, backoff table, provider behaviour and wall clock: its    *)
(* type, its queue, its concurrency limit and its backoff, and then what    *)
(* the snapshots it publishes say.  Each safety proof first sorts the       *)
(* actor's steps by what they do to the state the invariant reads.  The     *)
(* last part is about the daemon across restarts.                           *)
(****************************************************************************)
EXTENDS Daemon, TLAPS, FiniteSetTheorems

------------------------------------------------------------------------------
(* The snapshot transitions stay within the snapshot type.                  *)

(* Every store transition maps a snapshot to a snapshot. *)
LEMMA SnapshotTypes ==
    ASSUME NEW current \in ProviderSnapshot, NEW now \in Nat,
           NEW sample \in Sample, NEW window \in BOOLEAN,
           NEW error \in ErrorKind, NEW retryAfter \in Nat,
           NEW state \in LocalHistoryState, NEW data \in Nat
    PROVE  /\ ApplySuccess(current, sample, window, now) \in ProviderSnapshot
           /\ ApplyFailure(current, error, retryAfter, now) \in ProviderSnapshot
           /\ ApplyLocalHistory(current, state, data) \in ProviderSnapshot
           /\ MarkHistoryState(current, state) \in ProviderSnapshot
           /\ ApplyCostUsage(current, now, data) \in ProviderSnapshot
           /\ MarkScheduled(current, now) \in ProviderSnapshot
           /\ MarkRefreshing(current, now) \in ProviderSnapshot
<1> USE DEF ProviderSnapshot, Sample, None
<1>1. ApplySuccess(current, sample, window, now) \in ProviderSnapshot
  <2> DEFINE filled == IF HasSample(current) THEN Backfill(sample, window, current.sample, now)
                       ELSE sample
             ledger == IF current.history # NoHistory THEN current.data ELSE filled.cost
             shown == [filled EXCEPT !.cost = ledger]
  <2>1. Backfill(sample, window, current.sample, now) \in Sample
    BY DEF Backfill
  <2>2. filled \in Sample
    BY <2>1
  <2>3. ledger \in Nat
    BY <2>2
  <2>4. shown \in Sample
    <3> HIDE DEF filled, ledger
    <3> QED  BY <2>2, <2>3
  <2>5. ApplySuccess(current, sample, window, now)
          = KeepHistory(current, Ready(shown, None, NoError, None))
    BY DEF ApplySuccess
  <2>6. KeepHistory(current, Ready(shown, None, NoError, None)) \in ProviderSnapshot
    <3> HIDE DEF shown
    <3> QED  BY <2>4 DEF KeepHistory, Ready, Loading, NoSample, NoError, NoHistory, RefreshPhase
  <2> QED
    BY <2>5, <2>6
<1>2. ApplyFailure(current, error, retryAfter, now) \in ProviderSnapshot
  BY DEF ApplyFailure, KeepHistory, Ready, Unavailable, Loading, NoSample, Later,
     NoError, NoHistory, RefreshPhase
<1>3. ApplyLocalHistory(current, state, data) \in ProviderSnapshot
  BY DEF ApplyLocalHistory
<1>4. MarkHistoryState(current, state) \in ProviderSnapshot
  BY DEF MarkHistoryState, ApplyLocalHistory
<1>5. ApplyCostUsage(current, now, data) \in ProviderSnapshot
  BY DEF ApplyCostUsage
<1>6. /\ MarkScheduled(current, now) \in ProviderSnapshot
      /\ MarkRefreshing(current, now) \in ProviderSnapshot
  BY DEF MarkScheduled, MarkRefreshing, SetReadyRefreshPhase, RefreshPhase
<1> QED
  BY <1>1, <1>2, <1>3, <1>4, <1>5, <1>6

(* In particular, those that take no further argument. *)
LEMMA MarkTypes ==
    ASSUME NEW current \in ProviderSnapshot, NEW at \in Nat
    PROVE  /\ MarkScheduled(current, at) \in ProviderSnapshot
           /\ MarkRefreshing(current, at) \in ProviderSnapshot
           /\ \A state \in LocalHistoryState : MarkHistoryState(current, state) \in ProviderSnapshot
<1>1. NoSample \in Sample /\ TRUE \in BOOLEAN /\ "Parse" \in ErrorKind
      /\ "Scanning" \in LocalHistoryState
  BY DEF NoSample, Sample, None, ErrorKind, LocalHistoryState
<1> QED
  BY <1>1, SnapshotTypes

(* The scheduler's operations keep its type, whoever calls them. *)
LEMMA SchedulerOperationTypes ==
    ASSUME SchedulerTypeOK, NEW s \in Scopes, UNCHANGED clockVars,
           \/ \E open \in BOOLEAN : SetPopupOpen(open)
           \/ \E b \in Boundaries : ScheduleReset(s, b)
           \/ \E bs \in SUBSET (Nat \ {0}), at \in Nat : ReconcileResets(s, bs, at)
           \/ TakeDue
           \/ UNCHANGED schedVars
    PROVE  SchedulerTypeOK'
<1> USE SchedulerAssumption DEF SchedulerTypeOK, clockVars
<1>1. ASSUME NEW b \in Nat \ {0}, Arm(s, b)
      PROVE  pendingResets' \in [Scopes -> ResetDeadline \cup {NoReset}]
  BY <1>1 DEF Arm, ProjectResetDeadline, ProjectWallDeadline,
     ResetRefreshAt, Later, ResetDeadline
<1>2. ASSUME NEW open \in BOOLEAN, SetPopupOpen(open) PROVE SchedulerTypeOK'
  BY <1>2 DEF SetPopupOpen, PopupOpen, None
<1>3. ASSUME NEW b \in Boundaries, ScheduleReset(s, b) PROVE SchedulerTypeOK'
  BY <1>1, <1>3 DEF ScheduleReset
<1>4. ASSUME NEW bs \in SUBSET (Nat \ {0}), NEW at \in Nat, ReconcileResets(s, bs, at)
      PROVE  SchedulerTypeOK'
  <2>1. Eligible(s, bs, at) \subseteq Nat \ {0}
    BY DEF Eligible
  <2>2. pendingResets' \in [Scopes -> ResetDeadline \cup {NoReset}]
    BY <1>1, <1>4, <2>1 DEF ReconcileResets, NoReset, None, ResetDeadline
  <2> QED
    BY <1>4, <2>2 DEF ReconcileResets
<1>5. CASE TakeDue
  BY <1>5 DEF TakeDue, NoReset, None, ResetDeadline
<1>6. CASE UNCHANGED schedVars
  BY <1>6 DEF schedVars
<1> QED
  BY <1>2, <1>3, <1>4, <1>5, <1>6

------------------------------------------------------------------------------
(* Type correctness.                                                        *)

WorkTypeOK ==
    /\ workers \subseteq Worker
    /\ activeRequired \in [Scopes -> Nat]
    /\ activeOptional \in [Scopes -> Nat]
    /\ generations \in [Scopes -> Nat]
    /\ snapshots \in [Scopes -> ProviderSnapshot]

(* Starting a fetch keeps the worker maps and the snapshots well typed. *)
LEMMA StartRequiredTypes ==
    ASSUME ActorTypeOK, NEW s \in Scopes, NEW trigger \in Trigger,
           StartRequired(s, trigger)
    PROVE  WorkTypeOK' /\ lastAttempts' \in [Scopes -> Nat]
<1> USE DEF ActorTypeOK, SchedulerTypeOK
<1> DEFINE g == NextGeneration(s)
<1>1. g \in Nat \ {0}
  BY DEF NextGeneration
<1>2. snapshots' \in [Scopes -> ProviderSnapshot]
  <2> DEFINE marked == MarkRefreshing(snapshots[s], wall)
  <2>1. \A current \in ProviderSnapshot :
           /\ MarkRefreshing(current, wall) \in ProviderSnapshot
           /\ MarkHistoryState(current, "Scanning") \in ProviderSnapshot
    <3>1. wall \in Nat /\ "Scanning" \in LocalHistoryState
      BY DEF LocalHistoryState
    <3> QED
      BY <3>1, MarkTypes
  <2>2. marked \in ProviderSnapshot /\ MarkHistoryState(marked, "Scanning") \in ProviderSnapshot
    BY <2>1
  <2>3. \E new \in ProviderSnapshot : snapshots' = [snapshots EXCEPT ![s] = new]
    BY <2>2 DEF StartRequired
  <2> QED
    BY <2>3
<1>3. workers' \subseteq Worker
  <2>1. RequiredWorker(s, g, trigger) \in Worker
    BY <1>1 DEF RequiredWorker, Worker, None
  <2>2. HistoryWorker(s, g, trigger) \in Worker
    BY <1>1 DEF HistoryWorker, Worker, None
  <2> QED
    BY <2>1, <2>2 DEF StartRequired
<1>4. /\ activeRequired' \in [Scopes -> Nat]
      /\ activeOptional' \in [Scopes -> Nat]
      /\ generations' \in [Scopes -> Nat]
      /\ lastAttempts' \in [Scopes -> Nat]
  BY <1>1 DEF StartRequired, None
<1> QED
  BY <1>2, <1>3, <1>4 DEF WorkTypeOK

(* Starting a history scan alone keeps them well typed. *)
LEMMA StartHistoryOnlyTypes ==
    ASSUME ActorTypeOK, NEW s \in Scopes, NEW trigger \in Trigger,
           StartHistoryOnly(s, trigger)
    PROVE  WorkTypeOK'
<1> USE DEF ActorTypeOK, WorkTypeOK
<1>1. CASE UNCHANGED <<workVars, snapshots>>
  BY <1>1 DEF workVars
<1>2. CASE ~UNCHANGED <<workVars, snapshots>>
  <2> DEFINE g == NextGeneration(s)
  <2>1. g \in Nat \ {0}
    BY DEF NextGeneration
  <2>2. MarkHistoryState(snapshots[s], "Scanning") \in ProviderSnapshot
    <3>1. 0 \in Nat /\ "Scanning" \in LocalHistoryState
      BY DEF LocalHistoryState
    <3> QED
      BY <3>1, MarkTypes
  <2>3. HistoryWorker(s, g, trigger) \in Worker
    BY <2>1 DEF HistoryWorker, Worker, None
  <2> QED
    BY <1>2, <2>1, <2>2, <2>3 DEF StartHistoryOnly
<1> QED
  BY <1>1, <1>2

(* The table of automatic_backoff_delay has an entry for every count. *)
LEMMA MultiplierType == \A n \in 1 .. 6 : Multiplier[n] \in Nat
<1> SUFFICES ASSUME NEW n \in 1 .. 6 PROVE Multiplier[n] \in Nat
  OBVIOUS
<1>1. n = 1 \/ n = 2 \/ n = 3 \/ n = 4 \/ n = 5 \/ n = 6
  OBVIOUS
<1> QED
  BY <1>1 DEF Multiplier

(* The backoff tables stay typed whatever error a provider reports. *)
LEMMA BackoffTypes ==
    ASSUME ActorTypeOK, NEW s \in Scopes, NEW error \in ErrorKind,
           NEW retryAfter \in Nat,
           RecordAutomaticBackoff(s, error, retryAfter) \/ ClearBackoff(s)
    PROVE  cooldowns' \in [Scopes -> Nat] /\ failures' \in [Scopes -> 0 .. 6]
<1> USE ActorAssumption DEF ActorTypeOK, SchedulerTypeOK, None
<1> DEFINE count == Smaller(failures[s] + 1, 6)
           delay == AutomaticBackoffDelay(error, retryAfter, count)
<1>1. count \in 1 .. 6
  <2>1. failures[s] \in 0 .. 6
    OBVIOUS
  <2>2. \A n \in 0 .. 6 : Smaller(n + 1, 6) \in 1 .. 6
    BY DEF Smaller
  <2> QED
    BY <2>1, <2>2
<1>2. Multiplier[count] \in Nat
  BY <1>1, MultiplierType
<1>3. delay \in Nat
  <2> HIDE DEF count
  <2>1. BackoffBase(error) * Multiplier[count] \in Nat
    BY <1>2 DEF BackoffBase
  <2>2. Smaller(BackoffBase(error) * Multiplier[count], BackoffCap) \in Nat
    BY <2>1 DEF Smaller
  <2> QED
    BY <2>2 DEF AutomaticBackoffDelay, Later
<1>4. CASE RecordAutomaticBackoff(s, error, retryAfter)
  <2> HIDE DEF delay
  <2>1. /\ failures' = [failures EXCEPT ![s] = IF delay = None THEN None ELSE count]
        /\ cooldowns' = [cooldowns EXCEPT ![s] = IF delay = None THEN None ELSE mono + delay]
    BY <1>4 DEF RecordAutomaticBackoff, delay
  <2> HIDE DEF count
  <2> QED
    BY <1>1, <1>3, <2>1
<1>5. CASE ClearBackoff(s)
  BY <1>5 DEF ClearBackoff
<1> QED
  BY <1>4, <1>5

(* What the clients submit are commands. *)
LEMMA CommandsTyped ==
    /\ \A s \in AnyScope, trigger \in Trigger : Refresh(s, trigger) \in RuntimeCommand
    /\ \A open \in BOOLEAN : Popup(open) \in RuntimeCommand
    /\ \A s \in AnyScope, b \in Boundaries : Reset(s, b) \in RuntimeCommand
<1>1. \A s \in AnyScope, trigger \in Trigger : Refresh(s, trigger) \in RuntimeCommand
  BY DEF RuntimeCommand, Refresh
<1>2. \A open \in BOOLEAN : Popup(open) \in RuntimeCommand
  BY DEF RuntimeCommand, Popup
<1>3. \A s \in AnyScope, b \in Boundaries : Reset(s, b) \in RuntimeCommand
  BY DEF RuntimeCommand, Reset
<1> QED
  BY <1>1, <1>2, <1>3

(* Client commands, clocks and the end of the actor keep the type. *)
LEMMA EnvironmentTypes ==
    ASSUME ActorTypeOK, ClientStep \/ ClockStep \/ StopStep
    PROVE  ActorTypeOK'
<1> USE SchedulerAssumption, ActorAssumption DEF ActorTypeOK
<1>1. ASSUME NEW c \in RuntimeCommand, Submit(c) PROVE ActorTypeOK'
  BY <1>1 DEF Submit, SchedulerTypeOK, clockVars, schedVars, handlerVars,
     workVars, queueVars, backoffVars
<1>2. CASE SubmitRefresh
  <2>1. Triggers \subseteq Trigger
    BY DEF Trigger
  <2> QED
    BY <1>1, <1>2, <2>1, CommandsTyped DEF SubmitRefresh
<1>3. CASE SubmitPopup
  BY <1>1, <1>3, CommandsTyped DEF SubmitPopup
<1>4. CASE SubmitReset
  BY <1>1, <1>4, CommandsTyped DEF SubmitReset
<1>5. CASE RequestShutdown
  BY <1>5 DEF RequestShutdown, SchedulerTypeOK, clockVars, schedVars,
     handlerVars, commandVars, workVars, queueVars, backoffVars
<1>6. CASE TickClock \/ StepClock
  BY <1>6 DEF TickClock, StepClock, ClocksMatter, Tick, StepWall,
     SchedulerTypeOK, schedVars, handlerVars, commandVars, workVars,
     queueVars, backoffVars
<1>7. CASE BeginDrain
  BY <1>7 DEF BeginDrain, SchedulerTypeOK, clockVars, schedVars, commandVars,
     workVars, queueVars, backoffVars
<1>8. CASE DrainWorkers
  BY <1>8 DEF DrainWorkers, SchedulerTypeOK, clockVars, schedVars,
     commandVars, queueVars, backoffVars
<1>9. CASE Stopped
  BY <1>9 DEF Stopped, vars, SchedulerTypeOK, clockVars, schedVars,
     handlerVars, commandVars, workVars, queueVars, backoffVars
<1> QED
  BY <1>2, <1>3, <1>4, <1>5, <1>6, <1>7, <1>8, <1>9
     DEF ClientStep, ClockStep, StopStep

(* Taking a command or a deadline keeps the type. *)
LEMMA SelectTypes ==
    ASSUME ActorTypeOK, SelectStep
    PROVE  ActorTypeOK'
<1> USE SchedulerAssumption, ActorAssumption DEF ActorTypeOK
<1>1. ASSUME NEW requests, requests \subseteq Request, Admit(requests)
      PROVE  /\ pc' \in {"select", "admit", "fill", "draining", "stopped"}
             /\ todo' \subseteq Request
             /\ enrich' \subseteq Worker
  BY <1>1 DEF Admit
<1>2. ASSUME NEW op, TakeCommand(op)
      PROVE  /\ commands' \in Seq(RuntimeCommand) /\ submitted' \in Nat
             /\ Head(commands) \in RuntimeCommand
             /\ Head(commands).op = op
             /\ UNCHANGED <<clockVars, workVars, queueVars, backoffVars,
                            lastAttempts, shutdown>>
  BY <1>2 DEF TakeCommand
<1>3. CASE TakeRefresh
  <2>1. /\ Head(commands) \in RuntimeCommand /\ Head(commands).op = "refresh"
    BY <1>2, <1>3 DEF TakeRefresh
  <2>2. [scope |-> Head(commands).scope, trigger |-> Head(commands).trigger] \in Request
    BY <2>1 DEF RuntimeCommand, Refresh, Popup, Reset, Request
  <2> QED
    BY <1>1, <1>2, <1>3, <2>2 DEF TakeRefresh, SchedulerTypeOK, clockVars,
       schedVars, workVars, queueVars, backoffVars
<1>4. CASE TakePopup
  <2>1. /\ Head(commands) \in RuntimeCommand /\ Head(commands).op = "popup"
        /\ UNCHANGED clockVars
    BY <1>2, <1>4 DEF TakePopup
  <2>2. Head(commands).open \in BOOLEAN
    BY <2>1 DEF RuntimeCommand, Refresh, Popup, Reset
  <2>3. SchedulerTypeOK'
    BY <1>4, <2>1, <2>2 DEF TakePopup, SetPopupOpen, PopupOpen, None,
       SchedulerTypeOK, clockVars
  <2>4. \A set \in SUBSET Scopes : {[scope |-> s, trigger |-> "MenuOpen"] : s \in set}
           \subseteq Request
    BY DEF Request, AnyScope, Trigger
  <2>5. \E requests \in SUBSET Request : Admit(requests)
    BY <1>4, <2>4 DEF TakePopup
  <2> QED
    BY <1>1, <1>2, <1>4, <2>3, <2>5 DEF TakePopup, workVars, queueVars,
       backoffVars
<1>5. CASE TakeScheduleReset
  <2> DEFINE s == Head(commands).scope
             boundary == Head(commands).boundary
  <2>1. /\ Head(commands) \in RuntimeCommand /\ Head(commands).op = "reset"
        /\ UNCHANGED clockVars
    BY <1>2, <1>5 DEF TakeScheduleReset
  <2>2. boundary \in Boundaries
    BY <2>1 DEF RuntimeCommand, Refresh, Popup, Reset
  <2>3. SchedulerTypeOK' /\ snapshots' \in [Scopes -> ProviderSnapshot]
    <3>1. CASE s \in Scopes
      <4>1. ScheduleReset(s, boundary)
        BY <1>5, <3>1 DEF TakeScheduleReset
      <4>2. SchedulerTypeOK'
        BY <2>1, <2>2, <3>1, <4>1, SchedulerOperationTypes
      <4>4. \/ snapshots' = snapshots
            \/ snapshots' = [snapshots EXCEPT ![s] = MarkScheduled(snapshots[s], boundary)]
        BY <1>5, <3>1 DEF TakeScheduleReset
      <4>5. MarkScheduled(snapshots[s], boundary) \in ProviderSnapshot
        BY <2>2, <3>1, MarkTypes
      <4>6. \A x, new : new \in ProviderSnapshot =>
               [snapshots EXCEPT ![x] = new] \in [Scopes -> ProviderSnapshot]
        OBVIOUS
      <4>7. snapshots' \in [Scopes -> ProviderSnapshot]
        <5>1. CASE snapshots' = snapshots
          BY <5>1
        <5>2. CASE snapshots' = [snapshots EXCEPT ![s] = MarkScheduled(snapshots[s], boundary)]
          BY <4>5, <4>6, <5>2
        <5> QED
          BY <4>4, <5>1, <5>2
      <4> QED
        BY <4>2, <4>7
    <3>2. CASE s \notin Scopes
      BY <1>5, <2>1, <3>2 DEF TakeScheduleReset, SchedulerTypeOK, schedVars,
         clockVars
    <3> QED
      BY <3>1, <3>2
  <2> QED
    BY <1>1, <1>2, <1>5, <2>3 DEF TakeScheduleReset, workVars, queueVars,
       backoffVars
<1>6. CASE TakeScheduleDue
  <2>1. SchedulerTypeOK'
    <3>1. TakeDue /\ mono' = mono /\ wall' = wall /\ steps' = steps
      BY <1>6 DEF TakeScheduleDue, clockVars
    <3>2. \A s \in Scopes : /\ pendingResets[s] \in ResetDeadline \cup {NoReset}
                           /\ pendingResets[s].boundary \in Nat /\ lastFired[s] \in Nat
      BY DEF SchedulerTypeOK, NoReset, None, ResetDeadline
    <3>3. pendingResets' \in [Scopes -> ResetDeadline \cup {NoReset}] /\ lastFired' \in [Scopes -> Nat]
      BY <3>1, <3>2 DEF TakeDue
    <3>4. normalDue' \in Nat /\ popupDue' \in Nat
      BY <3>1 DEF TakeDue, SchedulerTypeOK
    <3> QED
      BY <3>1, <3>3, <3>4 DEF SchedulerTypeOK
  <2>2. \A set \in SUBSET Scopes, trigger \in Trigger :
           {[scope |-> s, trigger |-> trigger] : s \in set} \subseteq Request
    BY DEF Request, AnyScope
  <2>3. \E requests \in SUBSET Request : Admit(requests)
    <3> DEFINE periodic == IF PeriodicIsDue THEN Scopes ELSE {}
               due == {t \in Scopes : ResetIsDue(t)}
    <3>1. /\ {[scope |-> s, trigger |-> "Periodic"] : s \in periodic} \subseteq Request
          /\ {[scope |-> s, trigger |-> "ResetBoundary"] : s \in due} \subseteq Request
      BY <2>2 DEF Trigger
    <3> QED
      BY <1>6, <3>1 DEF TakeScheduleDue
  <2> QED
    BY <1>1, <1>6, <2>1, <2>3 DEF TakeScheduleDue, clockVars, commandVars,
       workVars, queueVars, backoffVars
<1> QED
  BY <1>3, <1>4, <1>5, <1>6 DEF SelectStep

(* Admitting a request keeps the type. *)
LEMMA AdmitTypes ==
    ASSUME ActorTypeOK, AdmitStep
    PROVE  ActorTypeOK'
<1> USE DEF ActorTypeOK
<1> PICK r \in todo : \/ AdmitUnknown(r) \/ AdmitCoalesced(r) \/ AdmitHistoryOnly(r)
                      \/ AdmitStarted(r) \/ AdmitQueued(r)
  BY DEF AdmitStep
<1>1. r.trigger \in Trigger
  BY DEF Request
<1>2. Admitting(r)
  BY DEF AdmitUnknown, AdmitCoalesced, AdmitHistoryOnly, AdmitStarted, AdmitQueued
<1>3. /\ SchedulerTypeOK'
      /\ pc' \in {"select", "admit", "fill", "draining", "stopped"}
      /\ todo' \subseteq Request
      /\ enrich' \subseteq Worker
      /\ commands' \in Seq(RuntimeCommand)
      /\ submitted' \in Nat
      /\ cooldowns' \in [Scopes -> Nat]
      /\ failures' \in [Scopes -> 0 .. 6]
      /\ shutdown' \in BOOLEAN
  BY <1>2 DEF Admitting, Admit, SchedulerTypeOK, clockVars, schedVars,
     commandVars, backoffVars
<1>4. CASE AdmitUnknown(r) \/ AdmitCoalesced(r)
  BY <1>3, <1>4 DEF AdmitUnknown, AdmitCoalesced, workVars, queueVars
<1>5. CASE AdmitHistoryOnly(r)
  <2>1. WorkTypeOK'
    BY <1>1, <1>5, StartHistoryOnlyTypes DEF AdmitHistoryOnly
  <2> QED
    BY <1>3, <1>5, <2>1 DEF AdmitHistoryOnly, WorkTypeOK, queueVars
<1>6. CASE AdmitStarted(r)
  <2>1. WorkTypeOK' /\ lastAttempts' \in [Scopes -> Nat]
    BY <1>1, <1>6, StartRequiredTypes DEF AdmitStarted, Admissible
  <2> QED
    BY <1>3, <1>6, <2>1 DEF AdmitStarted, WorkTypeOK, queueVars
<1>7. CASE AdmitQueued(r)
  <2>1. r.scope \in Scopes /\ wall \in Nat
    BY <1>7 DEF AdmitQueued, Admissible, SchedulerTypeOK
  <2>2. MarkScheduled(snapshots[r.scope], wall) \in ProviderSnapshot
    BY <2>1, MarkTypes
  <2>3. snapshots' \in [Scopes -> ProviderSnapshot]
    BY <1>7, <2>1, <2>2 DEF AdmitQueued
  <2>4. r \in QueuedRequest
    BY <2>1 DEF Request, QueuedRequest
  <2>5. pending' \in Seq(QueuedRequest) /\ pendingScopes' \subseteq Scopes
    BY <1>7, <2>1, <2>4 DEF AdmitQueued
  <2> QED
    BY <1>3, <1>7, <2>3, <2>5 DEF AdmitQueued, workVars
<1> QED
  BY <1>4, <1>5, <1>6, <1>7

(* Refilling the slots keeps the type. *)
LEMMA FillTypes ==
    ASSUME ActorTypeOK, FillStep
    PROVE  ActorTypeOK'
<1> USE DEF ActorTypeOK
<1>1. CASE FillSlot
  <2>1. Head(pending) \in QueuedRequest /\ Tail(pending) \in Seq(QueuedRequest)
    BY <1>1 DEF FillSlot
  <2>2. Head(pending).scope \in Scopes /\ Head(pending).trigger \in Trigger
    BY <2>1 DEF QueuedRequest
  <2>3. WorkTypeOK' /\ lastAttempts' \in [Scopes -> Nat]
    BY <1>1, <2>2, StartRequiredTypes DEF FillSlot
  <2> QED
    BY <1>1, <2>1, <2>3 DEF FillSlot, WorkTypeOK, SchedulerTypeOK, clockVars,
       schedVars, handlerVars, commandVars, backoffVars
<1>2. CASE FillDone
  <2>1. activeOptional' \in [Scopes -> Nat]
    <3>1. ASSUME NEW s \in Scopes, \E w \in enrich : w.scope = s
          PROVE  (CHOOSE w \in enrich : w.scope = s).gen \in Nat
      BY <3>1 DEF Worker
    <3> QED
      BY <1>2, <3>1 DEF FillDone
  <2> QED
    BY <1>2, <2>1 DEF FillDone, SchedulerTypeOK, clockVars, schedVars,
       commandVars, queueVars, backoffVars
<1> QED
  BY <1>1, <1>2 DEF FillStep

(* RequiredSucceeded with its choices named. *)
SuccessSample(w, at, cost, reset) ==
    [fetchedAt |-> at, gen |-> w.gen, reset |-> reset, cost |-> cost]
SuccessResult(w, at, cost, reset, window) ==
    ApplySuccess(snapshots[w.scope], SuccessSample(w, at, cost, reset), window, wall)
Success(w, at, cost, reset, window) ==
    LET next == SuccessResult(w, at, cost, reset, window)
    IN  /\ FinishRequired(w, IF w.scope \in HistoryScopes THEN {}
                             ELSE {EnrichmentWorker(w.scope, w.gen, at)})
        /\ ClearBackoff(w.scope)
        /\ snapshots' = [snapshots EXCEPT ![w.scope] = next]
        /\ ReconcileResets(w.scope, {next.sample.reset} \ {None}, next.sample.fetchedAt)

(* A required success chooses a sample and applies it. *)
LEMMA SuccessCases ==
    ASSUME NEW w, RequiredSucceeded(w)
    PROVE  \E at \in SampleTimes, cost \in {None, w.gen},
              reset \in Boundaries \cup {None}, window \in BOOLEAN :
              Success(w, at, cost, reset, window)
BY DEF RequiredSucceeded, Success, SuccessResult, SuccessSample

(* Joining a required worker keeps the type, whatever it returned. *)
LEMMA RequiredTypes ==
    ASSUME ActorTypeOK, RequiredStep
    PROVE  ActorTypeOK'
<1> USE SchedulerAssumption, ActorAssumption DEF ActorTypeOK
<1>0. PICK w \in workers : \/ RequiredSucceeded(w) \/ RequiredMismatched(w)
                           \/ RequiredFailed(w) \/ RequiredPanicked(w)
  BY DEF RequiredStep
<1>1. w.scope \in Scopes /\ w.gen \in Nat
  BY DEF Worker
<1>2. wall \in Nat /\ None \in Nat
  BY DEF SchedulerTypeOK, None
<1>3. ASSUME NEW enrichment, enrichment \subseteq Worker, FinishRequired(w, enrichment),
             NEW new \in ProviderSnapshot,
             snapshots' = [snapshots EXCEPT ![w.scope] = new],
             SchedulerTypeOK',
             cooldowns' \in [Scopes -> Nat], failures' \in [Scopes -> 0 .. 6]
      PROVE  ActorTypeOK'
  BY <1>3 DEF FinishRequired, Joined, None, commandVars, queueVars
<1>4. ASSUME NEW error \in ErrorKind, NEW retryAfter \in Nat
      PROVE  ApplyFailure(snapshots[w.scope], error, retryAfter, wall) \in ProviderSnapshot
  <2>1. /\ NoSample \in Sample /\ TRUE \in BOOLEAN
        /\ "Scanning" \in LocalHistoryState /\ snapshots[w.scope] \in ProviderSnapshot
    BY <1>1 DEF NoSample, Sample, None, LocalHistoryState
  <2> QED
    BY <1>2, <2>1, SnapshotTypes
<1>5. "Parse" \in ErrorKind /\ "ProviderUnavailable" \in ErrorKind
  BY DEF ErrorKind, AutomaticErrors
<1>6. ASSUME NEW enrichment, FinishRequired(w, enrichment) PROVE UNCHANGED clockVars
  BY <1>6 DEF FinishRequired, Joined
<1>7. CASE RequiredSucceeded(w)
  <2>1. PICK at \in SampleTimes, cost \in {None, w.gen},
             reset \in Boundaries \cup {None}, window \in BOOLEAN :
             Success(w, at, cost, reset, window)
    BY <1>7, SuccessCases
  <2> DEFINE next == SuccessResult(w, at, cost, reset, window)
  <2>2. at \in Nat
    OBVIOUS
  <2>3. next \in ProviderSnapshot
    <3>1. SuccessSample(w, at, cost, reset) \in Sample
      <4>1. cost \in Nat /\ reset \in Nat
        BY <1>1 DEF None
      <4> QED
        BY <1>1, <2>2, <4>1 DEF SuccessSample, Sample
    <3>2. /\ "Scanning" \in LocalHistoryState /\ snapshots[w.scope] \in ProviderSnapshot
      BY <1>1 DEF LocalHistoryState
    <3> QED
      BY <1>2, <1>5, <3>1, <3>2, SnapshotTypes DEF SuccessResult
  <2>4. EnrichmentWorker(w.scope, w.gen, at) \in Worker
    BY <1>1, <2>2 DEF EnrichmentWorker, Worker
  <2> HIDE DEF next
  <2>5. next.sample.reset \in Nat /\ next.sample.fetchedAt \in Nat
    BY <2>3 DEF ProviderSnapshot, Sample
  <2>6. SchedulerTypeOK'
    <3>1. {next.sample.reset} \ {None} \in SUBSET (Nat \ {0})
      BY <2>5 DEF None
    <3>2. ReconcileResets(w.scope, {next.sample.reset} \ {None}, next.sample.fetchedAt)
      BY <2>1 DEF Success, next
    <3>3. UNCHANGED clockVars
      BY <1>6, <2>1 DEF Success
    <3> QED
      BY <1>1, <2>5, <3>1, <3>2, <3>3, SchedulerOperationTypes
  <2>7. cooldowns' \in [Scopes -> Nat] /\ failures' \in [Scopes -> 0 .. 6]
    BY <1>1, <1>2, <1>5, <2>1, BackoffTypes DEF Success
  <2> QED
    BY <1>3, <2>1, <2>3, <2>4, <2>6, <2>7 DEF Success, next
<1>8. CASE RequiredMismatched(w)
  <2>1. SchedulerTypeOK'
    BY <1>6, <1>8 DEF RequiredMismatched, SchedulerTypeOK, clockVars, schedVars
  <2> QED
    BY <1>2, <1>3, <1>4, <1>5, <1>8, <2>1 DEF RequiredMismatched, backoffVars
<1>9. CASE RequiredFailed(w)
  <2>1. PICK error \in ErrorKinds, retryAfter \in RetryAfters :
        /\ FinishRequired(w, {})
        /\ RecordAutomaticBackoff(w.scope, error, retryAfter)
        /\ IF error \in AutomaticErrors THEN UNCHANGED schedVars
           ELSE ClearResetBoundary(w.scope)
        /\ snapshots' = [snapshots EXCEPT
               ![w.scope] = ApplyFailure(@, error, retryAfter, wall)]
    BY <1>9 DEF RequiredFailed
  <2>2. error \in ErrorKind /\ retryAfter \in Nat
    OBVIOUS
  <2>3. SchedulerTypeOK'
    <3>1. UNCHANGED clockVars
      BY <1>6, <2>1
    <3>2. {} \in SUBSET (Nat \ {0})
      OBVIOUS
    <3> QED
      BY <1>1, <1>2, <2>1, <3>1, <3>2, SchedulerOperationTypes DEF ClearResetBoundary
  <2>4. cooldowns' \in [Scopes -> Nat] /\ failures' \in [Scopes -> 0 .. 6]
    BY <1>1, <2>1, <2>2, BackoffTypes
  <2> QED
    BY <1>3, <1>4, <2>1, <2>2, <2>3, <2>4
<1>10. CASE RequiredPanicked(w)
  <2>1. SchedulerTypeOK'
    BY <1>6, <1>10 DEF RequiredPanicked, SchedulerTypeOK, clockVars, schedVars
  <2>2. cooldowns' \in [Scopes -> Nat] /\ failures' \in [Scopes -> 0 .. 6]
    BY <1>1, <1>2, <1>5, <1>10, BackoffTypes DEF RequiredPanicked
  <2> QED
    BY <1>2, <1>3, <1>4, <1>5, <1>10, <2>1, <2>2 DEF RequiredPanicked
<1> QED
  BY <1>0, <1>7, <1>8, <1>9, <1>10

(* Joining an optional worker keeps the type. *)
LEMMA OptionalTypes ==
    ASSUME ActorTypeOK, OptionalStep
    PROVE  ActorTypeOK'
<1> USE DEF ActorTypeOK
<1>0. PICK w \in workers : OptionalReturned(w) \/ OptionalFailed(w) \/ ReapSuperseded(w)
  BY DEF OptionalStep
<1>1. w.scope \in Scopes /\ w.gen \in Nat /\ w.base \in Nat
  BY DEF Worker
<1>2. ASSUME NEW new \in ProviderSnapshot, FinishOptional(w),
             snapshots' = [snapshots EXCEPT ![w.scope] = new]
      PROVE  ActorTypeOK'
  BY <1>2 DEF FinishOptional, Joined, SchedulerTypeOK, None, clockVars,
     schedVars, commandVars, queueVars, backoffVars
<1>3. CASE OptionalReturned(w)
  <2>1. PICK data \in {None, w.gen} :
        /\ FinishOptional(w)
        /\ snapshots' = [snapshots EXCEPT ![w.scope] =
               IF w.scope \in HistoryScopes
               THEN ApplyLocalHistory(@, IF data = None THEN "Empty" ELSE "Ready", data)
               ELSE IF data = None THEN @ ELSE ApplyCostUsage(@, w.base, data)]
    BY <1>3 DEF OptionalReturned
  <2>2. data \in Nat
    BY <1>1 DEF None
  <2>3. /\ \A state \in LocalHistoryState :
              ApplyLocalHistory(snapshots[w.scope], state, data) \in ProviderSnapshot
        /\ ApplyCostUsage(snapshots[w.scope], w.base, data) \in ProviderSnapshot
    <3>1. NoSample \in Sample /\ TRUE \in BOOLEAN /\ "Parse" \in ErrorKind
          /\ "Scanning" \in LocalHistoryState /\ snapshots[w.scope] \in ProviderSnapshot
      BY <1>1 DEF NoSample, Sample, None, ErrorKind, LocalHistoryState
    <3> QED
      BY <1>1, <2>2, <3>1, SnapshotTypes
  <2>4. /\ ApplyLocalHistory(snapshots[w.scope], IF data = None THEN "Empty" ELSE "Ready", data)
              \in ProviderSnapshot
    BY <2>3 DEF LocalHistoryState
  <2>5. \E new \in ProviderSnapshot : snapshots' = [snapshots EXCEPT ![w.scope] = new]
    BY <1>1, <2>1, <2>3, <2>4
  <2> QED
    BY <1>2, <2>1, <2>5
<1>4. CASE OptionalFailed(w)
  <2>1. MarkHistoryState(snapshots[w.scope], "Failed") \in ProviderSnapshot
    <3>1. "Failed" \in LocalHistoryState /\ 0 \in Nat
      BY DEF LocalHistoryState
    <3> QED
      BY <1>1, <3>1, MarkTypes
  <2> QED
    BY <1>2, <1>4, <2>1 DEF OptionalFailed
<1>5. CASE ReapSuperseded(w)
  BY <1>5 DEF ReapSuperseded, Joined, SchedulerTypeOK, clockVars, schedVars,
     commandVars, queueVars, backoffVars
<1> QED
  BY <1>0, <1>3, <1>4, <1>5

(* A fresh actor without a cache is well typed. *)
LEMMA InitTypes == Init => ActorTypeOK
<1> SUFFICES ASSUME Init PROVE ActorTypeOK
  OBVIOUS
<1> USE SchedulerAssumption, ActorAssumption DEF Init, ActorInit
<1>1. SchedulerTypeOK
  BY DEF ClockInit, SchedulerInit, SchedulerTypeOK, ResetDeadline, NoReset, None
<1>2. RetainedDelay(Loading, wall) = None
  BY DEF RetainedDelay, HasSample, Loading
<1>3. \A s \in Scopes : cooldowns[s] = None /\ failures[s] = None
  BY <1>2 DEF StartCooldown, StartFailures
<1>4. Restore(Loading, wall) = Loading
  BY DEF Restore, HasSample, Loading
<1>5. \A s \in Scopes : StartSnapshot(s, Loading, wall) \in ProviderSnapshot
  <2>1. Loading \in ProviderSnapshot
    BY DEF Loading, ProviderSnapshot, NoSample, Sample, None, RefreshPhase,
       NoError, NoHistory
  <2>2. ApplyLocalHistory(Loading, "Scanning", None) \in ProviderSnapshot
    BY <2>1 DEF ApplyLocalHistory, HasSample, Loading, ProviderSnapshot, Sample,
       NoSample, LocalHistoryState, None, RefreshPhase, NoError
  <2> QED
    BY <1>4, <2>1, <2>2 DEF StartSnapshot
<1>6. snapshots \in [Scopes -> ProviderSnapshot]
  BY <1>5
<1>7. cooldowns \in [Scopes -> Nat] /\ failures \in [Scopes -> 0 .. 6]
  BY <1>3 DEF None
<1>8. /\ activeRequired \in [Scopes -> Nat] /\ activeOptional \in [Scopes -> Nat]
      /\ generations \in [Scopes -> Nat] /\ lastAttempts \in [Scopes -> Nat]
  BY DEF None
<1>9. commands \in Seq(RuntimeCommand) /\ pending \in Seq(QueuedRequest)
  OBVIOUS
<1>10. /\ pc = "select" /\ todo = {} /\ enrich = {} /\ submitted = 0
       /\ workers = {} /\ pendingScopes = {} /\ shutdown = FALSE
  OBVIOUS
<1> HIDE DEF Init
<1> QED
  BY <1>1, <1>6, <1>7, <1>8, <1>9, <1>10 DEF ActorTypeOK

(* No step of the actor leaves the type. *)
LEMMA ActorTypeStep ==
    ASSUME ActorTypeOK, [Next]_vars
    PROVE  ActorTypeOK'
<1>1. CASE UNCHANGED vars
  BY <1>1 DEF ActorTypeOK, vars, SchedulerTypeOK, clockVars, schedVars,
     handlerVars, commandVars, workVars, queueVars, backoffVars
<1> QED
  BY <1>1, EnvironmentTypes, SelectTypes, AdmitTypes, FillTypes,
     RequiredTypes, OptionalTypes DEF Next

(* The actor's state stays well typed: whatever clients, providers and      *)
(* clocks do, every map of the actor keeps its keys and value ranges, and   *)
(* the failure counter stays within the backoff table.                      *)
THEOREM ActorTypeCorrect == Spec => []ActorTypeOK
BY InitTypes, ActorTypeStep, PTL DEF Spec

------------------------------------------------------------------------------
(* The queue.                                                               *)

(* Every outcome of a required worker goes through finish_required. *)
LEMMA RequiredFinishes ==
    ASSUME RequiredStep
    PROVE  \E w \in workers : \E e : FinishRequired(w, e)
<1>1. PICK w \in workers : \/ RequiredSucceeded(w) \/ RequiredMismatched(w)
                           \/ RequiredFailed(w) \/ RequiredPanicked(w)
  BY DEF RequiredStep
<1>2. CASE RequiredSucceeded(w)
  BY <1>2, SuccessCases DEF Success
<1>3. CASE ~RequiredSucceeded(w)
  BY <1>1, <1>3 DEF RequiredMismatched, RequiredFailed, RequiredPanicked
<1> QED
  BY <1>2, <1>3

(* The steps that touch the queue or the set of running fetches. *)
LEMMA QueueSteps ==
    ASSUME [Next]_vars
    PROVE  \/ UNCHANGED <<pending, pendingScopes, activeRequired>>
           \/ \E r \in todo : AdmitStarted(r) \/ AdmitQueued(r)
           \/ FillSlot
           \/ \E w \in workers : \E e : FinishRequired(w, e)
<1>1. CASE ClientStep \/ ClockStep \/ StopStep \/ UNCHANGED vars
  BY <1>1 DEF ClientStep, ClockStep, StopStep, SubmitRefresh, SubmitPopup,
     SubmitReset, Submit, RequestShutdown, TickClock, StepClock, ClocksMatter,
     BeginDrain, DrainWorkers, Stopped, vars, workVars, queueVars
<1>2. CASE SelectStep
  BY <1>2 DEF SelectStep, TakeRefresh, TakePopup, TakeScheduleReset,
     TakeScheduleDue, TakeCommand, workVars, queueVars
<1>3. CASE AdmitStep
  BY <1>3 DEF AdmitStep, AdmitUnknown, AdmitCoalesced, AdmitHistoryOnly,
     StartHistoryOnly, workVars, queueVars
<1>4. CASE FillStep
  BY <1>4 DEF FillStep, FillDone, queueVars
<1>5. CASE RequiredStep
  BY <1>5, RequiredFinishes
<1>6. CASE OptionalStep
  BY <1>6 DEF OptionalStep, OptionalReturned, OptionalFailed, ReapSuperseded,
     FinishOptional, Joined, queueVars
<1> QED
  BY <1>1, <1>2, <1>3, <1>4, <1>5, <1>6 DEF Next

(* Admission, the filling of slots and the end of a fetch keep queue and    *)
(* membership set in step.                                                  *)
LEMMA PendingConsistentStep ==
    ASSUME ActorTypeOK, PendingConsistent, [Next]_vars
    PROVE  PendingConsistent'
<1> USE DEF PendingConsistent
<1>1. pending \in Seq(QueuedRequest) /\ activeRequired \in [Scopes -> Nat]
  BY DEF ActorTypeOK
<1>2. pendingScopes \subseteq Scopes
  BY DEF ActorTypeOK
<1>3. CASE UNCHANGED <<pending, pendingScopes, activeRequired>>
  BY <1>3
<1>4. ASSUME NEW r \in todo, AdmitStarted(r) PROVE PendingConsistent'
  BY <1>1, <1>2, <1>4 DEF AdmitStarted, Admissible, Busy, StartRequired, queueVars
<1>5. ASSUME NEW r \in todo, AdmitQueued(r) PROVE PendingConsistent'
  <2>1. /\ r.scope \notin pendingScopes /\ activeRequired[r.scope] = None
        /\ pending' = Append(pending, r)
        /\ pendingScopes' = pendingScopes \cup {r.scope}
        /\ activeRequired' = activeRequired
    BY <1>5 DEF AdmitQueued, Admissible, Busy, workVars
  <2>2. /\ Len(pending') = Len(pending) + 1
        /\ \A i \in 1 .. Len(pending) : pending'[i] = pending[i]
        /\ pending'[Len(pending) + 1] = r
        /\ Len(pending) \in Nat
    BY <1>1, <2>1
  <2> QED
    BY <2>1, <2>2
<1>6. CASE FillSlot
  <2> DEFINE s == Head(pending).scope
  <2>1. /\ pending # <<>> /\ pending' = Tail(pending)
        /\ pendingScopes' = pendingScopes \ {s}
        /\ \E g : activeRequired' = [activeRequired EXCEPT ![s] = g]
    BY <1>6 DEF FillSlot, StartRequired
  <2>2. /\ Len(pending) \in Nat \ {0}
        /\ Len(pending') = Len(pending) - 1
        /\ \A i \in 1 .. Len(pending) - 1 : pending'[i] = pending[i + 1]
        /\ s = pending[1].scope
    BY <1>1, <2>1
  <2>3. \A i, j \in 1 .. Len(pending') : pending'[i].scope = pending'[j].scope => i = j
    BY <2>2
  <2>4. pendingScopes' = {pending'[i].scope : i \in 1 .. Len(pending')}
    <3>1. ASSUME NEW x \in pendingScopes'
          PROVE  \E i \in 1 .. Len(pending') : x = pending'[i].scope
      <4>1. PICK j \in 1 .. Len(pending) : x = pending[j].scope
        BY <2>1
      <4>2. j # 1 /\ j - 1 \in 1 .. Len(pending') /\ pending'[j - 1] = pending[j]
        BY <2>1, <2>2, <4>1
      <4> QED
        BY <4>1, <4>2
    <3>2. ASSUME NEW i \in 1 .. Len(pending')
          PROVE  pending'[i].scope \in pendingScopes'
      <4>1. i + 1 \in 1 .. Len(pending) /\ i + 1 # 1 /\ pending'[i] = pending[i + 1]
        BY <2>2
      <4>2. pending[i + 1].scope # s
        BY <2>2, <4>1
      <4> QED
        BY <2>1, <4>1, <4>2
    <3> QED
      BY <3>1, <3>2
  <2>5. \A t \in pendingScopes' : activeRequired'[t] = None
    BY <1>1, <1>2, <2>1
  <2> QED
    BY <2>3, <2>4, <2>5
<1>7. ASSUME NEW w \in workers, NEW e, FinishRequired(w, e) PROVE PendingConsistent'
  BY <1>1, <1>2, <1>7 DEF FinishRequired, Joined, queueVars
<1> QED
  BY <1>3, <1>4, <1>5, <1>6, <1>7, QueueSteps

(* Queue and membership set agree in every reachable state, and no queued   *)
(* scope is being fetched.                                                  *)
THEOREM PendingConsistentHolds == Spec => []PendingConsistent
<1>1. Init => PendingConsistent
  BY DEF Init, ActorInit, PendingConsistent
<1> QED
  BY <1>1, PendingConsistentStep, ActorTypeCorrect, PTL DEF Spec

------------------------------------------------------------------------------
(* The concurrency limit.  A running fetch is the active one of its scope,  *)
(* and at most one runs per scope, so that counting active scopes counts    *)
(* the running fetches.                                                     *)

EnrichmentWaits ==
    /\ enrich # {} => pc = "fill"
    /\ \A w \in enrich : w.kind = "optional" /\ w.scope \in Scopes \ HistoryScopes

(* Enrichment work is created by the handler that frees a slot. *)
LEMMA EnrichmentWaitsStep ==
    ASSUME ActorTypeOK, EnrichmentWaits, [Next]_vars
    PROVE  EnrichmentWaits'
<1> USE DEF EnrichmentWaits
<1>1. CASE ClientStep \/ ClockStep \/ StopStep \/ UNCHANGED vars
  BY <1>1 DEF ClientStep, ClockStep, StopStep, SubmitRefresh, SubmitPopup,
     SubmitReset, Submit, RequestShutdown, TickClock, StepClock, ClocksMatter,
     BeginDrain, DrainWorkers, Stopped, vars, handlerVars
<1>2. CASE SelectStep
  BY <1>2 DEF SelectStep, TakeRefresh, TakePopup, TakeScheduleReset,
     TakeScheduleDue, TakeCommand, Selecting, Admit
<1>3. CASE AdmitStep
  BY <1>3 DEF AdmitStep, AdmitUnknown, AdmitCoalesced, AdmitHistoryOnly,
     AdmitStarted, AdmitQueued, Admitting, Admit
<1>4. CASE FillStep
  BY <1>4 DEF FillStep, FillSlot, FillDone, handlerVars
<1>5. CASE RequiredStep
  <2>1. PICK w \in workers : \/ RequiredSucceeded(w) \/ RequiredMismatched(w)
                             \/ RequiredFailed(w) \/ RequiredPanicked(w)
    BY <1>5 DEF RequiredStep
  <2>2. CASE RequiredSucceeded(w)
    <3>1. w.scope \in Scopes
      BY DEF ActorTypeOK, Worker
    <3>2. PICK at \in SampleTimes, cost \in {None, w.gen},
               reset \in Boundaries \cup {None}, window \in BOOLEAN :
               Success(w, at, cost, reset, window)
      BY <2>2, SuccessCases
    <3>3. /\ pc' = "fill"
          /\ enrich' = IF w.scope \in HistoryScopes THEN {}
                       ELSE {EnrichmentWorker(w.scope, w.gen, at)}
      BY <3>2 DEF Success, FinishRequired
    <3> QED
      BY <3>1, <3>3 DEF EnrichmentWorker
  <2>3. CASE ~RequiredSucceeded(w)
    BY <2>1, <2>3 DEF RequiredMismatched, RequiredFailed, RequiredPanicked,
       FinishRequired
  <2> QED
    BY <2>2, <2>3
<1>6. CASE OptionalStep
  BY <1>6 DEF OptionalStep, OptionalReturned, OptionalFailed, ReapSuperseded,
     FinishOptional, Joined
<1> QED
  BY <1>1, <1>2, <1>3, <1>4, <1>5, <1>6 DEF Next

(* Enrichment work waits only inside the handler that frees a slot. *)
LEMMA EnrichmentWaitsHolds == Spec => []EnrichmentWaits
<1>1. Init => EnrichmentWaits
  BY DEF Init, ActorInit, EnrichmentWaits
<1> QED
  BY <1>1, EnrichmentWaitsStep, ActorTypeCorrect, PTL DEF Spec

OneFetchPerScope ==
    /\ \A w \in RequiredWorkers : RequiredIsCurrent(w)
    /\ \A v, w \in RequiredWorkers : v.scope = w.scope => v = w
    /\ Cardinality(ActiveScopes) <= MaxInFlight

(* The steps that touch the running fetches. *)
LEMMA FetchSteps ==
    ASSUME ActorTypeOK, PendingConsistent, EnrichmentWaits, [Next]_vars
    PROVE  \/ activeRequired' = activeRequired /\ RequiredWorkers' \subseteq RequiredWorkers
           \/ \E s \in Scopes, trigger \in Trigger :
                 SlotFree /\ activeRequired[s] = None /\ StartRequired(s, trigger)
           \/ \E w \in workers : \E e : FinishRequired(w, e)
<1> USE DEF RequiredWorkers
<1>1. CASE ClientStep \/ ClockStep \/ StopStep \/ UNCHANGED vars
  BY <1>1 DEF ClientStep, ClockStep, StopStep, SubmitRefresh, SubmitPopup,
     SubmitReset, Submit, RequestShutdown, TickClock, StepClock, ClocksMatter,
     BeginDrain, DrainWorkers, Stopped, vars, workVars
<1>2. CASE SelectStep
  BY <1>2 DEF SelectStep, TakeRefresh, TakePopup, TakeScheduleReset,
     TakeScheduleDue, TakeCommand, workVars
<1>3. CASE AdmitStep
  <2>1. PICK r \in todo : \/ AdmitUnknown(r) \/ AdmitCoalesced(r) \/ AdmitHistoryOnly(r)
                          \/ AdmitStarted(r) \/ AdmitQueued(r)
    BY <1>3 DEF AdmitStep
  <2>2. CASE AdmitUnknown(r) \/ AdmitCoalesced(r) \/ AdmitQueued(r)
    BY <2>2 DEF AdmitUnknown, AdmitCoalesced, AdmitQueued, workVars
  <2>3. CASE AdmitHistoryOnly(r)
    BY <2>3 DEF AdmitHistoryOnly, StartHistoryOnly, HistoryWorker, workVars
  <2>4. CASE AdmitStarted(r)
    <3>1. r.scope \in Scopes /\ r.trigger \in Trigger
      BY <2>4 DEF AdmitStarted, Admissible, ActorTypeOK, Request
    <3> QED
      BY <2>4, <3>1 DEF AdmitStarted, Admissible, Busy
  <2> QED
    BY <2>1, <2>2, <2>3, <2>4
<1>4. CASE FillStep
  <2>1. CASE FillSlot
    <3>1. /\ pending \in Seq(QueuedRequest) /\ pending # <<>>
      BY <2>1 DEF FillSlot, ActorTypeOK
    <3>2. Head(pending) = pending[1] /\ 1 \in 1 .. Len(pending) /\ pending[1] \in QueuedRequest
      BY <3>1
    <3>3. Head(pending).scope \in Scopes /\ Head(pending).trigger \in Trigger
      BY <3>2 DEF QueuedRequest
    <3>4. activeRequired[Head(pending).scope] = None
      BY <3>2 DEF PendingConsistent
    <3> QED
      BY <2>1, <3>3, <3>4 DEF FillSlot
  <2>2. CASE FillDone
    BY <2>2 DEF FillDone, EnrichmentWaits
  <2> QED
    BY <1>4, <2>1, <2>2 DEF FillStep
<1>5. CASE RequiredStep
  BY <1>5, RequiredFinishes
<1>6. CASE OptionalStep
  BY <1>6 DEF OptionalStep, OptionalReturned, OptionalFailed, ReapSuperseded,
     FinishOptional, Joined
<1> QED
  BY <1>1, <1>2, <1>3, <1>4, <1>5, <1>6 DEF Next

(* A scope that is being fetched is not fetched a second time. *)
LEMMA OneFetchPerScopeStep ==
    ASSUME ActorTypeOK, PendingConsistent, EnrichmentWaits, OneFetchPerScope, [Next]_vars
    PROVE  OneFetchPerScope'
<1> USE DEF OneFetchPerScope, RequiredWorkers, RequiredIsCurrent
<1>1. \A w \in RequiredWorkers : w.scope \in Scopes /\ w.gen \in Nat \ {0}
  BY DEF ActorTypeOK, Worker
<1>2. activeRequired \in [Scopes -> Nat]
  BY DEF ActorTypeOK
<1>3. IsFiniteSet(ActiveScopes) /\ Cardinality(ActiveScopes) \in Nat
  <2>1. ActiveScopes \in SUBSET Scopes
    BY DEF ActiveScopes
  <2> QED
    BY <2>1, ActorAssumption, FS_Subset, FS_CardinalityType
<1>4. CASE activeRequired' = activeRequired /\ RequiredWorkers' \subseteq RequiredWorkers
  BY <1>4 DEF ActiveScopes
<1>5. ASSUME NEW s \in Scopes, NEW trigger \in Trigger, SlotFree,
             activeRequired[s] = None, StartRequired(s, trigger)
      PROVE  OneFetchPerScope'
  <2> DEFINE g == NextGeneration(s)
             new == RequiredWorker(s, g, trigger)
  <2>1. g \in Nat \ {0}
    BY DEF NextGeneration, ActorTypeOK
  <2>2. /\ new.kind = "required" /\ new.scope = s /\ new.gen = g
        /\ HistoryWorker(s, g, trigger).kind = "optional"
    BY DEF RequiredWorker, HistoryWorker
  <2>3. RequiredWorkers' = RequiredWorkers \cup {new}
    BY <1>5, <2>2 DEF StartRequired
  <2>4. activeRequired' = [activeRequired EXCEPT ![s] = g]
    BY <1>5 DEF StartRequired
  <2>5. \A w \in RequiredWorkers : w.scope # s
    BY <1>1, <1>5 DEF None
  <2> HIDE DEF g, new
  <2>6. \A w \in RequiredWorkers' : activeRequired'[w.scope] = w.gen
    BY <1>1, <1>2, <2>2, <2>3, <2>4, <2>5
  <2>7. \A v, w \in RequiredWorkers' : v.scope = w.scope => v = w
    BY <2>2, <2>3, <2>5
  <2>8. ActiveScopes' = ActiveScopes \cup {s}
    BY <1>2, <2>1, <2>4 DEF ActiveScopes, None
  <2>9. Cardinality(ActiveScopes') <= MaxInFlight
    <3>1. /\ Cardinality(ActiveScopes \cup {s}) <= Cardinality(ActiveScopes) + 1
          /\ Cardinality(ActiveScopes \cup {s}) \in Nat
      <4>1. Cardinality(ActiveScopes \cup {s}) =
               IF s \in ActiveScopes THEN Cardinality(ActiveScopes)
                                     ELSE Cardinality(ActiveScopes) + 1
        BY <1>3, FS_AddElement
      <4> QED
        BY <1>3, <4>1
    <3>2. Cardinality(ActiveScopes) < MaxInFlight /\ MaxInFlight \in Nat
      BY <1>5, ActorAssumption DEF SlotFree
    <3>3. Cardinality(ActiveScopes \cup {s}) <= MaxInFlight
      BY <1>3, <3>1, <3>2
    <3> QED
      BY <2>8, <3>3
  <2> QED
    BY <2>6, <2>7, <2>9
<1>6. ASSUME NEW w \in workers, NEW e, FinishRequired(w, e)
      PROVE  OneFetchPerScope'
  <2>1. /\ w \in RequiredWorkers
        /\ RequiredWorkers' = RequiredWorkers \ {w}
        /\ activeRequired' = [activeRequired EXCEPT ![w.scope] = None]
    BY <1>6 DEF FinishRequired, Joined
  <2>2. \A v \in RequiredWorkers' : activeRequired'[v.scope] = v.gen
    BY <1>1, <1>2, <2>1
  <2>3. ActiveScopes' \in SUBSET ActiveScopes
    BY <1>2, <2>1 DEF ActiveScopes
  <2>4. Cardinality(ActiveScopes') <= Cardinality(ActiveScopes)
        /\ Cardinality(ActiveScopes') \in Nat
    BY <1>3, <2>3, FS_Subset, FS_CardinalityType
  <2> QED
    BY <1>3, <2>1, <2>2, <2>4, ActorAssumption
<1> QED
  BY <1>4, <1>5, <1>6, FetchSteps

(* At most one fetch runs per scope and the active scopes respect the limit. *)
LEMMA OneFetchPerScopeHolds == Spec => []OneFetchPerScope
<1>1. Init => OneFetchPerScope
  <2> SUFFICES ASSUME Init PROVE OneFetchPerScope
    OBVIOUS
  <2>1. workers = {} /\ ActiveScopes = {}
    BY DEF Init, ActorInit, ActiveScopes
  <2> QED
    BY <2>1, FS_EmptySet, ActorAssumption DEF OneFetchPerScope, RequiredWorkers
<1> QED
  BY <1>1, OneFetchPerScopeStep, ActorTypeCorrect, PendingConsistentHolds,
     EnrichmentWaitsHolds, PTL DEF Spec

(* Fetches that are active, one per scope, are as many as active scopes. *)
LEMMA OneFetchBounds ==
    ASSUME ActorTypeOK, OneFetchPerScope
    PROVE  FetchesBounded
<1>1. \A w \in RequiredWorkers : w.scope \in ActiveScopes
  BY DEF ActorTypeOK, Worker, OneFetchPerScope, RequiredWorkers,
     RequiredIsCurrent, ActiveScopes, None
<1> DEFINE f == [w \in RequiredWorkers |-> w.scope]
<1>2. f \in Injection(RequiredWorkers, ActiveScopes)
  BY <1>1 DEF OneFetchPerScope, Injection, IsInjective
<1>3. IsFiniteSet(ActiveScopes) /\ Cardinality(ActiveScopes) \in Nat
  <2>1. ActiveScopes \in SUBSET Scopes
    BY DEF ActiveScopes
  <2> QED
    BY <2>1, ActorAssumption, FS_Subset, FS_CardinalityType
<1> HIDE DEF f
<1>4. /\ Cardinality(RequiredWorkers) <= Cardinality(ActiveScopes)
      /\ Cardinality(RequiredWorkers) \in Nat
  BY <1>2, <1>3, FS_Injection, FS_CardinalityType
<1> QED
  BY <1>3, <1>4, ActorAssumption DEF OneFetchPerScope, FetchesBounded

(* Never more than max_in_flight fetches run, and never two for one scope,  *)
(* for any number of scopes and any order of commands, deadlines and joins. *)
THEOREM FetchesBoundedHolds == Spec => []FetchesBounded
BY OneFetchBounds, ActorTypeCorrect, OneFetchPerScopeHolds, PTL

------------------------------------------------------------------------------
(* Work in hand.  Between two handlers no slot is free while a request is   *)
(* queued, because admission queues only behind taken slots and a freed one *)
(* is refilled before the actor selects again.                              *)

NoIdleSlot == pc \in {"select", "admit"} /\ pending # <<>> => ~SlotFree

(* No handler returns with a free slot and a queued request. *)
LEMMA NoIdleSlotStep ==
    ASSUME NoIdleSlot, [Next]_vars
    PROVE  NoIdleSlot'
<1>0. ASSUME activeRequired' = activeRequired PROVE SlotFree' <=> SlotFree
  BY <1>0 DEF SlotFree, ActiveScopes
<1>1. CASE /\ UNCHANGED <<pending, activeRequired>>
           /\ pc' \in {"select", "admit"} => pc \in {"select", "admit"}
  BY <1>0, <1>1 DEF NoIdleSlot
<1>2. CASE ClientStep \/ ClockStep \/ StopStep \/ UNCHANGED vars
  BY <1>1, <1>2 DEF ClientStep, ClockStep, StopStep, SubmitRefresh, SubmitPopup,
     SubmitReset, Submit, RequestShutdown, TickClock, StepClock, ClocksMatter,
     BeginDrain, DrainWorkers, Stopped, vars, handlerVars, workVars, queueVars
<1>3. CASE SelectStep
  BY <1>1, <1>3 DEF SelectStep, TakeRefresh, TakePopup, TakeScheduleReset,
     TakeScheduleDue, TakeCommand, Selecting, workVars, queueVars
<1>4. CASE AdmitStep
  <2>1. PICK r \in todo : \/ AdmitUnknown(r) \/ AdmitCoalesced(r) \/ AdmitHistoryOnly(r)
                          \/ AdmitStarted(r) \/ AdmitQueued(r)
    BY <1>4 DEF AdmitStep
  <2>2. pc = "admit"
    BY <2>1 DEF AdmitUnknown, AdmitCoalesced, AdmitHistoryOnly, AdmitStarted,
       AdmitQueued, Admitting
  <2>3. CASE AdmitUnknown(r) \/ AdmitCoalesced(r) \/ AdmitHistoryOnly(r)
    BY <1>1, <2>2, <2>3 DEF AdmitUnknown, AdmitCoalesced, AdmitHistoryOnly,
       StartHistoryOnly, workVars, queueVars
  <2>4. CASE AdmitStarted(r)
    BY <2>2, <2>4 DEF AdmitStarted, queueVars, NoIdleSlot
  <2>5. CASE AdmitQueued(r)
    BY <1>0, <2>5 DEF AdmitQueued, workVars, NoIdleSlot
  <2> QED
    BY <2>1, <2>3, <2>4, <2>5
<1>5. CASE FillStep
  BY <1>0, <1>5 DEF FillStep, FillSlot, FillDone, SlotsFilled, handlerVars,
     queueVars, NoIdleSlot
<1>6. CASE RequiredStep
  BY <1>6, RequiredFinishes DEF FinishRequired, NoIdleSlot
<1>7. CASE OptionalStep
  BY <1>1, <1>7 DEF OptionalStep, OptionalReturned, OptionalFailed,
     ReapSuperseded, FinishOptional, Joined, queueVars
<1> QED
  BY <1>2, <1>3, <1>4, <1>5, <1>6, <1>7 DEF Next

(* A request waits only behind taken slots, also while others are admitted. *)
LEMMA NoIdleSlotHolds == Spec => []NoIdleSlot
<1>1. Init => NoIdleSlot
  BY DEF Init, ActorInit, NoIdleSlot
<1> QED
  BY <1>1, NoIdleSlotStep, PTL DEF Spec

(* Whatever is marked as running is run by somebody.                        *)

ActiveBy(s, kind, g) == \E w \in workers : w.kind = kind /\ w.scope = s /\ w.gen = g

AllActiveRun ==
    \A s \in Scopes :
        /\ activeRequired[s] # None => ActiveBy(s, "required", activeRequired[s])
        /\ activeOptional[s] # None => ActiveBy(s, "optional", activeOptional[s])

(* ActiveHasWorker with its witnesses named by kind. *)
LEMMA ActiveByKind ==
    ASSUME workers \subseteq Worker
    PROVE  ActiveHasWorker <=> (pc \in {"select", "admit", "fill"} => AllActiveRun)
<1>1. \A w \in workers : w.kind = "required" \/ w.kind = "optional"
  BY DEF Worker
<1> QED
  BY <1>1 DEF ActiveHasWorker, AllActiveRun, ActiveBy, RequiredWorkers

(* Starting a fetch or a scan spawns the workers it marks as active. *)
LEMMA StartsRun ==
    ASSUME ActorTypeOK, AllActiveRun, NEW s \in Scopes, NEW trigger \in Trigger,
           StartRequired(s, trigger) \/ StartHistoryOnly(s, trigger)
    PROVE  AllActiveRun'
<1> USE DEF AllActiveRun, ActiveBy
<1>1. activeRequired \in [Scopes -> Nat] /\ activeOptional \in [Scopes -> Nat]
  BY DEF ActorTypeOK
<1> DEFINE g == NextGeneration(s)
<1>2. /\ RequiredWorker(s, g, trigger).kind = "required"
      /\ RequiredWorker(s, g, trigger).scope = s /\ RequiredWorker(s, g, trigger).gen = g
      /\ HistoryWorker(s, g, trigger).kind = "optional"
      /\ HistoryWorker(s, g, trigger).scope = s /\ HistoryWorker(s, g, trigger).gen = g
  BY DEF RequiredWorker, HistoryWorker
<1>3. CASE StartRequired(s, trigger)
  <2>1. /\ activeRequired' = [activeRequired EXCEPT ![s] = g]
        /\ workers \subseteq workers' /\ RequiredWorker(s, g, trigger) \in workers'
    BY <1>3 DEF StartRequired
  <2>2. \/ activeOptional' = activeOptional
        \/ activeOptional' = [activeOptional EXCEPT ![s] = None]
        \/ /\ activeOptional' = [activeOptional EXCEPT ![s] = g]
           /\ HistoryWorker(s, g, trigger) \in workers'
    BY <1>1, <1>3 DEF StartRequired
  <2> HIDE DEF g
  <2> QED
    BY <1>1, <1>2, <2>1, <2>2
<1>4. CASE StartHistoryOnly(s, trigger)
  <2>1. /\ activeRequired' = activeRequired /\ workers \subseteq workers'
        /\ \/ activeOptional' = activeOptional
           \/ /\ activeOptional' = [activeOptional EXCEPT ![s] = g]
              /\ HistoryWorker(s, g, trigger) \in workers'
    BY <1>4 DEF StartHistoryOnly, workVars
  <2> HIDE DEF g
  <2> QED
    BY <1>1, <1>2, <2>1
<1> QED
  BY <1>3, <1>4

(* Nobody becomes active without a task, and no active task is dropped. *)
LEMMA ActiveHasWorkerStep ==
    ASSUME ActorTypeOK, EnrichmentWaits, ActiveHasWorker, ActorTypeOK', [Next]_vars
    PROVE  ActiveHasWorker'
<1> SUFFICES ASSUME pc' \in {"select", "admit", "fill"}
             PROVE  AllActiveRun'
  <2>1. workers' \subseteq Worker => \A w \in workers' : w.kind = "required" \/ w.kind = "optional"
    BY DEF Worker
  <2>2. ActorTypeOK' => workers' \subseteq Worker
    BY DEF ActorTypeOK
  <2> QED
    BY <2>1, <2>2 DEF ActiveHasWorker, AllActiveRun, ActiveBy, RequiredWorkers
<1> DEFINE Running == {"select", "admit", "fill"}
<1>0. /\ activeRequired \in [Scopes -> Nat] /\ activeOptional \in [Scopes -> Nat]
      /\ pc \in Running => AllActiveRun
      /\ \A w \in workers : w.scope \in Scopes /\ w.gen \in Nat \ {0}
  BY ActiveByKind DEF ActorTypeOK, Worker
<1> USE DEF AllActiveRun, ActiveBy
<1>1. CASE pc \in Running /\ UNCHANGED <<workers, activeRequired, activeOptional>>
  BY <1>0, <1>1
<1>2. CASE ClientStep \/ ClockStep \/ StopStep \/ UNCHANGED vars
  BY <1>1, <1>2 DEF ClientStep, ClockStep, StopStep, SubmitRefresh, SubmitPopup,
     SubmitReset, Submit, RequestShutdown, TickClock, StepClock, ClocksMatter,
     BeginDrain, DrainWorkers, Stopped, vars, handlerVars, workVars
<1>3. CASE SelectStep
  BY <1>1, <1>3 DEF SelectStep, TakeRefresh, TakePopup, TakeScheduleReset,
     TakeScheduleDue, TakeCommand, Selecting, workVars
<1>4. CASE AdmitStep
  <2>1. PICK r \in todo : \/ AdmitUnknown(r) \/ AdmitCoalesced(r) \/ AdmitHistoryOnly(r)
                          \/ AdmitStarted(r) \/ AdmitQueued(r)
    BY <1>4 DEF AdmitStep
  <2>2. pc \in Running /\ r.trigger \in Trigger
    BY <2>1 DEF AdmitUnknown, AdmitCoalesced, AdmitHistoryOnly, AdmitStarted,
       AdmitQueued, Admitting, ActorTypeOK, Request
  <2>3. CASE AdmitUnknown(r) \/ AdmitCoalesced(r) \/ AdmitQueued(r)
    BY <1>1, <2>2, <2>3 DEF AdmitUnknown, AdmitCoalesced, AdmitQueued, workVars
  <2>4. CASE AdmitHistoryOnly(r) \/ AdmitStarted(r)
    BY <1>0, <2>2, <2>4, StartsRun DEF AdmitHistoryOnly, AdmitStarted, Admissible
  <2> QED
    BY <2>1, <2>3, <2>4
<1>5. CASE FillStep
  <2>1. CASE FillSlot
    <3>1. Head(pending) \in QueuedRequest
      BY <2>1 DEF FillSlot, ActorTypeOK
    <3> QED
      BY <1>0, <2>1, <3>1, StartsRun DEF FillSlot, QueuedRequest
  <2>2. CASE FillDone
    <3>1. /\ workers \subseteq workers' /\ enrich \subseteq workers'
          /\ activeRequired' = activeRequired /\ AllActiveRun
      BY <1>0, <2>2 DEF FillDone
    <3>2. ASSUME NEW s \in Scopes, activeOptional'[s] # None
          PROVE  \E w \in workers' : /\ w.kind = "optional" /\ w.scope = s
                                     /\ w.gen = activeOptional'[s]
      <4>1. CASE \E w \in enrich : w.scope = s
        <5>1. PICK w \in enrich : w.scope = s /\ activeOptional'[s] = w.gen
          BY <2>2, <4>1 DEF FillDone
        <5> QED
          BY <3>1, <5>1 DEF EnrichmentWaits
      <4>2. CASE ~ \E w \in enrich : w.scope = s
        BY <2>2, <3>1, <3>2, <4>2 DEF FillDone
      <4> QED
        BY <4>1, <4>2
    <3> QED
      BY <3>1, <3>2
  <2> QED
    BY <1>5, <2>1, <2>2 DEF FillStep
<1>6. CASE RequiredStep
  <2>1. PICK w \in workers : \E e : FinishRequired(w, e)
    BY <1>6, RequiredFinishes
  <2>2. /\ w.kind = "required" /\ workers' = workers \ {w}
        /\ activeRequired' = [activeRequired EXCEPT ![w.scope] = None]
        /\ activeOptional' = activeOptional /\ AllActiveRun
    BY <1>0, <2>1 DEF FinishRequired, Joined, Selecting
  <2> QED
    BY <1>0, <2>2
<1>7. CASE OptionalStep
  <2>1. PICK w \in workers : OptionalReturned(w) \/ OptionalFailed(w) \/ ReapSuperseded(w)
    BY <1>7 DEF OptionalStep
  <2>2. /\ w.kind = "optional" /\ workers' = workers \ {w}
        /\ activeRequired' = activeRequired /\ AllActiveRun
        /\ \/ activeOptional' = [activeOptional EXCEPT ![w.scope] = None]
           \/ activeOptional' = activeOptional /\ activeOptional[w.scope] # w.gen
    BY <1>0, <2>1 DEF OptionalReturned, OptionalFailed, ReapSuperseded,
       FinishOptional, Joined, Selecting, OptionalIsCurrent
  <2> QED
    BY <1>0, <2>2
<1> QED
  BY <1>2, <1>3, <1>4, <1>5, <1>6, <1>7 DEF Next

(* Until the drain, every active fetch and every current optional worker    *)
(* has a task that will be joined.                                          *)
LEMMA ActiveHasWorkerHolds == Spec => []ActiveHasWorker
<1>1. Init => ActiveHasWorker
  BY DEF Init, ActorInit, ActiveHasWorker
<1> QED
  BY <1>1, ActiveHasWorkerStep, ActorTypeCorrect, EnrichmentWaitsHolds, PTL DEF Spec

------------------------------------------------------------------------------
(* Backoff.  A queued request passed the cooldown and the minimum interval  *)
(* when it was admitted, and both stay passed while it waits: only the end  *)
(* of a fetch of its scope sets a cooldown and only the start of one counts *)
(* as an attempt, and neither happens to a queued scope.                    *)

Passed(r) == ~Cooling(r) /\ ~WithinFloor(r)

QueuedPassed == \A i \in 1 .. Len(pending) : Passed(pending[i])

(* The backoff of a scope is set by the end of its fetch alone, and its     *)
(* last attempt by the start of one; time only advances.                    *)
LEMMA BackoffSteps ==
    ASSUME ActorTypeOK, [Next]_vars, NEW s \in Scopes
    PROVE  /\ mono' >= mono
           /\ activeRequired[s] # None \/ cooldowns'[s] = cooldowns[s]
           /\ \/ lastAttempts'[s] = lastAttempts[s]
              \/ \E r \in todo : AdmitStarted(r) /\ r.scope = s
              \/ FillSlot /\ Head(pending).scope = s
<1>0. /\ mono \in Nat /\ cooldowns \in [Scopes -> Nat] /\ lastAttempts \in [Scopes -> Nat]
      /\ activeRequired \in [Scopes -> Nat]
      /\ \A w \in workers : w.scope \in Scopes /\ w.gen \in Nat \ {0}
  BY DEF ActorTypeOK, SchedulerTypeOK, Worker
<1>1. CASE UNCHANGED <<mono, cooldowns, lastAttempts>>
  BY <1>0, <1>1
<1>2. CASE ClientStep \/ StopStep \/ UNCHANGED vars
  BY <1>1, <1>2 DEF ClientStep, StopStep, SubmitRefresh, SubmitPopup,
     SubmitReset, Submit, RequestShutdown, BeginDrain, DrainWorkers, Stopped,
     vars, clockVars, backoffVars
<1>3. CASE ClockStep
  BY <1>0, <1>3 DEF ClockStep, TickClock, StepClock, ClocksMatter, Tick,
     StepWall, backoffVars
<1>4. CASE SelectStep
  BY <1>1, <1>4 DEF SelectStep, TakeRefresh, TakePopup, TakeScheduleReset,
     TakeScheduleDue, TakeCommand, clockVars, backoffVars
<1>5. CASE AdmitStep
  <2>1. PICK r \in todo : \/ AdmitUnknown(r) \/ AdmitCoalesced(r) \/ AdmitHistoryOnly(r)
                          \/ AdmitStarted(r) \/ AdmitQueued(r)
    BY <1>5 DEF AdmitStep
  <2>2. UNCHANGED <<mono, cooldowns>>
    BY <2>1 DEF AdmitUnknown, AdmitCoalesced, AdmitHistoryOnly, AdmitStarted,
       AdmitQueued, Admitting, clockVars, backoffVars
  <2>3. CASE ~AdmitStarted(r)
    BY <1>1, <2>1, <2>2, <2>3 DEF AdmitUnknown, AdmitCoalesced, AdmitHistoryOnly, AdmitQueued
  <2>4. CASE AdmitStarted(r)
    <3>1. lastAttempts' = [lastAttempts EXCEPT ![r.scope] = mono]
      BY <2>4 DEF AdmitStarted, StartRequired
    <3> QED
      BY <1>0, <2>2, <2>4, <3>1
  <2> QED
    BY <2>3, <2>4
<1>6. CASE FillStep
  <2>1. CASE FillDone
    BY <1>1, <2>1 DEF FillDone, clockVars, backoffVars
  <2>2. CASE FillSlot
    BY <1>0, <2>2 DEF FillSlot, StartRequired, clockVars, backoffVars
  <2> QED
    BY <1>6, <2>1, <2>2 DEF FillStep
<1>7. CASE RequiredStep
  <2>1. PICK w \in workers : \/ RequiredSucceeded(w) \/ RequiredMismatched(w)
                             \/ RequiredFailed(w) \/ RequiredPanicked(w)
    BY <1>7 DEF RequiredStep
  <2>2. \E e : FinishRequired(w, e)
    BY <2>1, SuccessCases DEF Success, RequiredMismatched, RequiredFailed, RequiredPanicked
  <2>3. UNCHANGED <<mono, lastAttempts>> /\ activeRequired[w.scope] # None
    BY <1>0, <2>2 DEF FinishRequired, Joined, RequiredIsCurrent, clockVars, None
  <2>4. cooldowns' = cooldowns \/ \E new : cooldowns' = [cooldowns EXCEPT ![w.scope] = new]
    <3>1. ASSUME NEW error, NEW retryAfter, RecordAutomaticBackoff(w.scope, error, retryAfter)
          PROVE  \E new : cooldowns' = [cooldowns EXCEPT ![w.scope] = new]
      BY <3>1 DEF RecordAutomaticBackoff
    <3>2. CASE RequiredSucceeded(w)
      BY <3>2, SuccessCases DEF Success, ClearBackoff
    <3>3. CASE RequiredMismatched(w)
      BY <3>3 DEF RequiredMismatched, backoffVars
    <3>4. CASE RequiredFailed(w) \/ RequiredPanicked(w)
      BY <3>1, <3>4 DEF RequiredFailed, RequiredPanicked
    <3> QED
      BY <2>1, <3>2, <3>3, <3>4
  <2> QED
    BY <1>0, <2>3, <2>4
<1>8. CASE OptionalStep
  BY <1>1, <1>8 DEF OptionalStep, OptionalReturned, OptionalFailed,
     ReapSuperseded, FinishOptional, Joined, clockVars, backoffVars
<1> QED
  BY <1>2, <1>3, <1>4, <1>5, <1>6, <1>7, <1>8 DEF Next

(* Waiting in the queue does not undo the checks of admission. *)
LEMMA QueuedPassedStep ==
    ASSUME ActorTypeOK, PendingConsistent, QueuedPassed, [Next]_vars
    PROVE  QueuedPassed'
<1> SUFFICES ASSUME NEW i \in 1 .. Len(pending')
             PROVE  Passed(pending[i])'
  BY DEF QueuedPassed
<1>0. /\ pending \in Seq(QueuedRequest) /\ Len(pending) \in Nat
      /\ mono \in Nat /\ cooldowns \in [Scopes -> Nat] /\ lastAttempts \in [Scopes -> Nat]
      /\ MinInterval \in [Scopes -> Nat]
  BY ActorAssumption DEF ActorTypeOK, SchedulerTypeOK
<1>0a. \A j \in 1 .. Len(pending) : /\ pending[j] \in QueuedRequest
                                   /\ pending[j].scope \in Scopes
                                   /\ pending[j].scope \in pendingScopes
  <2>1. \A j \in 1 .. Len(pending) : pending[j] \in QueuedRequest
    BY <1>0
  <2> QED
    BY <2>1 DEF QueuedRequest, PendingConsistent
<1>1. ASSUME NEW j \in 1 .. Len(pending), pending'[i] = pending[j],
             lastAttempts'[pending[j].scope] = lastAttempts[pending[j].scope]
      PROVE  Passed(pending[i])'
  <2> DEFINE r == pending[j]
  <2>1. r \in QueuedRequest /\ r.scope \in Scopes /\ Passed(r)
    BY <1>0a DEF QueuedPassed
  <2>2. activeRequired[r.scope] = None
    BY DEF PendingConsistent
  <2>3. cooldowns'[r.scope] = cooldowns[r.scope] /\ mono' >= mono /\ mono' \in Nat
    <3>1. mono' \in Nat
      BY ActorTypeStep DEF ActorTypeOK, SchedulerTypeOK
    <3> QED
      BY <2>1, <2>2, <3>1, BackoffSteps
  <2>4. cooldowns[r.scope] \in Nat /\ lastAttempts[r.scope] \in Nat /\ MinInterval[r.scope] \in Nat
    BY <1>0, <2>1
  <2>5. Passed(r) /\ lastAttempts'[r.scope] = lastAttempts[r.scope] /\ pending'[i] = r
    BY <1>1, <2>1
  <2> HIDE DEF r
  <2> QED
    BY <1>0, <2>3, <2>4, <2>5 DEF Passed, Cooling, WithinFloor
<1>2. CASE UNCHANGED <<pending, pendingScopes, activeRequired>>
  <2>1. /\ i \in 1 .. Len(pending) /\ pending'[i] = pending[i]
        /\ pending[i].scope \in pendingScopes /\ pending[i].scope \in Scopes
    BY <1>0a, <1>2
  <2>2. ASSUME NEW r \in todo, AdmitStarted(r) PROVE r.scope # pending[i].scope
    BY <2>1, <2>2 DEF AdmitStarted, Admissible, Busy
  <2>3. ~FillSlot
    <3> SUFFICES ASSUME FillSlot PROVE FALSE
      OBVIOUS
    <3>1. pending # <<>> /\ Len(pending') = Len(pending) - 1
      BY <1>0 DEF FillSlot
    <3> QED
      BY <1>0, <1>2, <3>1
  <2> QED
    BY <1>1, <2>1, <2>2, <2>3, BackoffSteps
<1>3. ASSUME NEW r \in todo, AdmitStarted(r) PROVE Passed(pending[i])'
  <2>1. pending' = pending /\ r.scope \notin pendingScopes /\ r.scope \in Scopes
    BY <1>3 DEF AdmitStarted, Admissible, Busy, queueVars
  <2>2. i \in 1 .. Len(pending) /\ pending[i].scope \in pendingScopes
        /\ pending[i].scope \in Scopes
    BY <1>0a, <2>1
  <2>3. lastAttempts'[pending[i].scope] = lastAttempts[pending[i].scope]
    BY <1>0, <1>3, <2>1, <2>2 DEF AdmitStarted, StartRequired
  <2> QED
    BY <1>1, <2>1, <2>2, <2>3
<1>4. ASSUME NEW r \in todo, AdmitQueued(r) PROVE Passed(pending[i])'
  <2>1. /\ Passed(r) /\ pending' = Append(pending, r) /\ lastAttempts' = lastAttempts
        /\ UNCHANGED <<mono, cooldowns>>
    BY <1>4 DEF AdmitQueued, Admissible, Admitting, Passed, clockVars, backoffVars
  <2>2. CASE i \in 1 .. Len(pending)
    BY <1>0, <1>1, <2>1, <2>2
  <2>3. CASE i = Len(pending) + 1
    <3>1. pending'[i] = r
      BY <1>0, <2>1, <2>3
    <3> QED
      BY <2>1, <3>1 DEF Passed, Cooling, WithinFloor
  <2> QED
    BY <1>0, <2>1, <2>2, <2>3
<1>5. CASE FillSlot
  <2>1. pending # <<>> /\ pending' = Tail(pending)
    BY <1>5 DEF FillSlot
  <2>2. /\ i + 1 \in 1 .. Len(pending) /\ pending'[i] = pending[i + 1]
        /\ Head(pending) = pending[1] /\ 1 \in 1 .. Len(pending) /\ i + 1 # 1
    BY <1>0, <2>1
  <2>3. pending[i + 1].scope # Head(pending).scope
    BY <2>2 DEF PendingConsistent
  <2>4. lastAttempts'[pending[i + 1].scope] = lastAttempts[pending[i + 1].scope]
    BY <1>0, <1>5, <2>3 DEF FillSlot, StartRequired
  <2> QED
    BY <1>1, <2>2, <2>4
<1>6. ASSUME NEW w \in workers, NEW e, FinishRequired(w, e) PROVE Passed(pending[i])'
  BY <1>0, <1>1, <1>6 DEF FinishRequired, Joined, queueVars
<1> QED
  BY <1>2, <1>3, <1>4, <1>5, <1>6, QueueSteps

(* A queued request stays past its cooldown and its minimum interval. *)
LEMMA QueuedPassedHolds == Spec => []QueuedPassed
<1>1. Init => QueuedPassed
  BY DEF Init, ActorInit, QueuedPassed
<1> QED
  BY <1>1, QueuedPassedStep, ActorTypeCorrect, PendingConsistentHolds, PTL DEF Spec

(* The step that starts a fetch admits a request or takes one off the queue. *)
LEMMA FetchStarters ==
    ASSUME ActorTypeOK, EnrichmentWaits, [Next]_vars,
           NEW w \in workers' \ workers, w.kind = "required"
    PROVE  \/ \E r \in todo : /\ AdmitStarted(r)
                               /\ w.scope = r.scope /\ w.trigger = r.trigger
           \/ /\ FillSlot
              /\ w.scope = Head(pending).scope /\ w.trigger = Head(pending).trigger
<1>1. ASSUME NEW s, NEW trigger, StartRequired(s, trigger)
      PROVE  w.scope = s /\ w.trigger = trigger
  BY <1>1 DEF StartRequired, RequiredWorker, HistoryWorker
<1>2. CASE workers' \subseteq workers
  BY <1>2
<1>3. CASE ClientStep \/ ClockStep \/ StopStep \/ UNCHANGED vars
  BY <1>2, <1>3 DEF ClientStep, ClockStep, StopStep, SubmitRefresh, SubmitPopup,
     SubmitReset, Submit, RequestShutdown, TickClock, StepClock, ClocksMatter,
     BeginDrain, DrainWorkers, Stopped, vars, workVars
<1>4. CASE SelectStep
  BY <1>2, <1>4 DEF SelectStep, TakeRefresh, TakePopup, TakeScheduleReset,
     TakeScheduleDue, TakeCommand, workVars
<1>5. CASE AdmitStep
  <2>1. PICK r \in todo : \/ AdmitUnknown(r) \/ AdmitCoalesced(r) \/ AdmitHistoryOnly(r)
                          \/ AdmitStarted(r) \/ AdmitQueued(r)
    BY <1>5 DEF AdmitStep
  <2>2. CASE AdmitUnknown(r) \/ AdmitCoalesced(r) \/ AdmitQueued(r)
    BY <1>2, <2>2 DEF AdmitUnknown, AdmitCoalesced, AdmitQueued, workVars
  <2>3. CASE AdmitHistoryOnly(r)
    BY <2>3 DEF AdmitHistoryOnly, StartHistoryOnly, HistoryWorker, workVars
  <2>4. CASE AdmitStarted(r)
    BY <1>1, <2>4 DEF AdmitStarted
  <2> QED
    BY <2>1, <2>2, <2>3, <2>4
<1>6. CASE FillStep
  BY <1>1, <1>6 DEF FillStep, FillSlot, FillDone, EnrichmentWaits
<1>7. CASE RequiredStep
  BY <1>2, <1>7, RequiredFinishes DEF FinishRequired, Joined
<1>8. CASE OptionalStep
  BY <1>2, <1>8 DEF OptionalStep, OptionalReturned, OptionalFailed,
     ReapSuperseded, FinishOptional, Joined
<1> QED
  BY <1>3, <1>4, <1>5, <1>6, <1>7, <1>8 DEF Next

(* No automatic fetch starts inside its scope's cooldown, and no periodic   *)
(* one before the minimum interval since the last attempt, however long it  *)
(* was queued and whatever happened to other scopes meanwhile.              *)
THEOREM AutomaticStartsHonourBackoffHolds == Spec => AutomaticStartsHonourBackoff
<1> DEFINE Honoured ==
      \A w \in {v \in workers' \ workers : v.kind = "required"} :
          /\ w.trigger # "Manual" => cooldowns[w.scope] <= mono
          /\ w.trigger = "Periodic" /\ lastAttempts[w.scope] # None
                => lastAttempts[w.scope] + MinInterval[w.scope] <= mono
<1>1. ActorTypeOK /\ EnrichmentWaits /\ QueuedPassed /\ [Next]_vars => [Honoured]_vars
  <2> SUFFICES ASSUME ActorTypeOK, EnrichmentWaits, QueuedPassed, Next,
                      NEW w \in workers' \ workers, w.kind = "required"
               PROVE  /\ w.trigger # "Manual" => cooldowns[w.scope] <= mono
                      /\ w.trigger = "Periodic" /\ lastAttempts[w.scope] # None
                            => lastAttempts[w.scope] + MinInterval[w.scope] <= mono
    OBVIOUS
  <2>1. PICK r \in [scope : Scopes, trigger : Trigger] :
           Passed(r) /\ w.scope = r.scope /\ w.trigger = r.trigger
    <3>1. ASSUME NEW r \in todo, AdmitStarted(r)
          PROVE  Passed(r) /\ r \in [scope : Scopes, trigger : Trigger]
      BY <3>1 DEF AdmitStarted, Admissible, Passed, ActorTypeOK, Request
    <3>2. ASSUME FillSlot
          PROVE  Passed(Head(pending)) /\ Head(pending) \in [scope : Scopes, trigger : Trigger]
      <4>1. pending \in Seq(QueuedRequest) /\ pending # <<>>
        BY <3>2 DEF FillSlot, ActorTypeOK
      <4>2. Head(pending) = pending[1] /\ 1 \in 1 .. Len(pending) /\ pending[1] \in QueuedRequest
        BY <4>1
      <4> QED
        BY <4>2 DEF QueuedPassed, QueuedRequest
    <3> QED
      BY <3>1, <3>2, FetchStarters
  <2>2. /\ cooldowns[r.scope] \in Nat /\ lastAttempts[r.scope] \in Nat /\ mono \in Nat
        /\ MinInterval[r.scope] \in Nat
    BY ActorAssumption DEF ActorTypeOK, SchedulerTypeOK
  <2> QED
    BY <2>1, <2>2 DEF Passed, Cooling, WithinFloor
<1> QED
  BY <1>1, ActorTypeCorrect, EnrichmentWaitsHolds, QueuedPassedHolds, PTL
     DEF Spec, AutomaticStartsHonourBackoff

------------------------------------------------------------------------------
(* What the actor publishes: no snapshot the domain rejects, no refresh     *)
(* that nothing ends, no ledger of another fetch; and that it drives its    *)
(* scheduler as SchedulerMachine does.                                      *)

(* A change of one scope's snapshot: inside a fetch or outside of one, at   *)
(* the start of a fetch, or at its end.                                     *)
OptionalChange(s) ==
    \/ s \in HistoryScopes
    \/ activeOptional'[s] \in {activeOptional[s], None}
    \/ \E w \in enrich : w.scope = s /\ activeOptional'[s] = w.gen

QuietChange(s) ==
    LET current == snapshots[s]
    IN  /\ activeRequired'[s] = activeRequired[s]
        /\ OptionalChange(s)
        /\ \/ snapshots'[s] = current
           \/ \E at \in Nat : snapshots'[s] = MarkScheduled(current, at)
           \/ \E state \in LocalHistoryState :
                 snapshots'[s] = MarkHistoryState(current, state)
           \/ /\ s \in HistoryScopes
              /\ \E state \in LocalHistoryState, data \in Nat :
                    snapshots'[s] = ApplyLocalHistory(current, state, data)
           \/ /\ s \notin HistoryScopes
              /\ activeOptional[s] # None
              /\ \E base \in Nat :
                    snapshots'[s] = ApplyCostUsage(current, base, activeOptional[s])

FetchStarts(s) ==
    LET marked == MarkRefreshing(snapshots[s], wall)
    IN  /\ activeRequired'[s] # None
        /\ s \notin HistoryScopes => activeOptional'[s] = None
        /\ snapshots'[s] \in {marked, MarkHistoryState(marked, "Scanning")}

FetchEnds(s) ==
    /\ activeRequired[s] # None
    /\ \E w \in RequiredWorkers \ workers' : w.scope = s
    /\ activeOptional'[s] = activeOptional[s]
    /\ \/ \E sample \in Sample, window \in BOOLEAN :
             /\ sample.cost \in {None, sample.gen}
             /\ sample.reset \in Boundaries \cup {None}
             /\ snapshots'[s] = ApplySuccess(snapshots[s], sample, window, wall)
       \/ \E error \in ErrorKind, retryAfter \in Nat :
             snapshots'[s] = ApplyFailure(snapshots[s], error, retryAfter, wall)

SnapshotChange(s) == QuietChange(s) \/ FetchStarts(s) \/ FetchEnds(s)

(* start_required changes the snapshot of its scope only. *)
LEMMA StartChanges ==
    ASSUME ActorTypeOK, NEW s \in Scopes, NEW trigger \in Trigger,
           StartRequired(s, trigger), NEW t \in Scopes
    PROVE  SnapshotChange(t)
<1> DEFINE g == NextGeneration(s)
<1>1. g # None
  BY DEF NextGeneration, ActorTypeOK, None
<1>2. CASE t = s
  <2>1. activeRequired'[t] = g
    BY <1>2 DEF StartRequired, ActorTypeOK
  <2>2. snapshots'[t] \in {MarkRefreshing(snapshots[t], wall),
                           MarkHistoryState(MarkRefreshing(snapshots[t], wall), "Scanning")}
    BY <1>2 DEF StartRequired, ActorTypeOK
  <2>3. t \notin HistoryScopes => activeOptional'[t] = None
    BY <1>2 DEF StartRequired, KeepsScan, ActorTypeOK
  <2> QED
    BY <1>1, <2>1, <2>2, <2>3 DEF SnapshotChange, FetchStarts
<1>3. CASE t # s
  BY <1>3 DEF StartRequired, ActorTypeOK, SnapshotChange, QuietChange, OptionalChange
<1> QED
  BY <1>2, <1>3

(* Every step of the actor changes each snapshot in one of these ways. *)
LEMMA SnapshotChanges ==
    ASSUME ActorTypeOK, [Next]_vars, NEW s \in Scopes
    PROVE  SnapshotChange(s)
<1> USE SchedulerAssumption, ActorAssumption
<1>0. /\ wall \in Nat /\ snapshots \in [Scopes -> ProviderSnapshot]
      /\ activeRequired \in [Scopes -> Nat] /\ activeOptional \in [Scopes -> Nat]
  BY DEF ActorTypeOK, SchedulerTypeOK
<1>1. CASE UNCHANGED <<activeRequired, activeOptional, snapshots>>
  BY <1>1 DEF SnapshotChange, QuietChange, OptionalChange
<1>2. CASE ClientStep \/ ClockStep \/ StopStep \/ UNCHANGED vars
  BY <1>1, <1>2 DEF ClientStep, ClockStep, StopStep, SubmitRefresh, SubmitPopup,
     SubmitReset, Submit, RequestShutdown, TickClock, StepClock, ClocksMatter,
     BeginDrain, DrainWorkers, Stopped, vars, workVars
<1>3. CASE SelectStep
  <2>1. CASE TakeScheduleReset
    <3> DEFINE b == Head(commands).boundary
    <3>1. activeRequired' = activeRequired /\ activeOptional' = activeOptional
      BY <2>1 DEF TakeScheduleReset, TakeCommand, workVars
    <3>2. b \in Nat
      <4>1. Head(commands) \in RuntimeCommand /\ Head(commands).op = "reset"
        BY <2>1 DEF TakeScheduleReset, TakeCommand, ActorTypeOK
      <4> QED
        BY <4>1 DEF RuntimeCommand, Refresh, Popup, Reset
    <3>3. snapshots'[s] = snapshots[s] \/ snapshots'[s] = MarkScheduled(snapshots[s], b)
      BY <1>0, <2>1 DEF TakeScheduleReset
    <3> QED
      BY <3>1, <3>2, <3>3 DEF SnapshotChange, QuietChange, OptionalChange
  <2>2. CASE TakeRefresh \/ TakePopup \/ TakeScheduleDue
    BY <1>1, <2>2 DEF TakeRefresh, TakePopup, TakeScheduleDue, TakeCommand, workVars
  <2> QED
    BY <1>3, <2>1, <2>2 DEF SelectStep
<1>4. CASE AdmitStep
  <2>1. PICK r \in todo : \/ AdmitUnknown(r) \/ AdmitCoalesced(r) \/ AdmitHistoryOnly(r)
                          \/ AdmitStarted(r) \/ AdmitQueued(r)
    BY <1>4 DEF AdmitStep
  <2>2. r.trigger \in Trigger
    BY DEF ActorTypeOK, Request
  <2>3. CASE AdmitUnknown(r) \/ AdmitCoalesced(r)
    BY <1>1, <2>3 DEF AdmitUnknown, AdmitCoalesced, workVars
  <2>4. CASE AdmitHistoryOnly(r)
    <3>1. activeRequired' = activeRequired /\ OptionalChange(s)
      BY <1>0, <2>4 DEF AdmitHistoryOnly, StartHistoryOnly, workVars, OptionalChange
    <3>2. snapshots'[s] = snapshots[s]
          \/ snapshots'[s] = MarkHistoryState(snapshots[s], "Scanning")
      BY <1>0, <2>4 DEF AdmitHistoryOnly, StartHistoryOnly
    <3> QED
      BY <3>1, <3>2 DEF SnapshotChange, QuietChange, LocalHistoryState
  <2>5. CASE AdmitStarted(r)
    BY <2>2, <2>5, StartChanges DEF AdmitStarted, Admissible
  <2>6. CASE AdmitQueued(r)
    <3>1. activeRequired' = activeRequired /\ activeOptional' = activeOptional
      BY <2>6 DEF AdmitQueued, workVars
    <3>2. snapshots'[s] = snapshots[s] \/ snapshots'[s] = MarkScheduled(snapshots[s], wall)
      BY <1>0, <2>6 DEF AdmitQueued
    <3> QED
      BY <1>0, <3>1, <3>2 DEF SnapshotChange, QuietChange, OptionalChange
  <2> QED
    BY <2>1, <2>3, <2>4, <2>5, <2>6
<1>5. CASE FillStep
  <2>1. CASE FillSlot
    <3>1. Head(pending) \in QueuedRequest
      BY <2>1 DEF FillSlot, ActorTypeOK
    <3>2. Head(pending).scope \in Scopes /\ Head(pending).trigger \in Trigger
      BY <3>1 DEF QueuedRequest
    <3> QED
      BY <2>1, <3>2, StartChanges DEF FillSlot
  <2>2. CASE FillDone
    <3>1. OptionalChange(s)
      BY <1>0, <2>2 DEF FillDone, OptionalChange
    <3> QED
      BY <2>2, <3>1 DEF FillDone, SnapshotChange, QuietChange
  <2> QED
    BY <1>5, <2>1, <2>2 DEF FillStep
<1>6. CASE RequiredStep
  <2>1. PICK w \in workers : \/ RequiredSucceeded(w) \/ RequiredMismatched(w)
                             \/ RequiredFailed(w) \/ RequiredPanicked(w)
    BY <1>6 DEF RequiredStep
  <2>2. w.scope \in Scopes /\ w.gen \in Nat \ {0}
    BY DEF ActorTypeOK, Worker
  <2>3. \E e : FinishRequired(w, e)
    BY <2>1, SuccessCases DEF Success, RequiredMismatched, RequiredFailed, RequiredPanicked
  <2>4. CASE s # w.scope
    <3>1. activeRequired'[s] = activeRequired[s] /\ OptionalChange(s)
      BY <1>0, <2>3, <2>4 DEF FinishRequired, OptionalChange
    <3>2. snapshots'[s] = snapshots[s]
      <4>1. \E new : snapshots' = [snapshots EXCEPT ![w.scope] = new]
        BY <2>1, SuccessCases DEF Success, RequiredMismatched, RequiredFailed, RequiredPanicked
      <4> QED
        BY <1>0, <2>4, <4>1
    <3> QED
      BY <3>1, <3>2 DEF SnapshotChange, QuietChange
  <2>5. CASE s = w.scope
    <3>0. /\ activeRequired[s] # None /\ activeOptional'[s] = activeOptional[s]
          /\ \E v \in RequiredWorkers \ workers' : v.scope = s
      BY <1>0, <2>2, <2>3, <2>5 DEF FinishRequired, Joined, RequiredIsCurrent,
         RequiredWorkers, None
    <3>1. CASE RequiredSucceeded(w)
      <4>1. PICK at \in SampleTimes, cost \in {None, w.gen},
                 reset \in Boundaries \cup {None}, window \in BOOLEAN :
                 Success(w, at, cost, reset, window)
        BY <3>1, SuccessCases
      <4>2. SuccessSample(w, at, cost, reset) \in Sample
        <5>1. cost \in Nat /\ reset \in Nat /\ at \in Nat
          BY <2>2 DEF None
        <5> QED
          BY <2>2, <5>1 DEF SuccessSample, Sample
      <4>3. snapshots'[s] = ApplySuccess(snapshots[s], SuccessSample(w, at, cost, reset), window, wall)
        BY <1>0, <2>5, <4>1 DEF Success, SuccessResult
      <4>4. SuccessSample(w, at, cost, reset).cost
               \in {None, SuccessSample(w, at, cost, reset).gen}
            /\ SuccessSample(w, at, cost, reset).reset \in Boundaries \cup {None}
        BY DEF SuccessSample
      <4> QED
        BY <3>0, <4>2, <4>3, <4>4 DEF SnapshotChange, FetchEnds
    <3>2. CASE RequiredMismatched(w) \/ RequiredPanicked(w)
      <4>1. \E error \in {"Parse", "ProviderUnavailable"} :
               snapshots'[s] = ApplyFailure(snapshots[s], error, None, wall)
        BY <1>0, <2>5, <3>2 DEF RequiredMismatched, RequiredPanicked
      <4>2. "Parse" \in ErrorKind /\ "ProviderUnavailable" \in ErrorKind /\ None \in Nat
        BY DEF ErrorKind, AutomaticErrors, None
      <4> QED
        BY <3>0, <4>1, <4>2 DEF SnapshotChange, FetchEnds
    <3>3. CASE RequiredFailed(w)
      <4>1. \E error \in ErrorKinds, retryAfter \in RetryAfters :
               snapshots'[s] = ApplyFailure(snapshots[s], error, retryAfter, wall)
        BY <1>0, <2>5, <3>3 DEF RequiredFailed
      <4> QED
        BY <3>0, <4>1 DEF SnapshotChange, FetchEnds
    <3> QED
      BY <2>1, <3>1, <3>2, <3>3
  <2> QED
    BY <2>4, <2>5
<1>7. CASE OptionalStep
  <2>1. PICK w \in workers : OptionalReturned(w) \/ OptionalFailed(w) \/ ReapSuperseded(w)
    BY <1>7 DEF OptionalStep
  <2>2. w.scope \in Scopes /\ w.gen \in Nat \ {0} /\ w.base \in Nat
    BY DEF ActorTypeOK, Worker
  <2>3. activeRequired' = activeRequired /\ OptionalChange(s)
    BY <1>0, <2>1 DEF OptionalReturned, OptionalFailed, ReapSuperseded,
       FinishOptional, OptionalChange
  <2>4. CASE OptionalReturned(w)
    <3>1. PICK data \in {None, w.gen} :
             snapshots' = [snapshots EXCEPT ![w.scope] =
               IF w.scope \in HistoryScopes
               THEN ApplyLocalHistory(@, IF data = None THEN "Empty" ELSE "Ready", data)
               ELSE IF data = None THEN @ ELSE ApplyCostUsage(@, w.base, data)]
      BY <2>4 DEF OptionalReturned
    <3>2. data \in Nat
      BY <2>2 DEF None
    <3>3. CASE s # w.scope
      BY <1>0, <2>3, <3>1, <3>3 DEF SnapshotChange, QuietChange
    <3>4. CASE s = w.scope /\ s \in HistoryScopes
      <4>1. PICK state \in LocalHistoryState :
               snapshots'[s] = ApplyLocalHistory(snapshots[s], state, data)
        BY <1>0, <3>1, <3>4 DEF LocalHistoryState
      <4> QED
        BY <2>3, <3>2, <3>4, <4>1 DEF SnapshotChange, QuietChange
    <3>5. CASE s = w.scope /\ s \notin HistoryScopes
      <4>1. activeOptional[s] = w.gen /\ activeOptional[s] # None
        BY <2>2, <2>4, <3>5 DEF OptionalReturned, FinishOptional, OptionalIsCurrent, None
      <4>2. snapshots'[s] = snapshots[s]
            \/ snapshots'[s] = ApplyCostUsage(snapshots[s], w.base, activeOptional[s])
        BY <1>0, <3>1, <3>5, <4>1
      <4> QED
        BY <2>2, <2>3, <3>5, <4>1, <4>2 DEF SnapshotChange, QuietChange
    <3> QED
      BY <3>3, <3>4, <3>5
  <2>5. CASE OptionalFailed(w)
    <3>1. snapshots'[s] = snapshots[s]
          \/ snapshots'[s] = MarkHistoryState(snapshots[s], "Failed")
      BY <1>0, <2>5 DEF OptionalFailed
    <3> QED
      BY <2>3, <3>1 DEF SnapshotChange, QuietChange, LocalHistoryState
  <2>6. CASE ReapSuperseded(w)
    BY <1>1, <2>6 DEF ReapSuperseded
  <2> QED
    BY <2>1, <2>4, <2>5, <2>6
<1> QED
  BY <1>2, <1>3, <1>4, <1>5, <1>6, <1>7 DEF Next

------------------------------------------------------------------------------
(* Every store transition yields a snapshot that the domain accepts: the    *)
(* staleness of an overlay is clamped to the time of the fetch it overlays. *)
LEMMA TransitionsValid ==
    ASSUME NEW current \in ProviderSnapshot, IsValid(current), NEW now \in Nat \ {0}
    PROVE  /\ \A sample \in Sample, window \in BOOLEAN :
                 IsValid(ApplySuccess(current, sample, window, now))
           /\ \A error \in ErrorKind, retryAfter \in Nat :
                 IsValid(ApplyFailure(current, error, retryAfter, now))
           /\ \A state \in LocalHistoryState, data \in Nat :
                 IsValid(ApplyLocalHistory(current, state, data))
           /\ \A state \in LocalHistoryState : IsValid(MarkHistoryState(current, state))
           /\ \A base, data \in Nat : IsValid(ApplyCostUsage(current, base, data))
           /\ \A at \in Nat : IsValid(MarkScheduled(current, at))
           /\ IsValid(MarkRefreshing(current, now))
<1> USE DEF IsValid, HasSample
<1>1. ASSUME NEW sample \in Sample, NEW window \in BOOLEAN
      PROVE  IsValid(ApplySuccess(current, sample, window, now))
  BY DEF ApplySuccess, KeepHistory, Ready, Loading, None
<1>2. ASSUME NEW error \in ErrorKind, NEW retryAfter \in Nat
      PROVE  IsValid(ApplyFailure(current, error, retryAfter, now))
  <2>1. current.sample.fetchedAt \in Nat
    BY DEF ProviderSnapshot, Sample
  <2>2. /\ Later(now, current.sample.fetchedAt) >= current.sample.fetchedAt
        /\ Later(now, current.sample.fetchedAt) # 0
        /\ error \in AutomaticErrors => error # NoError
    BY <2>1 DEF Later, AutomaticErrors, NoError
  <2> QED
    BY <2>1, <2>2 DEF ApplyFailure, KeepHistory, Ready, Unavailable, Loading, None
<1>3. ASSUME NEW state \in LocalHistoryState, NEW data \in Nat
      PROVE  IsValid(ApplyLocalHistory(current, state, data))
  BY DEF ApplyLocalHistory, ProviderSnapshot, Sample
<1>4. ASSUME NEW state \in LocalHistoryState
      PROVE  IsValid(MarkHistoryState(current, state))
  BY <1>3 DEF MarkHistoryState, ProviderSnapshot
<1>5. ASSUME NEW base \in Nat, NEW data \in Nat
      PROVE  IsValid(ApplyCostUsage(current, base, data))
  BY DEF ApplyCostUsage, ProviderSnapshot, Sample
<1>6. /\ \A at \in Nat : IsValid(MarkScheduled(current, at))
      /\ IsValid(MarkRefreshing(current, now))
  BY DEF MarkScheduled, MarkRefreshing, SetReadyRefreshPhase, ProviderSnapshot
<1> QED
  BY <1>1, <1>2, <1>3, <1>4, <1>5, <1>6

(* Every publication of a valid store is valid. *)
LEMMA NoRuntimeFaultStep ==
    ASSUME ActorTypeOK, NoRuntimeFault, [Next]_vars
    PROVE  NoRuntimeFault'
<1> SUFFICES ASSUME NEW s \in Scopes
             PROVE  IsValid(snapshots'[s])
  BY DEF NoRuntimeFault
<1>1. SnapshotChange(s)
  BY SnapshotChanges
<1>2. /\ snapshots[s] \in ProviderSnapshot /\ IsValid(snapshots[s]) /\ wall \in Nat \ {0}
      /\ "Scanning" \in LocalHistoryState
  BY DEF ActorTypeOK, SchedulerTypeOK, NoRuntimeFault, LocalHistoryState
<1>3. CASE QuietChange(s)
  <2>1. activeOptional[s] \in Nat
    BY DEF ActorTypeOK
  <2> QED
    BY <1>2, <1>3, <2>1, TransitionsValid DEF QuietChange
<1>4. CASE FetchStarts(s)
  <2> DEFINE marked == MarkRefreshing(snapshots[s], wall)
  <2>1. IsValid(marked) /\ marked \in ProviderSnapshot
    BY <1>2, TransitionsValid, MarkTypes
  <2> HIDE DEF marked
  <2>2. IsValid(MarkHistoryState(marked, "Scanning"))
    BY <1>2, <2>1, TransitionsValid
  <2> QED
    BY <1>4, <2>1, <2>2 DEF FetchStarts, marked
<1>5. CASE FetchEnds(s)
  BY <1>2, <1>5, TransitionsValid DEF FetchEnds
<1> QED
  BY <1>1, <1>3, <1>4, <1>5 DEF SnapshotChange

(* No publication ends the actor with a RuntimeFault, whatever the wall     *)
(* clock does and however far in the future a provider dates its sample.    *)
THEOREM NoRuntimeFaultHolds == Spec => []NoRuntimeFault
<1>1. Init => NoRuntimeFault
  <2> SUFFICES ASSUME Init, NEW s \in Scopes PROVE IsValid(snapshots[s])
    BY DEF NoRuntimeFault
  <2>1. snapshots[s] = StartSnapshot(s, Loading, wall)
    BY DEF Init, ActorInit
  <2> QED
    BY <2>1 DEF StartSnapshot, Restore, ApplyLocalHistory, HasSample, Loading, IsValid
<1> QED
  BY <1>1, NoRuntimeFaultStep, ActorTypeCorrect, PTL DEF Spec

(* The end of a fetch takes Refreshing back. *)
LEMMA NeverStuckRefreshingStep ==
    ASSUME ActorTypeOK, NeverStuckRefreshing, [Next]_vars
    PROVE  NeverStuckRefreshing'
<1> SUFFICES ASSUME NEW s \in Scopes, snapshots'[s].phase = "Refreshing"
             PROVE  activeRequired'[s] # None
  BY DEF NeverStuckRefreshing
<1>1. SnapshotChange(s)
  BY SnapshotChanges
<1>2. snapshots[s] \in ProviderSnapshot
  BY DEF ActorTypeOK
<1>3. CASE QuietChange(s)
  <2>1. snapshots'[s].phase \in {snapshots[s].phase, "Scheduled"}
    BY <1>2, <1>3 DEF QuietChange, MarkScheduled, SetReadyRefreshPhase,
       MarkHistoryState, ApplyLocalHistory, ApplyCostUsage, ProviderSnapshot
  <2> QED
    BY <1>3, <2>1 DEF QuietChange, NeverStuckRefreshing
<1>4. CASE FetchStarts(s)
  BY <1>4 DEF FetchStarts
<1>5. CASE FetchEnds(s)
  <2>1. snapshots'[s].phase = "Idle"
    BY <1>5 DEF FetchEnds, ApplySuccess, ApplyFailure, KeepHistory, Ready,
       Unavailable, Loading
  <2> QED
    BY <2>1
<1> QED
  BY <1>1, <1>3, <1>4, <1>5 DEF SnapshotChange

(* A snapshot shows Refreshing only while its fetch runs. *)
THEOREM NeverStuckRefreshingHolds == Spec => []NeverStuckRefreshing
<1>1. Init => NeverStuckRefreshing
  <2> SUFFICES ASSUME Init, NEW s \in Scopes PROVE snapshots[s].phase # "Refreshing"
    BY DEF NeverStuckRefreshing
  <2>1. snapshots[s] = StartSnapshot(s, Loading, wall)
    BY DEF Init, ActorInit
  <2> QED
    BY <2>1 DEF StartSnapshot, Restore, ApplyLocalHistory, HasSample, Loading
<1> QED
  BY <1>1, NeverStuckRefreshingStep, ActorTypeCorrect, PTL DEF Spec

------------------------------------------------------------------------------
(* The ledger.  Without a local history the current optional worker of a    *)
(* scope enriches the sample that is shown: a fetch cancels it when it      *)
(* starts, and the next one is spawned by the fetch that replaced the       *)
(* sample.                                                                  *)

GenIs(s, g) == HasSample(snapshots[s]) => snapshots[s].sample.gen = g

HistoryMatches ==
    \A s \in Scopes : snapshots[s].history # NoHistory <=> s \in HistoryScopes

EnrichesShownSample ==
    /\ \A s \in Scopes \ HistoryScopes : activeOptional[s] # None =>
          activeRequired[s] = None /\ GenIs(s, activeOptional[s])
    /\ \A w \in enrich : /\ activeRequired[w.scope] = None
                         /\ w.scope \notin pendingScopes
                         /\ GenIs(w.scope, w.gen)

(* No step gives a scope a local history or takes it away. *)
LEMMA HistoryMatchesStep ==
    ASSUME ActorTypeOK, HistoryMatches, [Next]_vars
    PROVE  HistoryMatches'
<1> SUFFICES ASSUME NEW s \in Scopes
             PROVE  snapshots'[s].history # NoHistory <=> s \in HistoryScopes
  BY DEF HistoryMatches
<1> USE DEF NoHistory, LocalHistoryState
<1>1. SnapshotChange(s)
  BY SnapshotChanges
<1>2. /\ snapshots[s] \in ProviderSnapshot
      /\ snapshots[s].history # NoHistory <=> s \in HistoryScopes
  BY DEF ActorTypeOK, HistoryMatches
<1>3. CASE QuietChange(s)
  BY <1>2, <1>3 DEF QuietChange, MarkScheduled, SetReadyRefreshPhase,
     MarkHistoryState, ApplyLocalHistory, ApplyCostUsage, ProviderSnapshot
<1>4. CASE FetchStarts(s)
  BY <1>2, <1>4 DEF FetchStarts, MarkRefreshing, SetReadyRefreshPhase,
     MarkHistoryState, ApplyLocalHistory, ProviderSnapshot
<1>5. CASE FetchEnds(s)
  <2>1. snapshots'[s].history = snapshots[s].history
    BY <1>5 DEF FetchEnds, ApplySuccess, ApplyFailure, KeepHistory, Ready,
       Unavailable, Loading
  <2> QED
    BY <1>2, <2>1
<1> QED
  BY <1>1, <1>3, <1>4, <1>5 DEF SnapshotChange

(* Scopes with a local history always have one, the others never. *)
LEMMA HistoryMatchesHolds == Spec => []HistoryMatches
<1>1. Init => HistoryMatches
  <2> SUFFICES ASSUME Init, NEW s \in Scopes
               PROVE  snapshots[s].history # NoHistory <=> s \in HistoryScopes
    BY DEF HistoryMatches
  <2>1. snapshots[s] = StartSnapshot(s, Loading, wall)
    BY DEF Init, ActorInit
  <2> QED
    BY <2>1 DEF StartSnapshot, Restore, ApplyLocalHistory, HasSample, Loading, NoHistory
<1> QED
  BY <1>1, HistoryMatchesStep, ActorTypeCorrect, PTL DEF Spec

SameFetch(next, current) ==
    /\ next.state = current.state
    /\ next.sample.gen = current.sample.gen
    /\ next.sample.reset = current.sample.reset

(* Only success and failure change which fetch a sample comes from. *)
LEMMA TransitionsKeepFetch ==
    ASSUME NEW current \in ProviderSnapshot
    PROVE  /\ \A at \in Nat : SameFetch(MarkScheduled(current, at), current)
           /\ \A at \in Nat : SameFetch(MarkRefreshing(current, at), current)
           /\ \A state, data : SameFetch(ApplyLocalHistory(current, state, data), current)
           /\ \A state : SameFetch(MarkHistoryState(current, state), current)
           /\ \A base, data : SameFetch(ApplyCostUsage(current, base, data), current)
<1> USE DEF SameFetch, ProviderSnapshot, Sample
<1>1. /\ \A at \in Nat : SameFetch(MarkScheduled(current, at), current)
      /\ \A at \in Nat : SameFetch(MarkRefreshing(current, at), current)
  BY DEF MarkScheduled, MarkRefreshing, SetReadyRefreshPhase
<1>2. ASSUME NEW state, NEW data
      PROVE  SameFetch(ApplyLocalHistory(current, state, data), current)
  BY DEF ApplyLocalHistory
<1>3. ASSUME NEW state PROVE SameFetch(MarkHistoryState(current, state), current)
  BY <1>2 DEF MarkHistoryState
<1>4. ASSUME NEW base, NEW data
      PROVE  SameFetch(ApplyCostUsage(current, base, data), current)
  BY DEF ApplyCostUsage
<1> QED
  BY <1>1, <1>2, <1>3, <1>4

(* Only the end of a fetch changes which fetch the shown sample is from. *)
LEMMA SampleKept ==
    ASSUME ActorTypeOK, NEW s \in Scopes, QuietChange(s) \/ FetchStarts(s)
    PROVE  SameFetch(snapshots'[s], snapshots[s])
<1>1. snapshots[s] \in ProviderSnapshot /\ wall \in Nat
  BY DEF ActorTypeOK, SchedulerTypeOK
<1>2. CASE QuietChange(s)
  <2>1. SameFetch(snapshots[s], snapshots[s])
    BY DEF SameFetch
  <2> QED
    BY <1>1, <1>2, <2>1, TransitionsKeepFetch DEF QuietChange
<1>3. CASE FetchStarts(s)
  <2> DEFINE marked == MarkRefreshing(snapshots[s], wall)
  <2>1. SameFetch(marked, snapshots[s]) /\ marked \in ProviderSnapshot
    BY <1>1, TransitionsKeepFetch, MarkTypes
  <2>2. snapshots'[s] = marked \/ snapshots'[s] = MarkHistoryState(marked, "Scanning")
    BY <1>3 DEF FetchStarts
  <2> HIDE DEF marked
  <2>3. SameFetch(MarkHistoryState(marked, "Scanning"), marked)
    BY <2>1, TransitionsKeepFetch
  <2> QED
    BY <2>1, <2>2, <2>3 DEF SameFetch
<1> QED
  BY <1>2, <1>3

(* The enrichment that waits for the slots to be filled is of the sample    *)
(* its own fetch just published.                                            *)
LEMMA WaitingEnrichment ==
    ASSUME ActorTypeOK, PendingConsistent, EnrichmentWaits, EnrichesShownSample,
           [Next]_vars, NEW w \in enrich'
    PROVE  /\ activeRequired'[w.scope] = None
           /\ w.scope \notin pendingScopes'
           /\ GenIs(w.scope, w.gen)'
<1>1. CASE UNCHANGED <<enrich, activeRequired, pendingScopes, snapshots>>
  BY <1>1 DEF EnrichesShownSample, GenIs, HasSample
<1>2. CASE enrich = {} /\ enrich' = enrich
  BY <1>2
<1>3. CASE enrich' = {}
  BY <1>3
<1>4. CASE ClientStep \/ ClockStep \/ StopStep \/ UNCHANGED vars
  BY <1>1, <1>4 DEF ClientStep, ClockStep, StopStep, SubmitRefresh, SubmitPopup,
     SubmitReset, Submit, RequestShutdown, TickClock, StepClock, ClocksMatter,
     BeginDrain, DrainWorkers, Stopped, vars, handlerVars, workVars, queueVars
<1>5. CASE SelectStep
  BY <1>2, <1>5 DEF SelectStep, TakeRefresh, TakePopup, TakeScheduleReset,
     TakeScheduleDue, TakeCommand, Selecting, Admit, EnrichmentWaits
<1>6. CASE AdmitStep
  BY <1>2, <1>6 DEF AdmitStep, AdmitUnknown, AdmitCoalesced, AdmitHistoryOnly,
     AdmitStarted, AdmitQueued, Admitting, Admit, EnrichmentWaits
<1>7. CASE FillStep
  <2>1. CASE FillDone
    BY <1>3, <2>1 DEF FillDone
  <2>2. CASE FillSlot
    <3> DEFINE s == Head(pending).scope
    <3>1. enrich' = enrich /\ pendingScopes' = pendingScopes \ {s}
      BY <2>2 DEF FillSlot, handlerVars
    <3>2. s \in pendingScopes
      <4>1. pending \in Seq(QueuedRequest) /\ pending # <<>>
        BY <2>2 DEF FillSlot, ActorTypeOK
      <4>2. Head(pending) = pending[1] /\ 1 \in 1 .. Len(pending)
        BY <4>1
      <4> QED
        BY <4>2 DEF PendingConsistent
    <3>3. w.scope # s /\ w.scope \in Scopes
      BY <3>1, <3>2 DEF EnrichesShownSample, EnrichmentWaits
    <3>4. /\ activeRequired'[w.scope] = activeRequired[w.scope]
          /\ snapshots'[w.scope] = snapshots[w.scope]
      BY <2>2, <3>3 DEF FillSlot, StartRequired, ActorTypeOK
    <3> QED
      BY <3>1, <3>4 DEF EnrichesShownSample, GenIs, HasSample
  <2> QED
    BY <1>7, <2>1, <2>2 DEF FillStep
<1>8. CASE RequiredStep
  <2>1. PICK v \in workers : \/ RequiredSucceeded(v) \/ RequiredMismatched(v)
                             \/ RequiredFailed(v) \/ RequiredPanicked(v)
    BY <1>8 DEF RequiredStep
  <2>2. v.scope \in Scopes /\ v.gen \in Nat \ {0}
    BY DEF ActorTypeOK, Worker
  <2>3. CASE RequiredSucceeded(v)
    <3>1. PICK at \in SampleTimes, cost \in {None, v.gen},
               reset \in Boundaries \cup {None}, window \in BOOLEAN :
               Success(v, at, cost, reset, window)
      BY <2>3, SuccessCases
    <3>2. w.scope = v.scope /\ w.gen = v.gen
      <4>1. enrich' = IF v.scope \in HistoryScopes THEN {}
                      ELSE {EnrichmentWorker(v.scope, v.gen, at)}
        BY <3>1 DEF Success, FinishRequired
      <4> QED
        BY <4>1 DEF EnrichmentWorker
    <3>3. activeRequired'[v.scope] = None
      BY <2>2, <3>1 DEF Success, FinishRequired, ActorTypeOK
    <3>4. v.scope \notin pendingScopes'
      <4>1. activeRequired[v.scope] # None /\ pendingScopes' = pendingScopes
        BY <2>2, <3>1 DEF Success, FinishRequired, Joined, RequiredIsCurrent,
           queueVars, None
      <4> QED
        BY <4>1 DEF PendingConsistent
    <3>5. snapshots'[v.scope].sample.gen = v.gen
      <4>1. snapshots'[v.scope] = SuccessResult(v, at, cost, reset, window)
        BY <2>2, <3>1 DEF Success, ActorTypeOK
      <4> QED
        BY <4>1 DEF SuccessResult, SuccessSample, ApplySuccess, KeepHistory,
           Ready, Backfill, Loading
    <3> QED
      BY <3>2, <3>3, <3>4, <3>5 DEF GenIs
  <2>4. CASE ~RequiredSucceeded(v)
    BY <1>3, <2>1, <2>4 DEF RequiredMismatched, RequiredFailed,
       RequiredPanicked, FinishRequired
  <2> QED
    BY <2>3, <2>4
<1>9. CASE OptionalStep
  BY <1>2, <1>9 DEF OptionalStep, OptionalReturned, OptionalFailed, ReapSuperseded,
     FinishOptional, Joined, Selecting, EnrichmentWaits
<1> QED
  BY <1>4, <1>5, <1>6, <1>7, <1>8, <1>9 DEF Next

(* A fetch cancels the enrichment of the sample it is about to replace. *)
LEMMA EnrichesShownSampleStep ==
    ASSUME ActorTypeOK, PendingConsistent, EnrichmentWaits, EnrichesShownSample, [Next]_vars
    PROVE  EnrichesShownSample'
<1>1. ASSUME NEW s \in Scopes \ HistoryScopes, activeOptional'[s] # None
      PROVE  activeRequired'[s] = None /\ GenIs(s, activeOptional[s])'
  <2>1. SnapshotChange(s)
    BY SnapshotChanges
  <2>2. CASE QuietChange(s)
    <3>1. /\ activeRequired'[s] = activeRequired[s]
          /\ SameFetch(snapshots'[s], snapshots[s])
      BY <2>2, SampleKept DEF QuietChange
    <3>2. CASE activeOptional'[s] = activeOptional[s]
      BY <1>1, <3>1, <3>2 DEF EnrichesShownSample, GenIs, HasSample, SameFetch
    <3>3. CASE activeOptional'[s] # activeOptional[s]
      <4>1. PICK w \in enrich : w.scope = s /\ activeOptional'[s] = w.gen
        BY <1>1, <2>2, <3>3 DEF QuietChange, OptionalChange
      <4> QED
        BY <3>1, <4>1 DEF EnrichesShownSample, GenIs, HasSample, SameFetch
    <3> QED
      BY <3>2, <3>3
  <2>3. CASE FetchStarts(s)
    BY <1>1, <2>3 DEF FetchStarts
  <2>4. CASE FetchEnds(s)
    BY <1>1, <2>4 DEF FetchEnds, EnrichesShownSample
  <2> QED
    BY <2>1, <2>2, <2>3, <2>4 DEF SnapshotChange
<1> QED
  BY <1>1, WaitingEnrichment DEF EnrichesShownSample

(* The current optional worker of a scope without local history belongs to  *)
(* the fetch whose sample is shown.                                         *)
LEMMA EnrichesShownSampleHolds == Spec => []EnrichesShownSample
<1>1. Init => EnrichesShownSample
  BY DEF Init, ActorInit, EnrichesShownSample
<1> QED
  BY <1>1, EnrichesShownSampleStep, ActorTypeCorrect, PendingConsistentHolds, EnrichmentWaitsHolds,
     PTL DEF Spec

LedgerOf(snapshot, hasHistory) ==
    HasSample(snapshot) =>
        IF hasHistory THEN snapshot.sample.cost = snapshot.data
        ELSE snapshot.sample.cost \in {None, snapshot.sample.gen}

(* Each store transition keeps the ledger with its sample; an enrichment    *)
(* does so when it carries the generation of the sample it is attached to.  *)
LEMMA TransitionsKeepLedger ==
    ASSUME NEW current \in ProviderSnapshot, NEW hasHistory \in BOOLEAN,
           current.history # NoHistory <=> hasHistory,
           LedgerOf(current, hasHistory), NEW now \in Nat
    PROVE  /\ \A at \in Nat : LedgerOf(MarkScheduled(current, at), hasHistory)
           /\ \A at \in Nat : LedgerOf(MarkRefreshing(current, at), hasHistory)
           /\ \A state, data : hasHistory =>
                 LedgerOf(ApplyLocalHistory(current, state, data), hasHistory)
           /\ \A state : LedgerOf(MarkHistoryState(current, state), hasHistory)
           /\ \A base, g : ~hasHistory /\ current.sample.gen = g =>
                 LedgerOf(ApplyCostUsage(current, base, g), hasHistory)
           /\ \A base, g : ~HasSample(current) =>
                 LedgerOf(ApplyCostUsage(current, base, g), hasHistory)
           /\ \A sample \in Sample, window \in BOOLEAN :
                 sample.cost \in {None, sample.gen} =>
                     LedgerOf(ApplySuccess(current, sample, window, now), hasHistory)
           /\ \A error, retryAfter :
                 LedgerOf(ApplyFailure(current, error, retryAfter, now), hasHistory)
<1> USE DEF LedgerOf, HasSample, ProviderSnapshot, Sample
<1>1. /\ \A at \in Nat : LedgerOf(MarkScheduled(current, at), hasHistory)
      /\ \A at \in Nat : LedgerOf(MarkRefreshing(current, at), hasHistory)
  BY DEF MarkScheduled, MarkRefreshing, SetReadyRefreshPhase
<1>2. ASSUME NEW state, NEW data, hasHistory
      PROVE  LedgerOf(ApplyLocalHistory(current, state, data), hasHistory)
  BY <1>2 DEF ApplyLocalHistory
<1>3. ASSUME NEW state PROVE LedgerOf(MarkHistoryState(current, state), hasHistory)
  BY <1>2 DEF MarkHistoryState
<1>4. ASSUME NEW base, NEW g,
             (~hasHistory /\ current.sample.gen = g) \/ ~HasSample(current)
      PROVE  LedgerOf(ApplyCostUsage(current, base, g), hasHistory)
  BY <1>4 DEF ApplyCostUsage
<1>5. ASSUME NEW sample \in Sample, NEW window \in BOOLEAN, sample.cost \in {None, sample.gen}
      PROVE  LedgerOf(ApplySuccess(current, sample, window, now), hasHistory)
  <2> DEFINE filled == IF HasSample(current)
                       THEN Backfill(sample, window, current.sample, now) ELSE sample
             ledger == IF current.history # NoHistory THEN current.data ELSE filled.cost
             next == ApplySuccess(current, sample, window, now)
  <2>1. filled \in Sample /\ filled.cost = sample.cost /\ filled.gen = sample.gen
    BY DEF Backfill
  <2> HIDE DEF filled
  <2>2. next = KeepHistory(current, Ready([filled EXCEPT !.cost = ledger], None, NoError, None))
    BY DEF ApplySuccess, filled
  <2>3. /\ next.sample.cost = ledger /\ next.sample.gen = filled.gen
        /\ next.data = current.data
    BY <2>1, <2>2 DEF KeepHistory, Ready, Loading
  <2> HIDE DEF next
  <2> QED
    BY <1>5, <2>1, <2>3 DEF next
<1>6. ASSUME NEW error, NEW retryAfter
      PROVE  LedgerOf(ApplyFailure(current, error, retryAfter, now), hasHistory)
  BY DEF ApplyFailure, KeepHistory, Ready, Unavailable, Loading
<1> QED
  BY <1>1, <1>2, <1>3, <1>4, <1>5, <1>6

(* No publication shows a ledger with a sample it does not belong to. *)
LEMMA LedgerBelongsToSampleStep ==
    ASSUME ActorTypeOK, HistoryMatches, EnrichesShownSample, LedgerBelongsToSample, [Next]_vars
    PROVE  LedgerBelongsToSample'
<1>0. LedgerBelongsToSample
         <=> \A s \in Scopes : LedgerOf(snapshots[s], s \in HistoryScopes)
  BY DEF LedgerBelongsToSample, LedgerOf
<1> SUFFICES ASSUME NEW s \in Scopes
             PROVE  LedgerOf(snapshots'[s], s \in HistoryScopes)
  BY DEF LedgerBelongsToSample, LedgerOf
<1> DEFINE hasHistory == s \in HistoryScopes
<1>1. /\ snapshots[s] \in ProviderSnapshot /\ wall \in Nat /\ hasHistory \in BOOLEAN
      /\ snapshots[s].history # NoHistory <=> hasHistory
      /\ LedgerOf(snapshots[s], hasHistory)
  BY <1>0 DEF ActorTypeOK, SchedulerTypeOK, HistoryMatches
<1>2. SnapshotChange(s)
  BY SnapshotChanges
<1>3. CASE QuietChange(s)
  <2>1. CASE \E base \in Nat : /\ s \notin HistoryScopes /\ activeOptional[s] # None
                               /\ snapshots'[s] = ApplyCostUsage(snapshots[s], base, activeOptional[s])
    <3>1. HasSample(snapshots[s]) => snapshots[s].sample.gen = activeOptional[s]
      BY <2>1 DEF EnrichesShownSample, GenIs
    <3> QED
      BY <1>1, <2>1, <3>1, TransitionsKeepLedger
  <2>2. CASE ~ \E base \in Nat : /\ s \notin HistoryScopes /\ activeOptional[s] # None
                                 /\ snapshots'[s] = ApplyCostUsage(snapshots[s], base, activeOptional[s])
    BY <1>1, <1>3, <2>2, TransitionsKeepLedger DEF QuietChange
  <2> QED
    BY <2>1, <2>2
<1>4. CASE FetchStarts(s)
  <2> DEFINE marked == MarkRefreshing(snapshots[s], wall)
  <2>1. /\ marked \in ProviderSnapshot /\ LedgerOf(marked, hasHistory)
        /\ marked.history = snapshots[s].history
    <3>1. marked.history = snapshots[s].history
      BY <1>1 DEF MarkRefreshing, SetReadyRefreshPhase, ProviderSnapshot
    <3> QED
      BY <1>1, <3>1, MarkTypes, TransitionsKeepLedger
  <2>2. snapshots'[s] = marked \/ snapshots'[s] = MarkHistoryState(marked, "Scanning")
    BY <1>4 DEF FetchStarts
  <2> HIDE DEF marked
  <2>3. LedgerOf(MarkHistoryState(marked, "Scanning"), hasHistory)
    BY <1>1, <2>1, TransitionsKeepLedger
  <2> QED
    BY <2>1, <2>2, <2>3
<1>5. CASE FetchEnds(s)
  BY <1>1, <1>5, TransitionsKeepLedger DEF FetchEnds
<1> QED
  BY <1>2, <1>3, <1>4, <1>5 DEF SnapshotChange

(* No late or superseded enrichment ever attaches its ledger to the sample  *)
(* of another fetch, and no quota fetch replaces the local history, however *)
(* fetches, cancellations and joins interleave.                             *)
THEOREM LedgerBelongsToSampleHolds == Spec => []LedgerBelongsToSample
<1>1. Init => LedgerBelongsToSample
  <2> SUFFICES ASSUME Init, NEW s \in Scopes PROVE ~HasSample(snapshots[s])
    BY DEF LedgerBelongsToSample
  <2>1. snapshots[s] = StartSnapshot(s, Loading, wall)
    BY DEF Init, ActorInit
  <2> QED
    BY <2>1 DEF StartSnapshot, Restore, ApplyLocalHistory, HasSample, Loading
<1> QED
  BY <1>1, LedgerBelongsToSampleStep, ActorTypeCorrect, HistoryMatchesHolds, EnrichesShownSampleHolds,
     PTL DEF Spec

------------------------------------------------------------------------------
(* Local history.  A step keeps the history of a scope and its scan, starts *)
(* a scan with the next generation, or joins the current one.               *)

ScanKept(s) ==
    /\ snapshots'[s].history = snapshots[s].history
    /\ snapshots'[s].data = snapshots[s].data
    /\ activeOptional'[s] = activeOptional[s]
    /\ \/ generations'[s] = generations[s]
       \/ generations'[s] = generations[s] + 1 /\ activeOptional[s] # None

ScanStarts(s) ==
    \E trigger \in Trigger :
        \/ StartRequired(s, trigger) /\ ~KeepsScan(s, trigger)
        \/ StartHistoryOnly(s, trigger) /\ activeOptional[s] = None

ScanEnds(s) == \E w \in workers : w.scope = s /\ (OptionalReturned(w) \/ OptionalFailed(w))

SameHistory(next, current) == next.history = current.history /\ next.data = current.data

(* Only the transitions about local history change it. *)
LEMMA TransitionsKeepHistory ==
    ASSUME NEW current \in ProviderSnapshot
    PROVE  /\ \A at : SameHistory(MarkScheduled(current, at), current)
           /\ \A at : SameHistory(MarkRefreshing(current, at), current)
           /\ \A base, data : SameHistory(ApplyCostUsage(current, base, data), current)
           /\ \A sample, window, now : SameHistory(ApplySuccess(current, sample, window, now), current)
           /\ \A error, retryAfter, now :
                 SameHistory(ApplyFailure(current, error, retryAfter, now), current)
           /\ \A state : MarkHistoryState(current, state).data = current.data
           /\ \A state : current.history # NoHistory => MarkHistoryState(current, state).history = state
           /\ \A state, data : /\ ApplyLocalHistory(current, state, data).history = state
                               /\ ApplyLocalHistory(current, state, data).data = data
<1> USE DEF SameHistory, ProviderSnapshot
<1>1. /\ \A at : SameHistory(MarkScheduled(current, at), current)
      /\ \A at : SameHistory(MarkRefreshing(current, at), current)
  BY DEF MarkScheduled, MarkRefreshing, SetReadyRefreshPhase
<1>2. \A base, data : SameHistory(ApplyCostUsage(current, base, data), current)
  BY DEF ApplyCostUsage
<1>3. ASSUME NEW sample, NEW window, NEW now
      PROVE  SameHistory(ApplySuccess(current, sample, window, now), current)
  BY DEF ApplySuccess, KeepHistory, Ready, Loading
<1>4. ASSUME NEW error, NEW retryAfter, NEW now
      PROVE  SameHistory(ApplyFailure(current, error, retryAfter, now), current)
  BY DEF ApplyFailure, KeepHistory, Ready, Unavailable, Loading
<1>5. ASSUME NEW state, NEW data
      PROVE  /\ ApplyLocalHistory(current, state, data).history = state
             /\ ApplyLocalHistory(current, state, data).data = data
  BY DEF ApplyLocalHistory
<1>6. ASSUME NEW state
      PROVE  /\ MarkHistoryState(current, state).data = current.data
             /\ current.history # NoHistory => MarkHistoryState(current, state).history = state
  BY <1>5 DEF MarkHistoryState
<1> QED
  BY <1>1, <1>2, <1>3, <1>4, <1>5, <1>6

(* Every step treats the history of a scope in one of the three ways. *)
LEMMA ScanSteps ==
    ASSUME ActorTypeOK, EnrichmentWaits, [Next]_vars, NEW s \in HistoryScopes
    PROVE  ScanKept(s) \/ ScanStarts(s) \/ ScanEnds(s)
<1>0. /\ s \in Scopes /\ snapshots \in [Scopes -> ProviderSnapshot]
      /\ activeOptional \in [Scopes -> Nat] /\ generations \in [Scopes -> Nat]
      /\ wall \in Nat
  BY ActorAssumption DEF ActorTypeOK, SchedulerTypeOK
<1>1. CASE /\ activeOptional'[s] = activeOptional[s] /\ generations'[s] = generations[s]
           /\ \/ snapshots'[s] = snapshots[s]
              \/ \E at : snapshots'[s] = MarkScheduled(snapshots[s], at)
  BY <1>0, <1>1, TransitionsKeepHistory DEF ScanKept, SameHistory
<1>2. CASE ClientStep \/ ClockStep \/ StopStep \/ UNCHANGED vars
  BY <1>1, <1>2 DEF ClientStep, ClockStep, StopStep, SubmitRefresh, SubmitPopup,
     SubmitReset, Submit, RequestShutdown, TickClock, StepClock, ClocksMatter,
     BeginDrain, DrainWorkers, Stopped, vars, workVars
<1>3. ASSUME NEW t \in Scopes, NEW trigger \in Trigger, StartRequired(t, trigger)
      PROVE  ScanKept(s) \/ ScanStarts(s) \/ ScanEnds(s)
  <2>1. CASE t # s
    BY <1>0, <1>1, <1>3, <2>1 DEF StartRequired
  <2>2. CASE t = s /\ KeepsScan(t, trigger)
    <3>1. /\ activeOptional'[s] = activeOptional[s] /\ activeOptional[s] # None
          /\ generations'[s] = generations[s] + 1
          /\ snapshots'[s] = MarkRefreshing(snapshots[s], wall)
      BY <1>0, <1>3, <2>2 DEF StartRequired, KeepsScan, NextGeneration
    <3> QED
      BY <1>0, <3>1, TransitionsKeepHistory DEF ScanKept, SameHistory
  <2> QED
    BY <1>3, <2>1, <2>2 DEF ScanStarts
<1>4. CASE SelectStep
  <2>1. CASE TakeScheduleReset
    BY <1>0, <1>1, <2>1 DEF TakeScheduleReset, TakeCommand, workVars
  <2>2. CASE TakeRefresh \/ TakePopup \/ TakeScheduleDue
    BY <1>1, <2>2 DEF TakeRefresh, TakePopup, TakeScheduleDue, TakeCommand, workVars
  <2> QED
    BY <1>4, <2>1, <2>2 DEF SelectStep
<1>5. CASE AdmitStep
  <2>1. PICK r \in todo : \/ AdmitUnknown(r) \/ AdmitCoalesced(r) \/ AdmitHistoryOnly(r)
                          \/ AdmitStarted(r) \/ AdmitQueued(r)
    BY <1>5 DEF AdmitStep
  <2>2. r.trigger \in Trigger
    BY DEF ActorTypeOK, Request
  <2>3. CASE AdmitUnknown(r) \/ AdmitCoalesced(r)
    BY <1>1, <2>3 DEF AdmitUnknown, AdmitCoalesced, workVars
  <2>4. CASE AdmitHistoryOnly(r)
    <3>1. StartHistoryOnly(r.scope, r.trigger)
      BY <2>4 DEF AdmitHistoryOnly
    <3>2. CASE r.scope = s /\ activeOptional[s] = None
      BY <2>2, <3>1, <3>2 DEF ScanStarts
    <3>3. CASE r.scope # s \/ activeOptional[s] # None
      BY <1>0, <1>1, <3>1, <3>3 DEF StartHistoryOnly, workVars
    <3> QED
      BY <3>2, <3>3
  <2>5. CASE AdmitStarted(r)
    BY <1>3, <2>2, <2>5 DEF AdmitStarted, Admissible
  <2>6. CASE AdmitQueued(r)
    BY <1>0, <1>1, <2>6 DEF AdmitQueued, workVars
  <2> QED
    BY <2>1, <2>3, <2>4, <2>5, <2>6
<1>6. CASE FillStep
  <2>1. CASE FillSlot
    <3>1. Head(pending) \in QueuedRequest
      BY <2>1 DEF FillSlot, ActorTypeOK
    <3> QED
      BY <1>3, <2>1, <3>1 DEF FillSlot, QueuedRequest
  <2>2. CASE FillDone
    <3>1. ~ \E w \in enrich : w.scope = s
      BY DEF EnrichmentWaits
    <3> QED
      BY <1>0, <1>1, <2>2, <3>1 DEF FillDone
  <2> QED
    BY <1>6, <2>1, <2>2 DEF FillStep
<1>7. CASE RequiredStep
  <2>1. PICK w \in workers : \/ RequiredSucceeded(w) \/ RequiredMismatched(w)
                             \/ RequiredFailed(w) \/ RequiredPanicked(w)
    BY <1>7 DEF RequiredStep
  <2>2. \E e : FinishRequired(w, e)
    BY <2>1, SuccessCases DEF Success, RequiredMismatched, RequiredFailed, RequiredPanicked
  <2>3. activeOptional'[s] = activeOptional[s] /\ generations'[s] = generations[s]
    BY <2>2 DEF FinishRequired, Joined
  <2>4. \/ snapshots'[s] = snapshots[s]
        \/ \E sample, window : snapshots'[s] = ApplySuccess(snapshots[s], sample, window, wall)
        \/ \E error, retryAfter :
               snapshots'[s] = ApplyFailure(snapshots[s], error, retryAfter, wall)
    <3>1. CASE RequiredSucceeded(w)
      <4>1. PICK at \in SampleTimes, cost \in {None, w.gen},
                 reset \in Boundaries \cup {None}, window \in BOOLEAN :
                 Success(w, at, cost, reset, window)
        BY <3>1, SuccessCases
      <4>2. snapshots' = [snapshots EXCEPT ![w.scope] =
                             SuccessResult(w, at, cost, reset, window)]
        BY <4>1 DEF Success
      <4> QED
        BY <1>0, <4>2 DEF SuccessResult
    <3>2. CASE ~RequiredSucceeded(w)
      BY <1>0, <2>1, <3>2 DEF RequiredMismatched, RequiredFailed, RequiredPanicked
    <3> QED
      BY <3>1, <3>2
  <2> QED
    BY <1>0, <2>3, <2>4, TransitionsKeepHistory DEF ScanKept, SameHistory
<1>8. CASE OptionalStep
  <2>1. PICK w \in workers : OptionalReturned(w) \/ OptionalFailed(w) \/ ReapSuperseded(w)
    BY <1>8 DEF OptionalStep
  <2>2. CASE ReapSuperseded(w)
    BY <1>1, <2>2 DEF ReapSuperseded, Joined
  <2>3. CASE w.scope = s /\ ~ReapSuperseded(w)
    BY <2>1, <2>3 DEF ScanEnds
  <2>4. CASE w.scope # s /\ ~ReapSuperseded(w)
    <3>1. /\ generations' = generations
          /\ activeOptional' = [activeOptional EXCEPT ![w.scope] = None]
          /\ \E new : snapshots' = [snapshots EXCEPT ![w.scope] = new]
      BY <2>1, <2>4 DEF OptionalReturned, OptionalFailed, FinishOptional, Joined
    <3> QED
      BY <1>0, <1>1, <2>4, <3>1
  <2> QED
    BY <2>2, <2>3, <2>4
<1> QED
  BY <1>2, <1>4, <1>5, <1>6, <1>7, <1>8 DEF Next

(* What starting and ending a scan does to the scope's history. *)
LEMMA ScanEffects ==
    ASSUME ActorTypeOK, HistoryMatches, NEW s \in HistoryScopes
    PROVE  /\ ScanStarts(s) =>
                 /\ generations'[s] = generations[s] + 1
                 /\ activeOptional'[s] = generations[s] + 1
                 /\ snapshots'[s].data = snapshots[s].data
           /\ ScanEnds(s) =>
                 /\ generations'[s] = generations[s]
                 /\ activeOptional[s] # None /\ activeOptional'[s] = None
                 /\ snapshots'[s].history # "Scanning"
                 /\ snapshots'[s].data \in {None, snapshots[s].data, activeOptional[s]}
<1>0. /\ s \in Scopes /\ snapshots \in [Scopes -> ProviderSnapshot]
      /\ activeOptional \in [Scopes -> Nat] /\ generations \in [Scopes -> Nat]
      /\ wall \in Nat /\ snapshots[s].history # NoHistory
  BY ActorAssumption DEF ActorTypeOK, SchedulerTypeOK, HistoryMatches
<1>1. ASSUME ScanStarts(s)
      PROVE  /\ generations'[s] = generations[s] + 1
             /\ activeOptional'[s] = generations[s] + 1
             /\ snapshots'[s].data = snapshots[s].data
  <2>1. PICK trigger \in Trigger :
           \/ StartRequired(s, trigger) /\ ~KeepsScan(s, trigger)
           \/ StartHistoryOnly(s, trigger) /\ activeOptional[s] = None
    BY <1>1 DEF ScanStarts
  <2>2. CASE StartRequired(s, trigger) /\ ~KeepsScan(s, trigger)
    <3> DEFINE marked == MarkRefreshing(snapshots[s], wall)
    <3>1. snapshots'[s] = MarkHistoryState(marked, "Scanning")
      BY <1>0, <2>2 DEF StartRequired
    <3>2. marked \in ProviderSnapshot /\ marked.data = snapshots[s].data
      BY <1>0, MarkTypes, TransitionsKeepHistory DEF SameHistory
    <3> HIDE DEF marked
    <3>3. MarkHistoryState(marked, "Scanning").data = marked.data
      BY <3>2, TransitionsKeepHistory
    <3> QED
      BY <1>0, <2>2, <3>1, <3>2, <3>3 DEF StartRequired, NextGeneration
  <2>3. CASE StartHistoryOnly(s, trigger) /\ activeOptional[s] = None
    <3>1. snapshots'[s] = MarkHistoryState(snapshots[s], "Scanning")
      BY <1>0, <2>3 DEF StartHistoryOnly
    <3>2. snapshots'[s].data = snapshots[s].data
      BY <1>0, <3>1, TransitionsKeepHistory
    <3> QED
      BY <1>0, <2>3, <3>2 DEF StartHistoryOnly, NextGeneration
  <2> QED
    BY <2>1, <2>2, <2>3
<1>2. ASSUME ScanEnds(s)
      PROVE  /\ generations'[s] = generations[s]
             /\ activeOptional[s] # None /\ activeOptional'[s] = None
             /\ snapshots'[s].history # "Scanning"
             /\ snapshots'[s].data \in {None, snapshots[s].data, activeOptional[s]}
  <2>1. PICK w \in workers : w.scope = s /\ (OptionalReturned(w) \/ OptionalFailed(w))
    BY <1>2 DEF ScanEnds
  <2>2. w.gen \in Nat \ {0}
    BY DEF ActorTypeOK, Worker
  <2>3. /\ generations'[s] = generations[s]
        /\ activeOptional[s] = w.gen /\ activeOptional'[s] = None
    BY <1>0, <2>1 DEF OptionalReturned, OptionalFailed, FinishOptional, Joined,
       OptionalIsCurrent
  <2>4. CASE OptionalReturned(w)
    <3>1. PICK data \in {None, w.gen}, state \in {"Empty", "Ready"} :
             snapshots'[s] = ApplyLocalHistory(snapshots[s], state, data)
      BY <1>0, <2>1, <2>4 DEF OptionalReturned
    <3> QED
      BY <1>0, <2>2, <2>3, <3>1, TransitionsKeepHistory DEF None
  <2>5. CASE OptionalFailed(w)
    <3>1. snapshots'[s] = MarkHistoryState(snapshots[s], "Failed")
      BY <1>0, <2>1, <2>5 DEF OptionalFailed
    <3> QED
      BY <1>0, <2>2, <2>3, <3>1, TransitionsKeepHistory DEF None
  <2> QED
    BY <2>1, <2>4, <2>5
<1> QED
  BY <1>1, <1>2

(* The end of a scan takes Scanning back. *)
LEMMA ScanHasWorkerStep ==
    ASSUME ActorTypeOK, EnrichmentWaits, HistoryMatches, HistoryMatches', ScanHasWorker, [Next]_vars
    PROVE  ScanHasWorker'
<1> SUFFICES ASSUME NEW s \in Scopes, snapshots'[s].history = "Scanning", generations'[s] > 0
             PROVE  activeOptional'[s] # None
  BY DEF ScanHasWorker
<1>1. s \in HistoryScopes
  BY DEF HistoryMatches, NoHistory
<1>2. generations[s] \in Nat /\ activeOptional[s] \in Nat
  BY DEF ActorTypeOK
<1>3. CASE ScanKept(s)
  BY <1>2, <1>3 DEF ScanKept, ScanHasWorker
<1>4. CASE ScanStarts(s) \/ ScanEnds(s)
  BY <1>1, <1>2, <1>4, ScanEffects DEF None
<1> QED
  BY <1>1, <1>3, <1>4, ScanSteps

(* Once a scope was admitted, Scanning means that a scan is current. *)
LEMMA ScanHasWorkerHolds == Spec => []ScanHasWorker
<1>1. Init => ScanHasWorker
  BY DEF Init, ActorInit, ScanHasWorker
<1> QED
  BY <1>1, ScanHasWorkerStep, ActorTypeCorrect, EnrichmentWaitsHolds, HistoryMatchesHolds, PTL DEF Spec

(* What is marked as running is run by a task that will be joined, what can *)
(* run is not left waiting, and no scan is announced that nobody runs: for  *)
(* every number of scopes and slots, until the actor drains its workers.    *)
THEOREM WorkIsInHandHolds == Spec => []WorkIsInHand
<1>1. NoIdleSlot => WorkConserving
  BY DEF NoIdleSlot, WorkConserving
<1> QED
  BY <1>1, ActiveHasWorkerHolds, NoIdleSlotHolds, ScanHasWorkerHolds, PTL
     DEF WorkIsInHand

(* The data shown is never newer than the current scan, and that not newer  *)
(* than the last generation handed out.                                     *)
ScansInOrder ==
    \A s \in HistoryScopes :
        /\ snapshots[s].data <= generations[s]
        /\ activeOptional[s] # None => /\ snapshots[s].data <= activeOptional[s]
                                       /\ activeOptional[s] <= generations[s]

(* No step breaks the order of the scans. *)
LEMMA ScansInOrderStep ==
    ASSUME ActorTypeOK, EnrichmentWaits, HistoryMatches, ScansInOrder, [Next]_vars
    PROVE  ScansInOrder'
<1> SUFFICES ASSUME NEW s \in HistoryScopes
             PROVE  /\ snapshots'[s].data <= generations'[s]
                    /\ activeOptional'[s] # None =>
                          /\ snapshots'[s].data <= activeOptional'[s]
                          /\ activeOptional'[s] <= generations'[s]
  BY DEF ScansInOrder
<1>1. /\ generations[s] \in Nat /\ activeOptional[s] \in Nat /\ snapshots[s].data \in Nat
      /\ snapshots[s].data <= generations[s]
      /\ activeOptional[s] # None => /\ snapshots[s].data <= activeOptional[s]
                                     /\ activeOptional[s] <= generations[s]
  BY ActorAssumption DEF ActorTypeOK, ProviderSnapshot, ScansInOrder
<1>2. CASE ScanKept(s)
  BY <1>1, <1>2 DEF ScanKept
<1>3. CASE ScanStarts(s)
  BY <1>1, <1>3, ScanEffects
<1>4. CASE ScanEnds(s)
  BY <1>1, <1>4, ScanEffects DEF None
<1> QED
  BY <1>2, <1>3, <1>4, ScanSteps

(* Scans are numbered in the order in which their data may be shown. *)
LEMMA ScansInOrderHolds == Spec => []ScansInOrder
<1>1. Init => ScansInOrder
  <2> SUFFICES ASSUME Init, NEW s \in HistoryScopes
               PROVE  snapshots[s].data <= generations[s] /\ activeOptional[s] = None
    BY DEF ScansInOrder
  <2>0. s \in Scopes
    BY ActorAssumption
  <2>1. snapshots[s] = StartSnapshot(s, Loading, wall) /\ generations[s] = 0
        /\ activeOptional[s] = None
    BY <2>0 DEF Init, ActorInit
  <2>2. snapshots[s].data = None
    BY <2>1 DEF StartSnapshot, Restore, ApplyLocalHistory, HasSample, Loading
  <2> QED
    BY <2>1, <2>2 DEF None
<1> QED
  BY <1>1, ScansInOrderStep, ActorTypeCorrect, EnrichmentWaitsHolds,
     HistoryMatchesHolds, PTL DEF Spec

(* A scan that a newer one superseded never overwrites its data, whichever  *)
(* of the two returns first.                                                *)
THEOREM HistoryNeverRegressesHolds == Spec => HistoryNeverRegresses
<1> DEFINE Advances ==
      \A s \in Scopes : snapshots'[s].data # None => snapshots'[s].data >= snapshots[s].data
<1>1. ActorTypeOK /\ EnrichmentWaits /\ HistoryMatches /\ ScansInOrder
         /\ [Next]_vars => [Advances]_vars
  <2> SUFFICES ASSUME ActorTypeOK, EnrichmentWaits, HistoryMatches, ScansInOrder,
                      Next, NEW s \in Scopes, snapshots'[s].data # None
               PROVE  snapshots'[s].data >= snapshots[s].data
    OBVIOUS
  <2>0. snapshots[s] \in ProviderSnapshot /\ snapshots[s].data \in Nat
    BY DEF ActorTypeOK, ProviderSnapshot
  <2>1. CASE s \in HistoryScopes
    <3>1. CASE ScanKept(s) \/ ScanStarts(s)
      BY <2>0, <2>1, <3>1, ScanEffects DEF ScanKept
    <3>2. CASE ScanEnds(s)
      BY <2>0, <2>1, <3>2, ScanEffects DEF ScansInOrder
    <3> QED
      BY <2>1, <3>1, <3>2, ScanSteps
  <2>2. CASE s \notin HistoryScopes
    <3>1. SnapshotChange(s)
      BY SnapshotChanges
    <3>2. CASE QuietChange(s)
      BY <2>0, <2>2, <3>2, TransitionsKeepHistory DEF QuietChange, SameHistory
    <3>3. CASE FetchStarts(s)
      <4> DEFINE marked == MarkRefreshing(snapshots[s], wall)
      <4>1. wall \in Nat
        BY DEF ActorTypeOK, SchedulerTypeOK
      <4>2. marked \in ProviderSnapshot /\ marked.data = snapshots[s].data
        BY <2>0, <4>1, MarkTypes, TransitionsKeepHistory DEF SameHistory
      <4>3. snapshots'[s] = marked \/ snapshots'[s] = MarkHistoryState(marked, "Scanning")
        BY <3>3 DEF FetchStarts
      <4> HIDE DEF marked
      <4> QED
        BY <2>0, <4>2, <4>3, TransitionsKeepHistory
    <3>4. CASE FetchEnds(s)
      BY <2>0, <3>4, TransitionsKeepHistory DEF FetchEnds, SameHistory
    <3> QED
      BY <3>1, <3>2, <3>3, <3>4 DEF SnapshotChange
  <2> QED
    BY <2>1, <2>2
<1> QED
  BY <1>1, ActorTypeCorrect, EnrichmentWaitsHolds, HistoryMatchesHolds,
     ScansInOrderHolds, PTL DEF Spec, HistoryNeverRegresses

(* Generations name workers: none is handed out twice, so the current scan  *)
(* of a scope is one worker.                                                *)
IsScan(w) == w.kind = "optional" /\ w.scope \in HistoryScopes

GenerationsNameScans ==
    /\ \A w \in workers \cup enrich : w.gen <= generations[w.scope]
    /\ \A v, w \in workers :
          IsScan(v) /\ IsScan(w) /\ v.scope = w.scope /\ v.gen = w.gen => v = w

(* A new worker gets a generation no other worker of its scope has. *)
LEMMA StartsNumber ==
    ASSUME ActorTypeOK, GenerationsNameScans, NEW s \in Scopes, NEW trigger \in Trigger,
           StartRequired(s, trigger) \/ StartHistoryOnly(s, trigger), enrich' = enrich
    PROVE  GenerationsNameScans'
<1> USE DEF GenerationsNameScans, IsScan
<1> DEFINE g == NextGeneration(s)
<1>0. /\ generations \in [Scopes -> Nat] /\ g = generations[s] + 1
      /\ \A w \in workers \cup enrich : w.scope \in Scopes /\ w.gen \in Nat
  BY DEF ActorTypeOK, NextGeneration, Worker
<1>1. /\ RequiredWorker(s, g, trigger).kind = "required"
      /\ RequiredWorker(s, g, trigger).scope = s /\ RequiredWorker(s, g, trigger).gen = g
      /\ HistoryWorker(s, g, trigger).scope = s /\ HistoryWorker(s, g, trigger).gen = g
  BY DEF RequiredWorker, HistoryWorker
<1>2. CASE UNCHANGED <<workers, generations>>
  BY <1>2
<1>3. CASE ~UNCHANGED <<workers, generations>>
  <2>1. /\ generations' = [generations EXCEPT ![s] = g]
        /\ workers' \subseteq workers
               \cup {RequiredWorker(s, g, trigger), HistoryWorker(s, g, trigger)}
    BY <1>3 DEF StartRequired, StartHistoryOnly, workVars
  <2> HIDE DEF g
  <2>2. \A w \in workers' \cup enrich' : w.gen <= generations'[w.scope]
    BY <1>0, <1>1, <2>1
  <2>3. \A v, w \in workers' :
           IsScan(v) /\ IsScan(w) /\ v.scope = w.scope /\ v.gen = w.gen => v = w
    <3>1. \A w \in workers : w.scope = s => w.gen # g
      BY <1>0
    <3>2. \A w \in workers' : IsScan(w) => w \in workers \/ w = HistoryWorker(s, g, trigger)
      BY <1>1, <2>1
    <3> HIDE DEF IsScan, GenerationsNameScans
    <3> SUFFICES ASSUME NEW v \in workers', NEW w \in workers', IsScan(v), IsScan(w),
                        v.scope = w.scope, v.gen = w.gen
                 PROVE  v = w
      OBVIOUS
    <3>3. CASE v \in workers /\ w \in workers
      BY <3>3 DEF GenerationsNameScans
    <3>4. CASE v \in workers /\ w = HistoryWorker(s, g, trigger)
      <4>1. v.scope = s /\ v.gen = g
        BY <1>1, <3>4
      <4> QED
        BY <3>1, <3>4, <4>1
    <3>5. CASE w \in workers /\ v = HistoryWorker(s, g, trigger)
      <4>1. w.scope = s /\ w.gen = g
        BY <1>1, <3>5
      <4> QED
        BY <3>1, <3>5, <4>1
    <3> QED
      BY <3>2, <3>3, <3>4, <3>5
  <2> QED
    BY <2>2, <2>3
<1> QED
  BY <1>2, <1>3

(* No number is handed out twice. *)
LEMMA GenerationsNameScansStep ==
    ASSUME ActorTypeOK, EnrichmentWaits, GenerationsNameScans, [Next]_vars
    PROVE  GenerationsNameScans'
<1>1. CASE workers' \subseteq workers /\ enrich' \subseteq enrich /\ generations' = generations
  BY <1>1 DEF GenerationsNameScans, IsScan
<1>2. CASE ClientStep \/ ClockStep \/ StopStep \/ UNCHANGED vars
  BY <1>1, <1>2 DEF ClientStep, ClockStep, StopStep, SubmitRefresh, SubmitPopup,
     SubmitReset, Submit, RequestShutdown, TickClock, StepClock, ClocksMatter,
     BeginDrain, DrainWorkers, Stopped, vars, workVars, handlerVars
<1>3. CASE SelectStep
  BY <1>1, <1>3 DEF SelectStep, TakeRefresh, TakePopup, TakeScheduleReset,
     TakeScheduleDue, TakeCommand, Admit, workVars
<1>4. CASE AdmitStep
  <2>1. PICK r \in todo : \/ AdmitUnknown(r) \/ AdmitCoalesced(r) \/ AdmitHistoryOnly(r)
                          \/ AdmitStarted(r) \/ AdmitQueued(r)
    BY <1>4 DEF AdmitStep
  <2>2. r.trigger \in Trigger /\ enrich' = enrich
    BY <2>1 DEF AdmitUnknown, AdmitCoalesced, AdmitHistoryOnly, AdmitStarted,
       AdmitQueued, Admitting, Admit, ActorTypeOK, Request
  <2>3. CASE AdmitUnknown(r) \/ AdmitCoalesced(r) \/ AdmitQueued(r)
    BY <1>1, <2>2, <2>3 DEF AdmitUnknown, AdmitCoalesced, AdmitQueued, workVars
  <2>4. CASE AdmitHistoryOnly(r) \/ AdmitStarted(r)
    BY <2>2, <2>4, StartsNumber DEF AdmitHistoryOnly, AdmitStarted, Admissible
  <2> QED
    BY <2>1, <2>3, <2>4
<1>5. CASE FillStep
  <2>1. CASE FillSlot
    <3>1. Head(pending) \in QueuedRequest
      BY <2>1 DEF FillSlot, ActorTypeOK
    <3> QED
      BY <2>1, <3>1, StartsNumber DEF FillSlot, QueuedRequest, handlerVars
  <2>2. CASE FillDone
    BY <2>2 DEF FillDone, EnrichmentWaits, GenerationsNameScans, IsScan
  <2> QED
    BY <1>5, <2>1, <2>2 DEF FillStep
<1>6. CASE RequiredStep
  <2>1. PICK w \in workers : \/ RequiredSucceeded(w) \/ RequiredMismatched(w)
                             \/ RequiredFailed(w) \/ RequiredPanicked(w)
    BY <1>6 DEF RequiredStep
  <2>2. /\ workers' \subseteq workers /\ generations' = generations
        /\ \A v \in enrich' : v.scope = w.scope /\ v.gen = w.gen
    <3>1. CASE RequiredSucceeded(w)
      <4>1. PICK at \in SampleTimes : \E cost, reset, window : Success(w, at, cost, reset, window)
        BY <3>1, SuccessCases
      <4> QED
        BY <4>1 DEF Success, FinishRequired, Joined, EnrichmentWorker
    <3>2. CASE ~RequiredSucceeded(w)
      BY <2>1, <3>2 DEF RequiredMismatched, RequiredFailed, RequiredPanicked,
         FinishRequired, Joined
    <3> QED
      BY <3>1, <3>2
  <2> QED
    BY <2>2 DEF GenerationsNameScans, IsScan
<1>7. CASE OptionalStep
  BY <1>1, <1>7 DEF OptionalStep, OptionalReturned, OptionalFailed,
     ReapSuperseded, FinishOptional, Joined
<1> QED
  BY <1>2, <1>3, <1>4, <1>5, <1>6, <1>7 DEF Next

(* Every worker has its own number. *)
LEMMA GenerationsNameScansHolds == Spec => []GenerationsNameScans
<1>1. Init => GenerationsNameScans
  BY DEF Init, ActorInit, GenerationsNameScans
<1> QED
  BY <1>1, GenerationsNameScansStep, ActorTypeCorrect, EnrichmentWaitsHolds, PTL DEF Spec

(* A running history scan is given up only for the scan of a manual         *)
(* refresh, never for an automatic one, whenever that was queued.           *)
THEOREM ScanSurvivesAutomaticRefreshHolds == Spec => ScanSurvivesAutomaticRefresh
<1> DEFINE Survives ==
      \A w \in workers : (/\ w.scope \in HistoryScopes
                          /\ w.kind = "optional"
                          /\ OptionalIsCurrent(w)
                          /\ w \in workers'
                          /\ activeOptional'[w.scope] # w.gen)
          => \E v \in workers' \ workers : v.scope = w.scope /\ v.trigger = "Manual"
<1>1. ActorTypeOK /\ EnrichmentWaits /\ HistoryMatches /\ GenerationsNameScans
         /\ [Next]_vars => [Survives]_vars
  <2> SUFFICES ASSUME ActorTypeOK, EnrichmentWaits, HistoryMatches, GenerationsNameScans,
                      Next, NEW w \in workers, w.scope \in HistoryScopes,
                      w.kind = "optional", OptionalIsCurrent(w), w \in workers',
                      activeOptional'[w.scope] # w.gen
               PROVE  \E v \in workers' \ workers : v.scope = w.scope /\ v.trigger = "Manual"
    OBVIOUS
  <2> DEFINE s == w.scope
  <2>0. /\ activeOptional[s] = w.gen /\ w.gen \in Nat \ {0} /\ generations[s] \in Nat
        /\ \A v \in workers : v.gen \in Nat
    BY ActorAssumption DEF OptionalIsCurrent, ActorTypeOK, Worker
  <2>1. ~ScanKept(s)
    BY <2>0 DEF ScanKept
  <2>2. ~ScanEnds(s)
    <3> SUFFICES ASSUME ScanEnds(s) PROVE FALSE
      OBVIOUS
    <3>1. PICK v \in workers : v.scope = s /\ (OptionalReturned(v) \/ OptionalFailed(v))
      BY DEF ScanEnds
    <3>2. /\ v.kind = "optional" /\ activeOptional[s] = v.gen /\ workers' = workers \ {v}
      BY <3>1 DEF OptionalReturned, OptionalFailed, FinishOptional, Joined, OptionalIsCurrent
    <3>3. v = w
      BY <2>0, <3>1, <3>2 DEF GenerationsNameScans, IsScan
    <3> QED
      BY <3>2, <3>3
  <2>3. PICK trigger \in Trigger : StartRequired(s, trigger) /\ ~KeepsScan(s, trigger)
    BY <2>0, <2>1, <2>2, ScanSteps DEF ScanStarts, None
  <2>4. trigger = "Manual"
    BY <2>0, <2>3 DEF KeepsScan, None
  <2> DEFINE v == RequiredWorker(s, NextGeneration(s), trigger)
  <2>5. v \in workers' /\ v.scope = s /\ v.trigger = "Manual" /\ v.gen = generations[s] + 1
    BY <2>3, <2>4 DEF StartRequired, RequiredWorker, NextGeneration
  <2> HIDE DEF v
  <2>6. v \notin workers
    BY <2>0, <2>5 DEF GenerationsNameScans
  <2> QED
    BY <2>5, <2>6
<1> QED
  BY <1>1, ActorTypeCorrect, EnrichmentWaitsHolds, HistoryMatchesHolds,
     GenerationsNameScansHolds, PTL DEF Spec, ScanSurvivesAutomaticRefresh

------------------------------------------------------------------------------
(* The actor implements SchedulerMachine: whatever commands, samples and    *)
(* failures it handles, it only ever drives its scheduler through the       *)
(* operations and with the arguments the scheduler is specified for.        *)

(* The arguments.  The clocks stay within the explored time and a published *)
(* sample only names boundaries a provider reported, also after backfilling *)
(* a missing reset time from the previous sample.                           *)

ClocksBounded == mono <= MaxTime /\ wall < mono + MaxTime

ResetsReported ==
    \A s \in Scopes : snapshots[s].sample.reset \in Boundaries \cup {None}

(* The wall clock never runs ahead of the explored time. *)
LEMMA ClocksBoundedHolds == Spec => []ClocksBounded
<1> USE SchedulerAssumption DEF ClocksBounded
<1>1. Init => ClocksBounded
  BY DEF Init, ClockInit
<1>2. ActorTypeOK /\ ClocksBounded /\ [Next]_vars => ClocksBounded'
  <2> SUFFICES ASSUME ActorTypeOK, ClocksBounded, [Next]_vars PROVE ClocksBounded'
    OBVIOUS
  <2>1. mono \in Nat \ {0} /\ wall \in Nat \ {0}
    BY DEF ActorTypeOK, SchedulerTypeOK
  <2>2. CASE UNCHANGED clockVars
    BY <2>2 DEF clockVars
  <2>3. CASE TickClock
    BY <2>1, <2>3 DEF TickClock, Tick
  <2>4. CASE StepClock
    BY <2>1, <2>4 DEF StepClock, StepWall
  <2>5. CASE ClientStep \/ StopStep \/ UNCHANGED vars
    BY <2>2, <2>5 DEF ClientStep, StopStep, SubmitRefresh, SubmitPopup,
       SubmitReset, Submit, RequestShutdown, BeginDrain, DrainWorkers, Stopped,
       vars
  <2>6. CASE SelectStep
    BY <2>2, <2>6 DEF SelectStep, TakeRefresh, TakePopup, TakeScheduleReset,
       TakeScheduleDue, TakeCommand
  <2>7. CASE AdmitStep
    BY <2>2, <2>7 DEF AdmitStep, AdmitUnknown, AdmitCoalesced, AdmitHistoryOnly,
       AdmitStarted, AdmitQueued, Admitting
  <2>8. CASE FillStep
    BY <2>2, <2>8 DEF FillStep, FillSlot, FillDone
  <2>9. CASE RequiredStep
    BY <2>2, <2>9, RequiredFinishes DEF FinishRequired, Joined
  <2>10. CASE OptionalStep
    BY <2>2, <2>10 DEF OptionalStep, OptionalReturned, OptionalFailed,
       ReapSuperseded, FinishOptional, Joined
  <2> QED
    BY <2>3, <2>4, <2>5, <2>6, <2>7, <2>8, <2>9, <2>10 DEF Next, ClockStep
<1> QED
  BY <1>1, <1>2, ActorTypeCorrect, PTL DEF Spec

(* A successful sample names the boundary it was fetched with, or the one   *)
(* of the sample it replaces.                                               *)
LEMMA SuccessReset ==
    ASSUME NEW current \in ProviderSnapshot, NEW sample \in Sample, NEW window, NEW now
    PROVE  LET next == ApplySuccess(current, sample, window, now)
           IN  /\ next.sample.reset \in {sample.reset, current.sample.reset}
               /\ next.sample.fetchedAt = sample.fetchedAt
<1> DEFINE filled == IF HasSample(current)
                     THEN Backfill(sample, window, current.sample, now) ELSE sample
           ledger == IF current.history # NoHistory THEN current.data ELSE filled.cost
           next == ApplySuccess(current, sample, window, now)
<1>1. /\ filled \in Sample /\ filled.fetchedAt = sample.fetchedAt
      /\ filled.reset \in {sample.reset, current.sample.reset}
  BY DEF Backfill, Sample, ProviderSnapshot
<1> HIDE DEF filled
<1>2. next = KeepHistory(current, Ready([filled EXCEPT !.cost = ledger], None, NoError, None))
  BY DEF ApplySuccess, filled
<1>3. next.sample.reset = filled.reset /\ next.sample.fetchedAt = filled.fetchedAt
  BY <1>1, <1>2 DEF KeepHistory, Ready, Loading, Sample
<1> QED
  BY <1>1, <1>3

(* Published samples only name reported boundaries. *)
LEMMA ResetsReportedHolds == Spec => []ResetsReported
<1>1. Init => ResetsReported
  <2> SUFFICES ASSUME Init, NEW s \in Scopes PROVE snapshots[s].sample.reset = None
    BY DEF ResetsReported
  <2>1. snapshots[s] = StartSnapshot(s, Loading, wall)
    BY DEF Init, ActorInit
  <2> QED
    BY <2>1 DEF StartSnapshot, Restore, ApplyLocalHistory, HasSample, Loading, NoSample
<1>2. ActorTypeOK /\ ResetsReported /\ [Next]_vars => ResetsReported'
  <2> SUFFICES ASSUME ActorTypeOK, ResetsReported, [Next]_vars, NEW s \in Scopes
               PROVE  snapshots'[s].sample.reset \in Boundaries \cup {None}
    BY DEF ResetsReported
  <2>1. SnapshotChange(s)
    BY SnapshotChanges
  <2>2. /\ snapshots[s] \in ProviderSnapshot
        /\ snapshots[s].sample.reset \in Boundaries \cup {None}
    BY DEF ActorTypeOK, ResetsReported
  <2>3. CASE QuietChange(s) \/ FetchStarts(s)
    BY <2>2, <2>3, SampleKept DEF SameFetch
  <2>4. CASE FetchEnds(s)
    <3>1. ASSUME NEW sample \in Sample, NEW window \in BOOLEAN,
                 sample.reset \in Boundaries \cup {None},
                 snapshots'[s] = ApplySuccess(snapshots[s], sample, window, wall)
          PROVE  snapshots'[s].sample.reset \in Boundaries \cup {None}
      BY <2>2, <3>1, SuccessReset
    <3>2. ASSUME NEW error, NEW retryAfter,
                 snapshots'[s] = ApplyFailure(snapshots[s], error, retryAfter, wall)
          PROVE  snapshots'[s].sample.reset \in Boundaries \cup {None}
      BY <2>2, <3>2 DEF ApplyFailure, KeepHistory, Ready, Unavailable, Loading, NoSample
    <3> QED
      BY <2>4, <3>1, <3>2 DEF FetchEnds
  <2> QED
    BY <2>1, <2>3, <2>4 DEF SnapshotChange
<1> QED
  BY <1>1, <1>2, ActorTypeCorrect, PTL DEF Spec

------------------------------------------------------------------------------
(* The step simulation.                                                     *)

(* The scheduler's operations are the same in both specifications. *)
LEMMA SameOperations ==
    /\ \A open : SetPopupOpen(open) <=> Sched!SetPopupOpen(open)
    /\ \A s, b : ScheduleReset(s, b) <=> Sched!ScheduleReset(s, b)
    /\ \A s, bs, at : ReconcileResets(s, bs, at) <=> Sched!ReconcileResets(s, bs, at)
    /\ TakeDue <=> Sched!TakeDue
    /\ DeadlineReached <=> Sched!DeadlineReached
<1>1. ASSUME NEW s, NEW b PROVE Arm(s, b) <=> Sched!Arm(s, b)
  BY DEF Arm, Sched!Arm, ProjectResetDeadline, Sched!ProjectResetDeadline,
     ProjectWallDeadline, Sched!ProjectWallDeadline, ResetRefreshAt,
     Sched!ResetRefreshAt, Later, Sched!Later
<1>2. ASSUME NEW b PROVE Representable(b) <=> Sched!Representable(b)
  BY DEF Representable, Sched!Representable
<1>3. ASSUME NEW s, NEW bs, NEW at PROVE Eligible(s, bs, at) = Sched!Eligible(s, bs, at)
  BY DEF Eligible, Sched!Eligible, Representable, Sched!Representable,
     ResetRefreshAt, Sched!ResetRefreshAt
<1>4. ASSUME NEW open PROVE SetPopupOpen(open) <=> Sched!SetPopupOpen(open)
  BY DEF SetPopupOpen, Sched!SetPopupOpen, PopupOpen, Sched!PopupOpen, None, Sched!None
<1>5. ASSUME NEW s, NEW b PROVE ScheduleReset(s, b) <=> Sched!ScheduleReset(s, b)
  BY <1>1, <1>2 DEF ScheduleReset, Sched!ScheduleReset, Armable, Sched!Armable
<1>6. ASSUME NEW s, NEW bs, NEW at
      PROVE  ReconcileResets(s, bs, at) <=> Sched!ReconcileResets(s, bs, at)
  BY <1>1, <1>3 DEF ReconcileResets, Sched!ReconcileResets, NoReset, Sched!NoReset,
     None, Sched!None
<1>7. /\ NormalIsDue <=> Sched!NormalIsDue
      /\ PopupIsDue <=> Sched!PopupIsDue
      /\ \A s : ResetIsDue(s) <=> Sched!ResetIsDue(s)
  BY DEF NormalIsDue, Sched!NormalIsDue, PopupIsDue, Sched!PopupIsDue,
     PopupOpen, Sched!PopupOpen, ResetIsDue, Sched!ResetIsDue, None, Sched!None
<1>8. TakeDue <=> Sched!TakeDue
  BY <1>7 DEF TakeDue, Sched!TakeDue, NoReset, Sched!NoReset, None, Sched!None
<1>9. DeadlineReached <=> Sched!DeadlineReached
  BY <1>7 DEF DeadlineReached, Sched!DeadlineReached, PeriodicIsDue, Sched!PeriodicIsDue
<1> QED
  BY <1>4, <1>5, <1>6, <1>8, <1>9

(* Every actor step is a scheduler step or a stuttering one. *)
LEMMA StepsSimulate ==
    ASSUME ActorTypeOK, ClocksBounded, ResetsReported, [Next]_vars
    PROVE  [Sched!Next]_Sched!vars
<1> USE SchedulerAssumption, ActorAssumption
<1>1. CASE UNCHANGED <<clockVars, schedVars>>
  BY <1>1 DEF Sched!vars, Sched!clockVars, Sched!schedVars, clockVars, schedVars
<1>2. CASE UNCHANGED vars \/ ClientStep \/ StopStep
  BY <1>1, <1>2 DEF vars, ClientStep, StopStep, SubmitRefresh, SubmitPopup,
     SubmitReset, Submit, RequestShutdown, BeginDrain, DrainWorkers, Stopped
<1>3. CASE ClockStep
  BY <1>3 DEF ClockStep, TickClock, StepClock, ClocksMatter, Tick, StepWall,
     schedVars, Sched!Next, Sched!TickClock, Sched!StepClock, Sched!Tick,
     Sched!StepWall, Sched!schedVars
<1>4. CASE AdmitStep
  BY <1>1, <1>4 DEF AdmitStep, AdmitUnknown, AdmitCoalesced, AdmitHistoryOnly,
     AdmitStarted, AdmitQueued, Admitting
<1>5. CASE FillStep
  BY <1>1, <1>5 DEF FillStep, FillSlot, FillDone
<1>6. CASE OptionalStep
  BY <1>1, <1>6 DEF OptionalStep, OptionalReturned, OptionalFailed,
     ReapSuperseded, FinishOptional, Joined
<1>7. CASE SelectStep
  <2>1. CASE TakeRefresh
    BY <1>1, <2>1 DEF TakeRefresh, TakeCommand
  <2>2. CASE TakePopup
    <3>1. Head(commands) \in RuntimeCommand /\ Head(commands).op = "popup"
      BY <2>2 DEF TakePopup, TakeCommand, ActorTypeOK
    <3>2. Head(commands).open \in BOOLEAN
      BY <3>1 DEF RuntimeCommand, Refresh, Popup, Reset
    <3>3. SetPopupOpen(Head(commands).open) /\ UNCHANGED clockVars
      BY <2>2 DEF TakePopup, TakeCommand
    <3>4. \/ Sched!SetPopupOpen(TRUE) /\ UNCHANGED clockVars
          \/ Sched!SetPopupOpen(FALSE) /\ UNCHANGED clockVars
      BY <3>2, <3>3, SameOperations
    <3> QED
      BY <3>4 DEF Sched!Next, Sched!OpenPopup, Sched!ClosePopup, clockVars, Sched!clockVars
  <2>3. CASE TakeScheduleReset
    <3> DEFINE s == Head(commands).scope
               b == Head(commands).boundary
    <3>1. Head(commands) \in RuntimeCommand /\ Head(commands).op = "reset"
      BY <2>3 DEF TakeScheduleReset, TakeCommand, ActorTypeOK
    <3>2. b \in Boundaries
      BY <3>1 DEF RuntimeCommand, Refresh, Popup, Reset
    <3>3. UNCHANGED clockVars
      BY <2>3 DEF TakeScheduleReset, TakeCommand
    <3>4. CASE s \in Scopes
      <4>1. Sched!ScheduleReset(s, b)
        BY <2>3, <3>4, SameOperations DEF TakeScheduleReset
      <4> QED
        BY <3>2, <3>3, <3>4, <4>1 DEF Sched!Next, Sched!CommandReset, clockVars,
           Sched!clockVars
    <3>5. CASE s \notin Scopes
      BY <1>1, <2>3, <3>3, <3>5 DEF TakeScheduleReset
    <3> QED
      BY <3>4, <3>5
  <2>4. CASE TakeScheduleDue
    <3>1. Sched!TakeDue /\ Sched!DeadlineReached /\ UNCHANGED clockVars
      BY <2>4, SameOperations DEF TakeScheduleDue
    <3> QED
      BY <3>1 DEF Sched!Next, Sched!Poll, clockVars, Sched!clockVars
  <2> QED
    BY <1>7, <2>1, <2>2, <2>3, <2>4 DEF SelectStep
<1>8. CASE RequiredStep
  <2>1. PICK w \in workers : \/ RequiredSucceeded(w) \/ RequiredMismatched(w)
                             \/ RequiredFailed(w) \/ RequiredPanicked(w)
    BY <1>8 DEF RequiredStep
  <2>2. w.scope \in Scopes /\ w.gen \in Nat
    BY DEF ActorTypeOK, Worker
  <2>3. UNCHANGED clockVars
    BY <2>1, SuccessCases DEF Success, RequiredMismatched, RequiredFailed,
       RequiredPanicked, FinishRequired, Joined
  <2>4. ASSUME NEW bs \in SUBSET Boundaries, NEW at \in 1 .. 2 * MaxTime,
               ReconcileResets(w.scope, bs, at)
        PROVE  Sched!Next
    <3>1. Sched!ReconcileResets(w.scope, bs, at)
      BY <2>4, SameOperations
    <3> QED
      BY <2>2, <2>3, <3>1 DEF Sched!Next, Sched!Reconcile, clockVars, Sched!clockVars
  <2>5. CASE RequiredSucceeded(w)
    <3>1. PICK at \in SampleTimes, cost \in {None, w.gen},
               reset \in Boundaries \cup {None}, window \in BOOLEAN :
               Success(w, at, cost, reset, window)
      BY <2>5, SuccessCases
    <3> DEFINE fetched == SuccessSample(w, at, cost, reset)
               next == SuccessResult(w, at, cost, reset, window)
    <3>2. fetched \in Sample /\ fetched.reset = reset /\ fetched.fetchedAt = at
      <4>1. cost \in Nat /\ reset \in Nat /\ at \in Nat
        BY <2>2 DEF None
      <4> QED
        BY <2>2, <4>1 DEF SuccessSample, Sample
    <3>3. /\ next.sample.reset \in {reset, snapshots[w.scope].sample.reset}
          /\ next.sample.fetchedAt = at
      <4>1. snapshots[w.scope] \in ProviderSnapshot
        BY <2>2 DEF ActorTypeOK
      <4>2. next = ApplySuccess(snapshots[w.scope], fetched, window, wall)
        BY DEF SuccessResult
      <4> HIDE DEF fetched, next
      <4> QED
        BY <3>2, <4>1, <4>2, SuccessReset
    <3>4. next.sample.reset \in Boundaries \cup {None}
      BY <2>2, <3>3 DEF ResetsReported
    <3>5. ReconcileResets(w.scope, {next.sample.reset} \ {None}, next.sample.fetchedAt)
      BY <3>1 DEF Success
    <3> HIDE DEF next
    <3>6. {next.sample.reset} \ {None} \in SUBSET Boundaries
      BY <3>4
    <3> QED
      BY <2>4, <3>3, <3>5, <3>6
  <2>6. CASE RequiredMismatched(w) \/ RequiredPanicked(w)
    BY <1>1, <2>3, <2>6 DEF RequiredMismatched, RequiredPanicked
  <2>7. CASE RequiredFailed(w)
    <3>1. CASE UNCHANGED schedVars
      BY <1>1, <2>3, <3>1
    <3>2. CASE ~UNCHANGED schedVars
      <4>1. ReconcileResets(w.scope, {}, wall)
        BY <2>7, <3>2 DEF RequiredFailed, ClearResetBoundary
      <4>2. wall \in 1 .. 2 * MaxTime
        <5>1. mono \in Nat /\ wall \in Nat \ {0}
          BY DEF ActorTypeOK, SchedulerTypeOK
        <5> QED
          BY <5>1 DEF ClocksBounded
      <4>3. {} \in SUBSET Boundaries
        OBVIOUS
      <4> QED
        BY <2>4, <4>1, <4>2, <4>3
    <3> QED
      BY <3>1, <3>2
  <2> QED
    BY <2>1, <2>5, <2>6, <2>7
<1> QED
  BY <1>2, <1>3, <1>4, <1>5, <1>6, <1>7, <1>8 DEF Next

(* Every behaviour of the actor is one of SchedulerMachine: the scheduler's *)
(* guarantees hold inside the actor.                                        *)
THEOREM ActorImplementsScheduler == Spec => ImplementsScheduler
<1>1. Init => Sched!Init
  BY DEF Init, Sched!Init, ClockInit, Sched!ClockInit, SchedulerInit,
     Sched!SchedulerInit, NoReset, Sched!NoReset, None, Sched!None
<1> QED
  BY <1>1, StepsSimulate, ActorTypeCorrect, ClocksBoundedHolds,
     ResetsReportedHolds, PTL DEF Spec, Sched!Spec, ImplementsScheduler

(****************************************************************************)
(* What the daemon keeps across restarts, for every number of restarts,     *)
(* every cache its processes can leave behind and every wall clock they     *)
(* find.  A process starts from the cache or takes a step of the actor, so  *)
(* each invariant has two parts: a new process establishes it, whatever the *)
(* cache holds, and the actor's steps keep it.                              *)
(****************************************************************************)

(* The state run_loop gives a new process, read from the cache on disk. *)
ProcessStart ==
    /\ SchedulerInit
    /\ pc = "select" /\ todo = {} /\ enrich = {} /\ commands = Startup
    /\ workers = {}
    /\ activeRequired = [s \in Scopes |-> None]
    /\ activeOptional = [s \in Scopes |-> None]
    /\ pending = <<>> /\ pendingScopes = {}
    /\ generations = [s \in Scopes |-> 0]
    /\ cooldowns = [s \in Scopes |-> StartCooldown(disk[s], wall, mono)]
    /\ failures = [s \in Scopes |-> StartFailures(disk[s], wall)]
    /\ lastAttempts = [s \in Scopes |-> None]
    /\ snapshots = [s \in Scopes |-> StartSnapshot(s, disk[s], wall)]
    /\ shutdown = FALSE

(* What outlives a process: clocks, cache and the model's counters. *)
OutlivesTypeOK ==
    /\ mono \in Nat \ {0} /\ wall \in Nat \ {0} /\ steps \in Nat
    /\ submitted \in Nat
    /\ disk \in [Scopes -> ProviderSnapshot]
    /\ unseen \in BOOLEAN
    /\ owed \in [Scopes -> Nat]
    /\ restarts \in Nat

(* The snapshot a cached one is restored to: well typed, accepted by the    *)
(* domain, with a local history exactly where the source has one, never     *)
(* fresh, and with no activity where there is a local history.              *)
LEMMA StartSnapshots ==
    ASSUME NEW s \in Scopes, NEW retained \in ProviderSnapshot, NEW now \in Nat \ {0}
    PROVE  LET start == StartSnapshot(s, retained, now)
           IN  /\ start \in ProviderSnapshot
               /\ IsValid(start)
               /\ start.phase = "Idle"
               /\ ~IsFresh(start)
               /\ start.history # NoHistory <=> s \in HistoryScopes
               /\ s \in HistoryScopes => start.data = None /\ start.sample.cost = None
<1> DEFINE restored == Restore(retained, now)
<1> USE DEF None, NoHistory
<1>1. /\ restored \in ProviderSnapshot /\ restored.history = NoHistory
      /\ restored.phase = "Idle"
      /\ HasSample(restored) => /\ restored.stale # None
                                /\ restored.stale >= restored.sample.fetchedAt
                                /\ restored.error = NoError
      /\ ~HasSample(restored) => restored = Loading
  <2>1. Later(now, retained.sample.fetchedAt) \in Nat \ {0}
        /\ Later(now, retained.sample.fetchedAt) >= retained.sample.fetchedAt
    BY DEF Later, ProviderSnapshot, Sample
  <2>2. CASE HasSample(retained)
    <3> DEFINE since == Later(now, retained.sample.fetchedAt)
    <3>1. restored = Ready(retained.sample, since, NoError, None)
      BY <2>2 DEF Restore
    <3> HIDE DEF since, restored
    <3> QED
      BY <2>1, <3>1 DEF Ready, Loading, NoSample, HasSample, ProviderSnapshot,
         RefreshPhase, NoError, since
  <2>3. CASE ~HasSample(retained)
    BY <2>3 DEF Restore, Loading, NoSample, HasSample, ProviderSnapshot, Sample,
       RefreshPhase, NoError
  <2> QED
    BY <2>2, <2>3
<1> HIDE DEF restored
<1>2. CASE s \notin HistoryScopes
  <2>1. StartSnapshot(s, retained, now) = restored
    BY <1>2 DEF StartSnapshot, restored
  <2> QED
    BY <1>1, <1>2, <2>1 DEF IsValid, IsFresh, HasSample
<1>3. CASE s \in HistoryScopes
  <2> DEFINE start == ApplyLocalHistory(restored, "Scanning", None)
  <2>1. StartSnapshot(s, retained, now) = start
    BY <1>3 DEF StartSnapshot, restored
  <2>2. start \in ProviderSnapshot
    BY <1>1 DEF ApplyLocalHistory, ProviderSnapshot, Sample, LocalHistoryState
  <2>3. /\ start.state = restored.state /\ start.stale = restored.stale
        /\ start.error = restored.error /\ start.phase = restored.phase
        /\ start.sample.fetchedAt = restored.sample.fetchedAt
        /\ start.history = "Scanning" /\ start.data = None
    BY <1>1 DEF ApplyLocalHistory, ProviderSnapshot, Sample
  <2>4. start.sample.cost = None
    BY <1>1 DEF ApplyLocalHistory, ProviderSnapshot, Sample, Loading, NoSample, HasSample
  <2> HIDE DEF start
  <2> QED
    BY <1>1, <1>3, <2>1, <2>2, <2>3, <2>4 DEF IsValid, IsFresh, HasSample
<1> QED
  BY <1>2, <1>3

(* The cooldown a cached overlay is turned into, and its failure count. *)
LEMMA StartBackoff ==
    ASSUME NEW retained \in ProviderSnapshot, NEW now \in Nat, NEW at \in Nat
    PROVE  /\ StartCooldown(retained, now, at) \in Nat
           /\ StartFailures(retained, now) \in 0 .. 6
<1> USE DEF None
<1>1. RetainedDelay(retained, now) \in Nat
  <2> DEFINE delay == AutomaticBackoffDelay(retained.error, retained.retryAfter, 1)
             elapsed == IF retained.stale >= now THEN 0 ELSE now - retained.stale
  <2>1. Multiplier[1] \in Nat
    BY MultiplierType
  <2>2. BackoffBase(retained.error) * Multiplier[1] \in Nat
    BY <2>1, ActorAssumption DEF BackoffBase
  <2>3. Smaller(BackoffBase(retained.error) * Multiplier[1], BackoffCap) \in Nat
    BY <2>2, ActorAssumption DEF Smaller
  <2>4. delay \in Nat
    BY <2>3 DEF AutomaticBackoffDelay, Later, ProviderSnapshot
  <2>5. elapsed \in Nat
    BY DEF ProviderSnapshot
  <2>6. RetainedDelay(retained, now) \in {None, delay - elapsed}
        /\ (elapsed < delay \/ RetainedDelay(retained, now) = None)
    <3> HIDE DEF elapsed
    <3> QED
      BY <2>4, <2>5 DEF RetainedDelay, elapsed
  <2> HIDE DEF delay, elapsed
  <2> QED
    BY <2>4, <2>5, <2>6
<1> QED
  BY <1>1 DEF StartCooldown, StartFailures

------------------------------------------------------------------------------
(* The actor's promises, as one invariant of the steps of a process.        *)

ActorSafe ==
    /\ ActorTypeOK
    /\ EnrichmentWaits /\ PendingConsistent /\ OneFetchPerScope
    /\ NoIdleSlot /\ ActiveHasWorker
    /\ HistoryMatches /\ ScansInOrder /\ ScanHasWorker
    /\ NoRuntimeFault /\ NeverStuckRefreshing
    /\ EnrichesShownSample /\ LedgerBelongsToSample

(* No step of the actor breaks one of them. *)
LEMMA ActorSafeStep ==
    ASSUME ActorSafe, [Next]_vars
    PROVE  ActorSafe'
<1>1. /\ ActorTypeOK /\ EnrichmentWaits /\ PendingConsistent /\ OneFetchPerScope
      /\ NoIdleSlot /\ ActiveHasWorker /\ HistoryMatches /\ ScansInOrder
      /\ ScanHasWorker /\ NoRuntimeFault /\ NeverStuckRefreshing
      /\ EnrichesShownSample /\ LedgerBelongsToSample
  BY DEF ActorSafe
<1>2. ActorTypeOK' /\ EnrichmentWaits' /\ PendingConsistent' /\ OneFetchPerScope'
  BY <1>1, ActorTypeStep, EnrichmentWaitsStep, PendingConsistentStep, OneFetchPerScopeStep
<1>3. NoIdleSlot' /\ ActiveHasWorker'
  BY <1>1, <1>2, NoIdleSlotStep, ActiveHasWorkerStep
<1>4. HistoryMatches' /\ ScansInOrder'
  BY <1>1, HistoryMatchesStep, ScansInOrderStep
<1>5. ScanHasWorker'
  BY <1>1, <1>4, ScanHasWorkerStep
<1>6. NoRuntimeFault' /\ NeverStuckRefreshing'
  BY <1>1, NoRuntimeFaultStep, NeverStuckRefreshingStep
<1>7. EnrichesShownSample' /\ LedgerBelongsToSample'
  BY <1>1, EnrichesShownSampleStep, LedgerBelongsToSampleStep
<1> QED
  BY <1>2, <1>3, <1>4, <1>5, <1>6, <1>7 DEF ActorSafe

(* What the cache may hold: snapshots, and with a sample of a scope without *)
(* local history no ledger but that of its own fetch.                       *)
CacheSound ==
    \A s \in Scopes \ HistoryScopes :
        HasSample(disk[s]) => disk[s].sample.cost \in {None, disk[s].sample.gen}

(* A new process is well typed. *)
LEMMA StartTypes == ProcessStart /\ OutlivesTypeOK => ActorTypeOK
<1> SUFFICES ASSUME ProcessStart, OutlivesTypeOK PROVE ActorTypeOK
  OBVIOUS
<1> USE DEF ProcessStart, OutlivesTypeOK
<1>1. SchedulerTypeOK
  BY SchedulerAssumption DEF SchedulerInit, SchedulerTypeOK, ResetDeadline, NoReset, None
<1>2. \A s \in Scopes : /\ StartSnapshot(s, disk[s], wall) \in ProviderSnapshot
                        /\ StartCooldown(disk[s], wall, mono) \in Nat
                        /\ StartFailures(disk[s], wall) \in 0 .. 6
  BY StartSnapshots, StartBackoff
<1>3. /\ snapshots \in [Scopes -> ProviderSnapshot]
      /\ cooldowns \in [Scopes -> Nat] /\ failures \in [Scopes -> 0 .. 6]
  BY <1>2
<1>4. /\ activeRequired \in [Scopes -> Nat] /\ activeOptional \in [Scopes -> Nat]
      /\ generations \in [Scopes -> Nat] /\ lastAttempts \in [Scopes -> Nat]
  BY DEF None
<1>5. commands \in Seq(RuntimeCommand)
  <2>1. {Refresh(s, "Periodic") : s \in Scopes} \subseteq RuntimeCommand
    BY CommandsTyped DEF AnyScope, Trigger
  <2>2. \A S, T : S \subseteq T => Seq(S) \subseteq Seq(T)
    OBVIOUS
  <2> QED
    BY <2>1, <2>2, DaemonAssumption
<1>6. pending \in Seq(QueuedRequest)
  OBVIOUS
<1>7. /\ pc = "select" /\ todo = {} /\ enrich = {} /\ submitted \in Nat
      /\ workers = {} /\ pendingScopes = {} /\ shutdown = FALSE
  OBVIOUS
<1> HIDE DEF ProcessStart, OutlivesTypeOK
<1> QED
  BY <1>1, <1>3, <1>4, <1>5, <1>6, <1>7 DEF ActorTypeOK

(* Whatever is in the cache, a new process keeps every promise. *)
LEMMA StartIsSafe == ProcessStart /\ OutlivesTypeOK /\ CacheSound => ActorSafe
<1> SUFFICES ASSUME ProcessStart, OutlivesTypeOK, CacheSound PROVE ActorSafe
  OBVIOUS
<1>1. ActorTypeOK
  BY StartTypes
<1>2. /\ pc = "select" /\ enrich = {} /\ workers = {} /\ pending = <<>> /\ pendingScopes = {}
      /\ \A s \in Scopes : /\ activeRequired[s] = None /\ activeOptional[s] = None
                           /\ generations[s] = 0
  BY DEF ProcessStart
<1>3. EnrichmentWaits /\ PendingConsistent /\ NoIdleSlot /\ ActiveHasWorker
  BY <1>2 DEF EnrichmentWaits, PendingConsistent, NoIdleSlot, ActiveHasWorker
<1>4. OneFetchPerScope
  <2>1. ActiveScopes = {} /\ RequiredWorkers = {}
    BY <1>2 DEF ActiveScopes, RequiredWorkers
  <2> QED
    BY <2>1, FS_EmptySet, ActorAssumption DEF OneFetchPerScope
<1>5. \A s \in Scopes :
         /\ snapshots[s] \in ProviderSnapshot /\ IsValid(snapshots[s])
         /\ snapshots[s].phase = "Idle"
         /\ snapshots[s].history # NoHistory <=> s \in HistoryScopes
         /\ s \in HistoryScopes => snapshots[s].data = None /\ snapshots[s].sample.cost = None
  BY StartSnapshots DEF ProcessStart, OutlivesTypeOK
<1>6. HistoryMatches /\ NoRuntimeFault /\ NeverStuckRefreshing
  BY <1>5 DEF HistoryMatches, NoRuntimeFault, NeverStuckRefreshing
<1>7. ScansInOrder
  BY <1>2, <1>5, ActorAssumption DEF ScansInOrder, None
<1>8. ScanHasWorker /\ EnrichesShownSample
  BY <1>2 DEF ScanHasWorker, EnrichesShownSample
<1>9. LedgerBelongsToSample
  <2> SUFFICES ASSUME NEW s \in Scopes \ HistoryScopes, HasSample(snapshots[s])
               PROVE  snapshots[s].sample.cost \in {None, snapshots[s].sample.gen}
    BY <1>5 DEF LedgerBelongsToSample
  <2>1. snapshots[s] = Restore(disk[s], wall)
    BY DEF ProcessStart, StartSnapshot
  <2>2. HasSample(disk[s])
    BY <2>1 DEF Restore, HasSample, Loading
  <2>3. snapshots[s].sample = disk[s].sample
    BY <2>1, <2>2 DEF Restore, Ready, Loading
  <2> QED
    BY <2>2, <2>3 DEF CacheSound
<1> QED
  BY <1>1, <1>3, <1>4, <1>6, <1>7, <1>8, <1>9 DEF ActorSafe

------------------------------------------------------------------------------
(* The daemon.  Each of its steps starts a process or is one of the actor,  *)
(* beside which the persistence task writes the cache.                      *)

DaemonSafe == ActorSafe /\ OutlivesTypeOK /\ CacheSound

(* Initially and after a restart, a process starts from the cache. *)
LEMMA RestartStarts ==
    /\ DaemonInit => ProcessStart /\ OutlivesTypeOK /\ CacheSound
    /\ DaemonSafe /\ Restart => (ProcessStart /\ OutlivesTypeOK /\ CacheSound)'
<1>1. DaemonInit => ProcessStart /\ OutlivesTypeOK /\ CacheSound
  <2> SUFFICES ASSUME DaemonInit PROVE ProcessStart /\ OutlivesTypeOK /\ CacheSound
    OBVIOUS
  <2>1. ProcessStart
    BY DEF DaemonInit, ActorInit, ProcessStart
  <2>2. Loading \in ProviderSnapshot
    BY DEF Loading, ProviderSnapshot, NoSample, Sample, None, RefreshPhase,
       NoError, NoHistory
  <2>3. OutlivesTypeOK
    <3>1. /\ mono = 1 /\ wall = 1 /\ steps = 0 /\ submitted = 0 /\ unseen = FALSE
          /\ disk = [s \in Scopes |-> Loading] /\ owed = [s \in Scopes |-> 0]
          /\ restarts = 0
      BY DEF DaemonInit, ActorInit, ClockInit, NoCache, None
    <3>2. unseen \in BOOLEAN
      BY <3>1
    <3>3. /\ mono \in Nat \ {0} /\ wall \in Nat \ {0} /\ steps \in Nat
          /\ submitted \in Nat /\ restarts \in Nat /\ owed \in [Scopes -> Nat]
      BY <3>1
    <3>4. disk \in [Scopes -> ProviderSnapshot]
      BY <2>2, <3>1
    <3> QED
      BY <3>2, <3>3, <3>4 DEF OutlivesTypeOK
  <2>4. CacheSound
    BY DEF DaemonInit, NoCache, CacheSound, HasSample, Loading
  <2> QED
    BY <2>1, <2>3, <2>4
<1>2. ASSUME DaemonSafe, Restart
      PROVE  (ProcessStart /\ OutlivesTypeOK /\ CacheSound)'
  <2>1. ProcessStart'
    BY <1>2 DEF Restart, ProcessStart, SchedulerInit, clockVars
  <2>2. OutlivesTypeOK' /\ CacheSound'
    <3>1. /\ UNCHANGED <<mono, wall, steps, submitted, disk, owed>>
          /\ unseen' = FALSE /\ restarts' = restarts + 1
      BY <1>2 DEF Restart, clockVars
    <3>2. OutlivesTypeOK /\ CacheSound
      BY <1>2 DEF DaemonSafe
    <3>3. unseen' \in BOOLEAN
      BY <3>1
    <3>4. restarts' \in Nat
      BY <3>1, <3>2 DEF OutlivesTypeOK
    <3> QED
      BY <3>1, <3>2, <3>3, <3>4, Zenon DEF OutlivesTypeOK, CacheSound
  <2> QED
    BY <2>1, <2>2
<1> QED
  BY <1>1, <1>2

(* Within a process, cache and actor stay sound. *)
LEMMA ProcessSteps ==
    ASSUME DaemonSafe, ActorStep \/ Persist \/ UNCHANGED daemonVars
    PROVE  [Next]_vars /\ DaemonSafe'
<1>1. [Next]_vars
  BY DEF ActorStep, Persist, daemonVars
<1>2. ActorSafe'
  BY <1>1, ActorSafeStep DEF DaemonSafe
<1>3. /\ mono' \in Nat \ {0} /\ wall' \in Nat \ {0} /\ steps' \in Nat
      /\ submitted' \in Nat
  BY <1>2 DEF ActorSafe, ActorTypeOK, SchedulerTypeOK
<1>4. /\ disk' \in [Scopes -> ProviderSnapshot] /\ unseen' \in BOOLEAN
      /\ owed' \in [Scopes -> Nat] /\ restarts' \in Nat /\ CacheSound'
  <2>0. /\ snapshots \in [Scopes -> ProviderSnapshot] /\ LedgerBelongsToSample
        /\ OutlivesTypeOK /\ CacheSound
    BY DEF DaemonSafe, ActorSafe, ActorTypeOK
  <2>1. CASE ActorStep
    BY <2>0, <2>1 DEF ActorStep, OutlivesTypeOK, CacheSound, None
  <2>2. CASE Persist
    <3>1. \A s \in Scopes : snapshots[s].stale + snapshots[s].retryAfter \in Nat
      BY <2>0 DEF ProviderSnapshot
    <3>2. owed' \in [Scopes -> Nat]
      BY <2>0, <2>2, <3>1 DEF Persist, OutlivesTypeOK
    <3>3. CacheSound'
      BY <2>0, <2>2 DEF Persist, CacheSound, LedgerBelongsToSample
    <3> QED
      BY <2>0, <2>2, <3>2, <3>3 DEF Persist, OutlivesTypeOK
  <2>3. CASE UNCHANGED daemonVars
    BY <2>0, <2>3 DEF daemonVars, diskVars, OutlivesTypeOK, CacheSound
  <2> QED
    BY <2>1, <2>2, <2>3
<1> QED
  BY <1>1, <1>2, <1>3, <1>4 DEF DaemonSafe, OutlivesTypeOK

(* Every promise of the actor holds of every process the daemon runs. *)
LEMMA DaemonSafeHolds == DaemonSpec => []DaemonSafe
<1>1. DaemonInit => DaemonSafe
  BY RestartStarts, StartIsSafe DEF DaemonSafe
<1>2. DaemonSafe /\ [DaemonNext]_daemonVars
         => DaemonSafe' \/ (ProcessStart /\ OutlivesTypeOK /\ CacheSound)'
  BY RestartStarts, ProcessSteps DEF DaemonNext
<1>3. ProcessStart /\ OutlivesTypeOK /\ CacheSound => DaemonSafe
  BY StartIsSafe DEF DaemonSafe
<1> QED
  BY <1>1, <1>2, <1>3, PTL DEF DaemonSpec

(* The promises a run of the actor checks from an empty cache hold of every *)
(* process of the daemon, however often it is killed and whatever the cache *)
(* holds then: fetches are bounded and unique, the queue is consistent,     *)
(* work in hand is run, no publication faults, no refresh is stuck and no   *)
(* ledger is shown with another fetch's sample.                             *)
THEOREM EveryProcessKeepsPromises ==
    DaemonSpec => [](/\ FetchesBounded /\ PendingConsistent /\ WorkIsInHand
                     /\ NoRuntimeFault /\ NeverStuckRefreshing
                     /\ LedgerBelongsToSample)
<1>1. DaemonSafe => /\ FetchesBounded /\ PendingConsistent /\ WorkIsInHand
                    /\ NoRuntimeFault /\ NeverStuckRefreshing
                    /\ LedgerBelongsToSample
  BY OneFetchBounds DEF DaemonSafe, ActorSafe, WorkIsInHand, WorkConserving, NoIdleSlot
<1> QED
  BY <1>1, DaemonSafeHolds, PTL

------------------------------------------------------------------------------
(* Activity.  Before the first worker of a scope is started nothing has     *)
(* been scanned in this process.                                            *)

Unscanned(s) == snapshots[s].data = None /\ snapshots[s].sample.cost = None
NothingScanned == \A s \in HistoryScopes : generations[s] = 0 => Unscanned(s)

(* A step that shows activity joins a scan of this process. *)
LEMMA NothingScannedStep ==
    ASSUME ActorSafe, NothingScanned, [Next]_vars
    PROVE  NothingScanned'
<1> SUFFICES ASSUME NEW s \in HistoryScopes, generations'[s] = 0 PROVE Unscanned(s)'
  BY DEF NothingScanned
<1> USE DEF None
<1>0. /\ s \in Scopes /\ snapshots[s] \in ProviderSnapshot /\ wall \in Nat
      /\ generations[s] \in Nat /\ activeOptional[s] \in Nat
      /\ activeOptional[s] # None => activeOptional[s] <= generations[s]
      /\ snapshots[s].history # NoHistory
  BY ActorAssumption DEF ActorSafe, ActorTypeOK, SchedulerTypeOK, ScansInOrder,
     HistoryMatches
<1>1. /\ generations[s] = 0
      /\ snapshots'[s].data = snapshots[s].data
  <2>1. CASE ScanKept(s)
    BY <1>0, <2>1 DEF ScanKept
  <2>2. CASE ScanStarts(s) \/ ScanEnds(s)
    BY <1>0, <2>2, ScanEffects DEF ActorSafe
  <2> QED
    BY <2>1, <2>2, ScanSteps DEF ActorSafe
<1>2. snapshots[s].data = None /\ snapshots[s].sample.cost = None
  BY <1>1 DEF NothingScanned, Unscanned
<1>3. snapshots'[s].sample.cost = None
  <2> DEFINE current == snapshots[s]
  <2>1. SnapshotChange(s)
    BY <1>0, SnapshotChanges DEF ActorSafe
  <2>2. \A state : MarkHistoryState(current, state).sample.cost = None
    BY <1>0, <1>2 DEF MarkHistoryState, ApplyLocalHistory, ProviderSnapshot, Sample
  <2>3. CASE QuietChange(s)
    <3>1. \A at : MarkScheduled(current, at).sample.cost = None
      BY <1>0, <1>2 DEF MarkScheduled, SetReadyRefreshPhase, ProviderSnapshot
    <3>2. ASSUME NEW state, NEW data, snapshots'[s] = ApplyLocalHistory(current, state, data)
          PROVE  snapshots'[s].sample.cost = None
      <4>1. data = None
        BY <1>0, <1>1, <1>2, <3>2, TransitionsKeepHistory
      <4> QED
        BY <1>0, <1>2, <3>2, <4>1 DEF ApplyLocalHistory, ProviderSnapshot, Sample
    <3> QED
      BY <1>2, <2>2, <2>3, <3>1, <3>2 DEF QuietChange
  <2>4. CASE FetchStarts(s)
    <3> DEFINE marked == MarkRefreshing(current, wall)
    <3>1. /\ marked \in ProviderSnapshot /\ marked.sample.cost = None
          /\ marked.data = None
      BY <1>0, <1>2, MarkTypes DEF MarkRefreshing, SetReadyRefreshPhase, ProviderSnapshot
    <3> HIDE DEF marked
    <3>2. MarkHistoryState(marked, "Scanning").sample.cost = None
      BY <3>1 DEF MarkHistoryState, ApplyLocalHistory, ProviderSnapshot, Sample
    <3> QED
      BY <2>4, <3>1, <3>2 DEF FetchStarts, marked
  <2>5. CASE FetchEnds(s)
    <3>1. ASSUME NEW sample \in Sample, NEW window
          PROVE  ApplySuccess(current, sample, window, wall).sample.cost = None
      <4> DEFINE filled == IF HasSample(current)
                           THEN Backfill(sample, window, current.sample, wall)
                           ELSE sample
      <4>1. filled \in Sample
        BY <1>0 DEF Backfill, ProviderSnapshot, Sample
      <4>2. ApplySuccess(current, sample, window, wall)
              = KeepHistory(current, Ready([filled EXCEPT !.cost = None], None, NoError, None))
        BY <1>0, <1>2 DEF ApplySuccess
      <4> HIDE DEF filled
      <4> QED
        BY <4>1, <4>2 DEF KeepHistory, Ready, Loading, Sample
    <3>2. ASSUME NEW error, NEW retryAfter
          PROVE  ApplyFailure(current, error, retryAfter, wall).sample.cost = None
      BY <1>2 DEF ApplyFailure, KeepHistory, Ready, Unavailable, Loading, NoSample
    <3> QED
      BY <2>5, <3>1, <3>2 DEF FetchEnds
  <2> QED
    BY <2>1, <2>3, <2>4, <2>5 DEF SnapshotChange
<1> QED
  BY <1>1, <1>2, <1>3 DEF Unscanned

(* No process shows activity that another one scanned, and the state read   *)
(* back from the cache is well typed, for every cache a process leaves.     *)
THEOREM NoRetainedActivityHolds == DaemonSpec => []NoRetainedActivity
<1>1. ProcessStart /\ OutlivesTypeOK => NothingScanned
  <2> SUFFICES ASSUME ProcessStart, OutlivesTypeOK, NEW s \in HistoryScopes
               PROVE  Unscanned(s)
    BY DEF NothingScanned
  <2>1. s \in Scopes /\ disk[s] \in ProviderSnapshot /\ wall \in Nat \ {0}
    BY ActorAssumption DEF OutlivesTypeOK
  <2>2. snapshots[s] = StartSnapshot(s, disk[s], wall)
    BY <2>1 DEF ProcessStart
  <2> QED
    BY <2>1, <2>2, StartSnapshots DEF Unscanned
<1>2. DaemonInit => ProcessStart /\ OutlivesTypeOK
  BY RestartStarts
<1>3. DaemonSafe /\ NothingScanned /\ [DaemonNext]_daemonVars
         => NothingScanned' \/ (ProcessStart /\ OutlivesTypeOK)'
  BY RestartStarts, ProcessSteps, NothingScannedStep DEF DaemonNext, DaemonSafe
<1>4. DaemonSafe /\ NothingScanned => NoRetainedActivity
  BY DEF DaemonSafe, ActorSafe, OutlivesTypeOK, NothingScanned, Unscanned,
     NoRetainedActivity, DaemonTypeOK
<1> QED
  BY <1>1, <1>2, <1>3, <1>4, DaemonSafeHolds, PTL DEF DaemonSpec

(* A sample turns fresh only in the step that joins a fetch of its scope:   *)
(* not when it is restored, whatever time the new process finds, and not    *)
(* when the cache is written.                                               *)
THEOREM FreshOnlyByFetchHolds == DaemonSpec => FreshOnlyByFetch
<1> DEFINE Fetched ==
      \A s \in Scopes : IsFresh(snapshots'[s]) /\ ~IsFresh(snapshots[s])
         => \E w \in RequiredWorkers \ workers' : w.scope = s
<1>1. DaemonSafe /\ [DaemonNext]_daemonVars => Fetched
  <2> SUFFICES ASSUME DaemonSafe, [DaemonNext]_daemonVars, NEW s \in Scopes,
                      IsFresh(snapshots'[s]), ~IsFresh(snapshots[s])
               PROVE  \E w \in RequiredWorkers \ workers' : w.scope = s
    OBVIOUS
  <2>0. /\ ActorTypeOK /\ snapshots[s] \in ProviderSnapshot
        /\ disk[s] \in ProviderSnapshot /\ wall \in Nat \ {0}
    BY DEF DaemonSafe, ActorSafe, ActorTypeOK, OutlivesTypeOK
  <2>1. CASE Restart
    <3>1. snapshots'[s] = StartSnapshot(s, disk[s], wall)
      BY <2>1 DEF Restart
    <3> QED
      BY <2>0, <3>1, StartSnapshots
  <2>2. CASE ~Restart
    <3>1. SnapshotChange(s)
      BY <2>0, <2>2, ProcessSteps, SnapshotChanges DEF DaemonNext
    <3>2. CASE QuietChange(s) \/ FetchStarts(s)
      <4>1. snapshots'[s].state = snapshots[s].state /\ snapshots'[s].stale = snapshots[s].stale
        BY <2>0, <3>2 DEF QuietChange, FetchStarts, MarkScheduled, MarkRefreshing,
           SetReadyRefreshPhase, MarkHistoryState, ApplyLocalHistory, ApplyCostUsage,
           ProviderSnapshot
      <4> QED
        BY <4>1 DEF IsFresh, HasSample
    <3>3. CASE FetchEnds(s)
      BY <3>3 DEF FetchEnds
    <3> QED
      BY <3>1, <3>2, <3>3 DEF SnapshotChange
  <2> QED
    BY <2>1, <2>2
<1> QED
  BY <1>1, DaemonSafeHolds, PTL DEF DaemonSpec, FreshOnlyByFetch

==============================================================================
