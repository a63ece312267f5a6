------------------------------ MODULE Scheduler ------------------------------
(****************************************************************************)
(* The refresh scheduler of the runtime actor (crates/runtime/src/          *)
(* scheduler.rs): a normal periodic deadline, an accelerated one while the  *)
(* popup is open, and at most one reset-boundary deadline per account       *)
(* scope.  Deadlines are monotonic instants; reset boundaries are           *)
(* wall-clock timestamps projected onto the monotonic clock once, when they *)
(* are armed.                                                               *)
(*                                                                          *)
(* Instants and timestamps are positive naturals and `None' (zero) stands   *)
(* for Option::None.  Each operation of the Rust type is an action formula  *)
(* over the scheduler's variables; the actor (RuntimeActor) conjoins them   *)
(* with its own changes, and SchedulerMachine drives them from an arbitrary *)
(* caller.                                                                  *)
(****************************************************************************)
EXTENDS Timestamps

CONSTANTS
    Scopes,          \* registered account scopes
    NormalCadence,   \* SchedulePolicy::normal_cadence
    PopupCadence,    \* SchedulePolicy::popup_cadence
    ResetGrace,      \* RESET_BOUNDARY_GRACE
    ResetMinDelay,   \* RESET_BOUNDARY_MINIMUM_DELAY
    MaxTimestamp,    \* last representable wall-clock timestamp
    Boundaries,      \* reset boundaries the environment may report
    MaxTime,         \* bound: the monotonic clock stops here
    MaxSteps         \* bound: how often the wall clock is stepped

ASSUME SchedulerAssumption ==
    /\ NormalCadence \in Nat \ {0}
    /\ PopupCadence \in Nat \ {0}
    /\ PopupCadence < NormalCadence
    /\ ResetGrace \in Nat
    /\ ResetMinDelay \in Nat \ {0}
    /\ MaxTimestamp \in Nat
    /\ Boundaries \subseteq Nat \ {0}
    /\ MaxTime \in Nat \ {0}
    /\ MaxSteps \in Nat

VARIABLES
    mono,            \* Clock::monotonic_now
    wall,            \* Clock::wall_now
    steps,           \* how often the wall clock was stepped so far
    normalDue,       \* Scheduler::normal_due
    popupDue,        \* Scheduler::popup_due, None while the popup is closed
    pendingResets,   \* Scheduler::pending_resets
    lastFired        \* Scheduler::last_fired_resets

clockVars == <<mono, wall, steps>>
schedVars == <<normalDue, popupDue, pendingResets, lastFired>>

NoReset == [boundary |-> None, due |-> None]
ResetDeadline == [boundary : Nat \ {0}, due : Nat \ {0}]

SchedulerTypeOK ==
    /\ mono \in Nat \ {0}
    /\ wall \in Nat \ {0}
    /\ steps \in Nat
    /\ normalDue \in Nat
    /\ popupDue \in Nat
    /\ pendingResets \in [Scopes -> ResetDeadline \cup {NoReset}]
    /\ lastFired \in [Scopes -> Nat]

------------------------------------------------------------------------------
(* Clock: the monotonic clock only advances; the wall clock advances with   *)
(* it but may be stepped to any value (NTP, suspend, user).                 *)

ClockInit == mono = 1 /\ wall = 1 /\ steps = 0

Tick ==
    /\ mono < MaxTime
    /\ mono' = mono + 1
    /\ wall' = wall + 1
    /\ UNCHANGED steps

StepWall ==
    /\ steps < MaxSteps
    /\ \E w \in 1 .. MaxTime : w # wall /\ wall' = w
    /\ steps' = steps + 1
    /\ UNCHANGED mono

------------------------------------------------------------------------------
SchedulerInit ==
    /\ normalDue = mono + NormalCadence
    /\ popupDue = None
    /\ pendingResets = [s \in Scopes |-> NoReset]
    /\ lastFired = [s \in Scopes |-> None]

PopupOpen == popupDue # None

(* Opening an open popup, or closing a closed one, changes nothing. *)
SetPopupOpen(open) ==
    /\ popupDue' = IF ~open THEN None
                   ELSE IF PopupOpen THEN popupDue ELSE mono + PopupCadence
    /\ UNCHANGED <<normalDue, pendingResets, lastFired>>

(* Mutant: the grace after the boundary is forgotten. *)
RefreshAtWithoutGrace(boundary) == boundary

(* reset_refresh_at: the boundary plus the grace, where representable. *)
Representable(boundary) == boundary + ResetGrace <= MaxTimestamp
ResetRefreshAt(boundary) == boundary + ResetGrace

ProjectWallDeadline(at) == IF at <= wall THEN mono ELSE mono + (at - wall)

ProjectResetDeadline(boundary) ==
    Later(ProjectWallDeadline(ResetRefreshAt(boundary)), mono + ResetMinDelay)

Arm(s, boundary) ==
    pendingResets' = [pendingResets EXCEPT
        ![s] = [boundary |-> boundary, due |-> ProjectResetDeadline(boundary)]]

(* schedule_reset returns Ok(true) exactly when Armable holds and the       *)
(* boundary is representable; in the other cases nothing changes.           *)
Armable(s, boundary) ==
    /\ boundary > lastFired[s]
    /\ pendingResets[s].boundary # boundary

ScheduleReset(s, boundary) ==
    /\ IF Armable(s, boundary) /\ Representable(boundary)
       THEN Arm(s, boundary)
       ELSE UNCHANGED pendingResets
    /\ UNCHANGED <<normalDue, popupDue, lastFired>>

(* Mutant: a boundary that already fired is eligible again. *)
EligibleEvenIfFired(s, boundaries, fetchedAt) ==
    {b \in boundaries : Representable(b) /\ fetchedAt < ResetRefreshAt(b)}

(* reconcile_reset_boundaries: the earliest reported boundary that has not  *)
(* fired and that the sample predates replaces the armed one; none of them  *)
(* disarms it.                                                              *)
Eligible(s, boundaries, fetchedAt) ==
    {b \in boundaries : /\ b > lastFired[s]
                        /\ Representable(b)
                        /\ fetchedAt < ResetRefreshAt(b)}

(* Mutant: an armed boundary that is reported again is projected again. *)
ReconcileReprojecting(s, boundaries, fetchedAt) ==
    LET eligible == Eligible(s, boundaries, fetchedAt)
    IN  /\ \/ /\ eligible = {}
              /\ pendingResets' = [pendingResets EXCEPT ![s] = NoReset]
           \/ \E b \in eligible : (\A c \in eligible : b <= c) /\ Arm(s, b)
        /\ UNCHANGED <<normalDue, popupDue, lastFired>>

ReconcileResets(s, boundaries, fetchedAt) ==
    LET eligible == Eligible(s, boundaries, fetchedAt)
    IN  /\ \/ /\ eligible = {}
              /\ pendingResets' = [pendingResets EXCEPT ![s] = NoReset]
           \/ \E b \in eligible :
                 /\ \A c \in eligible : b <= c
                 /\ IF pendingResets[s].boundary = b
                    THEN UNCHANGED pendingResets
                    ELSE Arm(s, b)
        /\ UNCHANGED <<normalDue, popupDue, lastFired>>

NormalIsDue == normalDue <= mono
PopupIsDue == PopupOpen /\ popupDue <= mono
PeriodicIsDue == NormalIsDue \/ PopupIsDue
ResetIsDue(s) == pendingResets[s].boundary # None /\ pendingResets[s].due <= mono

(* next_deadline has passed: sleep_until(next_deadline) resolves. *)
DeadlineReached == PeriodicIsDue \/ \E s \in Scopes : ResetIsDue(s)

(* Mutant: the next period is anchored at the missed deadline, not at now. *)
TakeDueCatchingUp ==
    /\ normalDue' = IF NormalIsDue THEN normalDue + NormalCadence ELSE normalDue
    /\ popupDue' = IF PopupIsDue THEN popupDue + PopupCadence ELSE popupDue
    /\ pendingResets' = [s \in Scopes |->
           IF ResetIsDue(s) THEN NoReset ELSE pendingResets[s]]
    /\ lastFired' = [s \in Scopes |->
           IF ResetIsDue(s) THEN pendingResets[s].boundary ELSE lastFired[s]]

(* Mutant: a fired reset keeps its deadline in the pending map. *)
TakeDueKeepingDeadline ==
    /\ normalDue' = IF NormalIsDue THEN mono + NormalCadence ELSE normalDue
    /\ popupDue' = IF PopupIsDue THEN mono + PopupCadence ELSE popupDue
    /\ pendingResets' = [s \in Scopes |->
           IF ResetIsDue(s) THEN [pendingResets[s] EXCEPT !.boundary = None]
                            ELSE pendingResets[s]]
    /\ lastFired' = [s \in Scopes |->
           IF ResetIsDue(s) THEN pendingResets[s].boundary ELSE lastFired[s]]

(* Mutant: due resets stay in the pending map. *)
TakeDuePeriodicOnly ==
    /\ normalDue' = IF NormalIsDue THEN mono + NormalCadence ELSE normalDue
    /\ popupDue' = IF PopupIsDue THEN mono + PopupCadence ELSE popupDue
    /\ UNCHANGED <<pendingResets, lastFired>>

(* take_due: missed periods collapse into one trigger and re-anchor at now; *)
(* every due reset fires once and leaves the pending map.                   *)
TakeDue ==
    /\ normalDue' = IF NormalIsDue THEN mono + NormalCadence ELSE normalDue
    /\ popupDue' = IF PopupIsDue THEN mono + PopupCadence ELSE popupDue
    /\ pendingResets' = [s \in Scopes |->
           IF ResetIsDue(s) THEN NoReset ELSE pendingResets[s]]
    /\ lastFired' = [s \in Scopes |->
           IF ResetIsDue(s) THEN pendingResets[s].boundary ELSE lastFired[s]]

==============================================================================
