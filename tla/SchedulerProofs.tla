---------------------------- MODULE SchedulerProofs ----------------------------
(****************************************************************************)
(* Proofs about the scheduler, for every set of scopes, every cadence and   *)
(* every wall-clock behaviour.  SchedulerTypeOK /\ ArmedNotYetFired is      *)
(* inductive: a boundary enters pending_resets only above the last fired    *)
(* one, and the last fired boundary only moves when the armed one is taken. *)
(****************************************************************************)
EXTENDS SchedulerMachine, TLAPS

(* The scheduler's state stays well typed under every caller. *)
THEOREM SchedulerTypeCorrect == Spec => []SchedulerTypeOK
<1>1. Init => SchedulerTypeOK
  BY SchedulerAssumption DEF Init, ClockInit, SchedulerInit, SchedulerTypeOK,
     ResetDeadline, NoReset, None
<1>2. SchedulerTypeOK /\ [Next]_vars => SchedulerTypeOK'
  <2> SUFFICES ASSUME SchedulerTypeOK, [Next]_vars PROVE SchedulerTypeOK'
    OBVIOUS
  <2> USE SchedulerAssumption DEF SchedulerTypeOK
  <2>1. ASSUME NEW s \in Scopes, NEW b \in Nat \ {0}, Arm(s, b)
        PROVE  pendingResets' \in [Scopes -> ResetDeadline \cup {NoReset}]
    BY <2>1 DEF Arm, ProjectResetDeadline, ProjectWallDeadline,
       ResetRefreshAt, Later, ResetDeadline
  <2>2. CASE TickClock
    BY <2>2 DEF TickClock, Tick, schedVars
  <2>3. CASE StepClock
    BY <2>3 DEF StepClock, StepWall, schedVars
  <2>4. CASE OpenPopup \/ ClosePopup
    BY <2>4 DEF OpenPopup, ClosePopup, SetPopupOpen, PopupOpen, None, clockVars
  <2>5. CASE Poll
    BY <2>5 DEF Poll, TakeDue, NoReset, None, ResetDeadline, clockVars
  <2>6. ASSUME NEW s \in Scopes, NEW b \in Boundaries, CommandReset(s, b)
        PROVE  SchedulerTypeOK'
    BY <2>1, <2>6 DEF CommandReset, ScheduleReset, clockVars
  <2>7. ASSUME NEW s \in Scopes, NEW bs \in SUBSET Boundaries,
               NEW at \in 1 .. 2 * MaxTime, Reconcile(s, bs, at)
        PROVE  SchedulerTypeOK'
    <3>1. Eligible(s, bs, at) \subseteq Nat \ {0}
      BY DEF Eligible
    <3>2. pendingResets' \in [Scopes -> ResetDeadline \cup {NoReset}]
      BY <2>1, <2>7, <3>1 DEF Reconcile, ReconcileResets, NoReset, None,
         ResetDeadline
    <3> QED
      BY <2>7, <3>2 DEF Reconcile, ReconcileResets, clockVars
  <2>8. CASE UNCHANGED vars
    BY <2>8 DEF vars, clockVars, schedVars
  <2> QED
    BY <2>2, <2>3, <2>4, <2>5, <2>6, <2>7, <2>8 DEF Next
<1> QED
  BY <1>1, <1>2, PTL DEF Spec

(* An armed boundary always lies after the fired ones of its scope. *)
THEOREM ArmedNotYetFiredHolds == Spec => []ArmedNotYetFired
<1>1. Init => ArmedNotYetFired
  BY DEF Init, SchedulerInit, ArmedNotYetFired
<1>2. SchedulerTypeOK /\ ArmedNotYetFired /\ [Next]_vars => ArmedNotYetFired'
  <2> SUFFICES ASSUME SchedulerTypeOK, ArmedNotYetFired, [Next]_vars
               PROVE  ArmedNotYetFired'
    OBVIOUS
  <2> USE SchedulerAssumption DEF SchedulerTypeOK, ArmedNotYetFired
  <2>1. CASE UNCHANGED <<pendingResets, lastFired>>
    BY <2>1
  <2>2. CASE Poll
    BY <2>2 DEF Poll, TakeDue
  <2>3. ASSUME NEW s \in Scopes, NEW b \in Boundaries, CommandReset(s, b)
        PROVE  ArmedNotYetFired'
    BY <2>3 DEF CommandReset, ScheduleReset, Armable, Arm, ResetDeadline
  <2>4. ASSUME NEW s \in Scopes, NEW bs \in SUBSET Boundaries,
               NEW at \in 1 .. 2 * MaxTime, Reconcile(s, bs, at)
        PROVE  ArmedNotYetFired'
    <3>1. lastFired' = lastFired
      BY <2>4 DEF Reconcile, ReconcileResets
    <3>2. CASE pendingResets' = [pendingResets EXCEPT ![s] = NoReset]
      BY <3>1, <3>2
    <3>3. ASSUME NEW b \in Eligible(s, bs, at), Arm(s, b)
          PROVE  ArmedNotYetFired'
      BY <3>1, <3>3 DEF Eligible, Arm, ResetDeadline
    <3> QED
      BY <2>1, <2>4, <3>1, <3>2, <3>3 DEF Reconcile, ReconcileResets
  <2> QED
    BY <2>1, <2>2, <2>3, <2>4 DEF Next, TickClock, StepClock, OpenPopup,
       ClosePopup, SetPopupOpen, vars, schedVars
<1> QED
  BY <1>1, <1>2, SchedulerTypeCorrect, PTL DEF Spec

(* The fired boundaries of a scope strictly increase, so that no boundary   *)
(* is refreshed twice.                                                      *)
THEOREM FiresInOrderHolds == Spec => FiresInOrder
<1> DEFINE InOrder ==
      \A s \in Scopes : lastFired'[s] # lastFired[s] => lastFired'[s] > lastFired[s]
<1>1. SchedulerTypeOK /\ ArmedNotYetFired /\ [Next]_vars => [InOrder]_vars
  <2> SUFFICES ASSUME SchedulerTypeOK, ArmedNotYetFired, Next PROVE InOrder
    OBVIOUS
  <2>1. CASE Poll
    BY <2>1 DEF Poll, TakeDue, SchedulerTypeOK, ArmedNotYetFired, ResetIsDue,
       NoReset
  <2>2. CASE ~Poll
    BY <2>2 DEF Next, TickClock, StepClock, OpenPopup, ClosePopup,
       SetPopupOpen, CommandReset, ScheduleReset, Reconcile, ReconcileResets,
       schedVars
  <2> QED
    BY <2>1, <2>2
<1> QED
  BY <1>1, SchedulerTypeCorrect, ArmedNotYetFiredHolds, PTL
     DEF Spec, FiresInOrder

------------------------------------------------------------------------------
(* Deadlines.  As long as the wall clock was never stepped it agrees with   *)
(* the monotonic one, and a boundary is projected onto the monotonic clock  *)
(* no earlier than the boundary plus its grace.                             *)

ProjectedAfterGrace ==
    steps = 0 =>
        /\ wall = mono
        /\ \A s \in Scopes : pendingResets[s] # NoReset =>
               pendingResets[s].boundary + ResetGrace <= pendingResets[s].due

(* Arming a boundary projects it after its grace. *)
LEMMA ArmProjects ==
    ASSUME SchedulerTypeOK, ProjectedAfterGrace, NEW s \in Scopes,
           NEW b \in Nat \ {0}, Arm(s, b), UNCHANGED clockVars
    PROVE  ProjectedAfterGrace'
<1> USE SchedulerAssumption DEF SchedulerTypeOK, ProjectedAfterGrace, clockVars
<1> DEFINE due == ProjectResetDeadline(b)
<1>1. due \in Nat /\ (wall = mono => b + ResetGrace <= due)
  BY DEF ProjectResetDeadline, ProjectWallDeadline, ResetRefreshAt, Later
<1>2. pendingResets' = [pendingResets EXCEPT ![s] = [boundary |-> b, due |-> due]]
  BY DEF Arm
<1> HIDE DEF due
<1> QED
  BY <1>1, <1>2

(* The projection stays valid until the wall clock is stepped. *)
LEMMA ProjectedAfterGraceHolds == Spec => []ProjectedAfterGrace
<1>1. Init => ProjectedAfterGrace
  BY DEF Init, ClockInit, SchedulerInit, ProjectedAfterGrace
<1>2. SchedulerTypeOK /\ ProjectedAfterGrace /\ [Next]_vars => ProjectedAfterGrace'
  <2> SUFFICES ASSUME SchedulerTypeOK, ProjectedAfterGrace, [Next]_vars
               PROVE  ProjectedAfterGrace'
    OBVIOUS
  <2>1. CASE TickClock \/ StepClock
    BY <2>1 DEF TickClock, StepClock, Tick, StepWall, schedVars,
       SchedulerTypeOK, ProjectedAfterGrace
  <2>2. CASE UNCHANGED <<clockVars, pendingResets>>
    BY <2>2 DEF ProjectedAfterGrace, clockVars
  <2>3. CASE Poll
    BY <2>3 DEF Poll, TakeDue, ProjectedAfterGrace, clockVars
  <2>4. ASSUME NEW s \in Scopes, NEW b \in Boundaries, CommandReset(s, b)
        PROVE  ProjectedAfterGrace'
    BY <2>2, <2>4, ArmProjects, SchedulerAssumption DEF CommandReset, ScheduleReset
  <2>5. ASSUME NEW s \in Scopes, NEW bs \in SUBSET Boundaries,
               NEW at \in 1 .. 2 * MaxTime, Reconcile(s, bs, at)
        PROVE  ProjectedAfterGrace'
    <3>1. UNCHANGED clockVars /\ Eligible(s, bs, at) \subseteq Nat \ {0}
      BY <2>5, SchedulerAssumption DEF Reconcile, Eligible
    <3>2. CASE pendingResets' = [pendingResets EXCEPT ![s] = NoReset]
      BY <3>1, <3>2 DEF ProjectedAfterGrace, SchedulerTypeOK, clockVars
    <3> QED
      BY <2>2, <2>5, <3>1, <3>2, ArmProjects DEF Reconcile, ReconcileResets
  <2> QED
    BY <2>1, <2>2, <2>3, <2>4, <2>5 DEF Next, OpenPopup, ClosePopup,
       SetPopupOpen, vars, schedVars
<1> QED
  BY <1>1, <1>2, SchedulerTypeCorrect, PTL DEF Spec

(* While the wall clock is never stepped, no reset refresh is taken before  *)
(* the boundary plus its grace, for every minimum delay and however late    *)
(* the boundary was reported.                                               *)
THEOREM NoEarlyResetRefreshHolds == Spec => NoEarlyResetRefresh
<1> DEFINE NotEarly ==
      \A s \in Scopes : steps = 0 /\ lastFired'[s] # lastFired[s]
                           => wall >= lastFired'[s] + ResetGrace
<1>1. SchedulerTypeOK /\ ProjectedAfterGrace /\ [Next]_vars => [NotEarly]_vars
  <2> SUFFICES ASSUME SchedulerTypeOK, ProjectedAfterGrace, Next PROVE NotEarly
    OBVIOUS
  <2>1. CASE Poll
    <3> SUFFICES ASSUME NEW s \in Scopes, steps = 0, lastFired'[s] # lastFired[s]
                 PROVE  wall >= lastFired'[s] + ResetGrace
      OBVIOUS
    <3>1. ResetIsDue(s) /\ lastFired'[s] = pendingResets[s].boundary
      BY <2>1 DEF Poll, TakeDue
    <3> QED
      BY <3>1, SchedulerAssumption
         DEF ResetIsDue, SchedulerTypeOK, ProjectedAfterGrace, ResetDeadline, NoReset
  <2>2. CASE ~Poll
    BY <2>2 DEF Next, TickClock, StepClock, OpenPopup, ClosePopup,
       SetPopupOpen, CommandReset, ScheduleReset, Reconcile, ReconcileResets,
       schedVars
  <2> QED
    BY <2>1, <2>2
<1> QED
  BY <1>1, SchedulerTypeCorrect, ProjectedAfterGraceHolds, PTL
     DEF Spec, NoEarlyResetRefresh

(* The deadline of an armed boundary is fixed: neither a command nor a      *)
(* sample that reports it again moves it.                                   *)
THEOREM ArmedDeadlineIsFixedHolds == Spec => ArmedDeadlineIsFixed
<1> DEFINE Fixed ==
      \A s \in Scopes :
          (/\ pendingResets[s] # NoReset
           /\ pendingResets'[s].boundary = pendingResets[s].boundary)
              => pendingResets'[s].due = pendingResets[s].due
<1>1. SchedulerTypeOK /\ [Next]_vars => [Fixed]_vars
  <2> SUFFICES ASSUME SchedulerTypeOK, Next PROVE Fixed
    OBVIOUS
  <2> USE DEF SchedulerTypeOK
  <2>1. CASE UNCHANGED pendingResets
    BY <2>1
  <2>2. CASE Poll
    BY <2>2 DEF Poll, TakeDue, ResetDeadline, NoReset, None
  <2>3. ASSUME NEW s \in Scopes, NEW b \in Nat, pendingResets[s].boundary # b, Arm(s, b)
        PROVE  Fixed
    BY <2>3 DEF Arm
  <2>4. ASSUME NEW s \in Scopes, NEW b \in Boundaries, CommandReset(s, b)
        PROVE  Fixed
    BY <2>1, <2>3, <2>4, SchedulerAssumption DEF CommandReset, ScheduleReset, Armable
  <2>5. ASSUME NEW s \in Scopes, NEW bs \in SUBSET Boundaries,
               NEW at \in 1 .. 2 * MaxTime, Reconcile(s, bs, at)
        PROVE  Fixed
    <3>1. Eligible(s, bs, at) \subseteq Nat
      BY SchedulerAssumption DEF Eligible
    <3>2. CASE pendingResets' = [pendingResets EXCEPT ![s] = NoReset]
      BY <3>2 DEF ResetDeadline, NoReset, None
    <3> QED
      BY <2>1, <2>3, <2>5, <3>1, <3>2 DEF Reconcile, ReconcileResets
  <2> QED
    BY <2>1, <2>2, <2>4, <2>5 DEF Next, TickClock, StepClock, OpenPopup,
       ClosePopup, SetPopupOpen, schedVars
<1> QED
  BY <1>1, SchedulerTypeCorrect, PTL DEF Spec, ArmedDeadlineIsFixed

(* However late take_due is polled, nothing is due right after it. *)
THEOREM NoCatchUpBurstHolds == Spec => NoCatchUpBurst
<1>1. SchedulerTypeOK /\ [Next]_vars => [Poll => ~DeadlineReached']_vars
  <2> SUFFICES ASSUME SchedulerTypeOK, Poll PROVE ~DeadlineReached'
    OBVIOUS
  <2> USE SchedulerAssumption DEF SchedulerTypeOK, Poll, TakeDue, clockVars
  <2>1. ~NormalIsDue'
    BY DEF NormalIsDue
  <2>2. ~PopupIsDue'
    BY DEF PopupIsDue, PopupOpen
  <2>3. \A s \in Scopes : ~ResetIsDue(s)'
    BY DEF ResetIsDue, NoReset
  <2> QED
    BY <2>1, <2>2, <2>3 DEF DeadlineReached, PeriodicIsDue
<1> QED
  BY <1>1, SchedulerTypeCorrect, PTL DEF Spec, NoCatchUpBurst

==============================================================================
