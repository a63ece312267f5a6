--------------------------- MODULE SchedulerMachine ---------------------------
(****************************************************************************)
(* The scheduler alone, under an arbitrary caller: any sequence of popup    *)
(* transitions, reset-boundary commands, reconciliations against samples    *)
(* and polls at or after the reported deadline, with a wall clock that may  *)
(* be stepped.  The caller may poll arbitrarily late.                       *)
(****************************************************************************)
EXTENDS Scheduler

vars == <<clockVars, schedVars>>

Init == ClockInit /\ SchedulerInit

TickClock == Tick /\ UNCHANGED schedVars
StepClock == StepWall /\ UNCHANGED schedVars

OpenPopup == SetPopupOpen(TRUE) /\ UNCHANGED clockVars
ClosePopup == SetPopupOpen(FALSE) /\ UNCHANGED clockVars

CommandReset(s, boundary) == ScheduleReset(s, boundary) /\ UNCHANGED clockVars

Reconcile(s, boundaries, fetchedAt) ==
    ReconcileResets(s, boundaries, fetchedAt) /\ UNCHANGED clockVars

Poll == DeadlineReached /\ TakeDue /\ UNCHANGED clockVars

Next ==
    \/ TickClock
    \/ StepClock
    \/ OpenPopup
    \/ ClosePopup
    \/ Poll
    \/ \E s \in Scopes, b \in Boundaries : CommandReset(s, b)
    \/ \E s \in Scopes, bs \in SUBSET Boundaries, at \in 1 .. 2 * MaxTime :
          Reconcile(s, bs, at)

Spec == Init /\ [][Next]_vars

(* Time passes and the actor polls a deadline it sleeps on. *)
Fairness == WF_vars(TickClock) /\ WF_vars(Poll)

FairSpec == Spec /\ Fairness

------------------------------------------------------------------------------
(* A boundary that is armed lies after every boundary that already fired    *)
(* for the scope, however commands, samples and polls interleave: the two   *)
(* maps pending_resets and last_fired_resets never overlap.                 *)
ArmedNotYetFired ==
    \A s \in Scopes :
        pendingResets[s] # NoReset => pendingResets[s].boundary > lastFired[s]

(* "The same account/boundary pair is idempotent even after it has fired"   *)
(* (schedule_reset): the fired boundaries of a scope strictly increase, so  *)
(* no boundary causes a second refresh, also when a later sample or a late  *)
(* command reports it again.                                                *)
FiresInOrder ==
    [][\A s \in Scopes :
          lastFired'[s] # lastFired[s] => lastFired'[s] > lastFired[s]]_vars

(* While the wall clock is never stepped, a reset refresh is not taken      *)
(* before the boundary plus its grace: the provider has had time to reset   *)
(* the window when the sample is fetched.                                   *)
NoEarlyResetRefresh ==
    [][\A s \in Scopes :
          steps = 0 /\ lastFired'[s] # lastFired[s]
              => wall >= lastFired'[s] + ResetGrace]_vars

(* A refresh that reports an armed boundary again never postpones it: the   *)
(* deadline of an armed boundary is fixed, whatever the wall clock does     *)
(* (the five-second minimum delay would otherwise push it on forever).      *)
ArmedDeadlineIsFixed ==
    [][\A s \in Scopes :
          (/\ pendingResets[s] # NoReset
           /\ pendingResets'[s].boundary = pendingResets[s].boundary)
              => pendingResets'[s].due = pendingResets[s].due]_vars

(* take_due "collapses missed intervals": however late the poll, nothing is *)
(* due any more right after it, so no burst of refreshes follows.           *)
NoCatchUpBurst == [][Poll => ~DeadlineReached']_vars

(* Every armed boundary whose deadline lies within the explored time is     *)
(* eventually taken, replaced or disarmed, also when the popup is opened    *)
(* and closed forever.                                                      *)
ArmedResetIsTaken ==
    \A s \in Scopes, b \in Boundaries :
        (pendingResets[s].boundary = b /\ pendingResets[s].due <= MaxTime)
            ~> pendingResets[s].boundary # b

==============================================================================
