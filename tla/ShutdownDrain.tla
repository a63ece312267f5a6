---------------------------- MODULE ShutdownDrain ----------------------------
(****************************************************************************)
(* cancel_and_drain (crates/runtime/src/shutdown.rs): the shutdown of the   *)
(* actor's join set.  Cooperative tasks see the cancelled token and may     *)
(* return, panic or ignore it; they are joined until the grace deadline,    *)
(* then the remaining ones are aborted and joined.  The join set may hold   *)
(* optional workers that cancel_optional aborted before (`superseded').     *)
(****************************************************************************)
EXTENDS Naturals, FiniteSets

CONSTANTS
    Tasks,           \* tasks in the join set when the drain begins
    Grace            \* shutdown grace

ASSUME DrainAssumption ==
    /\ IsFiniteSet(Tasks)
    /\ Grace \in Nat \ {0}

VARIABLES
    pc,              \* "drain" until the deadline, "abort" after it, "done"
    now,             \* time since the drain began
    superseded,      \* tasks aborted before the drain began
    aborted,         \* tasks whose abort handle was used
    ended,           \* how each task ended, "running" before
    joinSet,         \* tasks not joined yet
    report           \* ShutdownReport

vars == <<pc, now, superseded, aborted, ended, joinSet, report>>

Outcome == {"completed", "cancelled", "panicked"}
ShutdownReport == [completed : Nat, cancelled : Nat, panicked : Nat,
                   timedOut : BOOLEAN]

(* The drain's state is well typed, and only aborted tasks are cancelled. *)
DrainTypeOK ==
    /\ pc \in {"drain", "abort", "done"}
    /\ now \in 0 .. Grace
    /\ superseded \subseteq Tasks
    /\ aborted \subseteq Tasks
    /\ superseded \subseteq aborted
    /\ ended \in [Tasks -> Outcome \cup {"running"}]
    /\ \A t \in Tasks : ended[t] = "cancelled" => t \in aborted
    /\ joinSet \subseteq Tasks
    /\ report \in ShutdownReport

Init ==
    /\ pc = "drain" /\ now = 0
    /\ superseded \in SUBSET Tasks
    /\ aborted = superseded
    /\ ended = [t \in Tasks |-> "running"]
    /\ joinSet = Tasks
    /\ report = [completed |-> 0, cancelled |-> 0, panicked |-> 0,
                 timedOut |-> FALSE]

Tick ==
    /\ pc = "drain"
    /\ now < Grace
    /\ now' = now + 1
    /\ UNCHANGED <<pc, superseded, aborted, ended, joinSet, report>>

(* A task returns or panics by itself, also one that an abort comes late for. *)
Finish(t) ==
    /\ ended[t] = "running"
    /\ \E outcome \in {"completed", "panicked"} :
          ended' = [ended EXCEPT ![t] = outcome]
    /\ UNCHANGED <<pc, now, superseded, aborted, joinSet, report>>

(* The executor drops an aborted task at its next yield. *)
DropAborted(t) ==
    /\ t \in aborted
    /\ ended[t] = "running"
    /\ ended' = [ended EXCEPT ![t] = "cancelled"]
    /\ UNCHANGED <<pc, now, superseded, aborted, joinSet, report>>

(* Mutant: a panicked task is joined without being counted. *)
RecordIgnoringPanics(t) ==
    report' = IF ended[t] = "panicked" THEN report
              ELSE [report EXCEPT ![ended[t]] = @ + 1]

Record(t) == report' = [report EXCEPT ![ended[t]] = @ + 1]

Ready(t) == t \in joinSet /\ ended[t] # "running"

Join(t) ==
    /\ pc \in {"drain", "abort"}
    /\ Ready(t)
    /\ joinSet' = joinSet \ {t}
    /\ Record(t)
    /\ UNCHANGED <<pc, now, superseded, aborted, ended>>

(* timeout_at prefers a task that is ready at the deadline; abort_all marks *)
(* all the others.                                                          *)
GraceElapsed ==
    /\ pc = "drain"
    /\ joinSet # {}
    /\ now = Grace
    /\ ~\E t \in Tasks : Ready(t)
    /\ pc' = "abort"
    /\ aborted' = aborted \cup joinSet
    /\ report' = [report EXCEPT !.timedOut = TRUE]
    /\ UNCHANGED <<now, superseded, ended, joinSet>>

Return ==
    /\ pc \in {"drain", "abort"}
    /\ joinSet = {}
    /\ pc' = "done"
    /\ UNCHANGED <<now, superseded, aborted, ended, joinSet, report>>

Done == pc = "done" /\ UNCHANGED vars

Next ==
    \/ Tick
    \/ \E t \in Tasks : Finish(t) \/ DropAborted(t) \/ Join(t)
    \/ GraceElapsed
    \/ Return
    \/ Done

Spec == Init /\ [][Next]_vars

(* The timer runs, aborted tasks are dropped and ready tasks are joined;    *)
(* nothing is assumed of a cooperative task that ignores its cancellation.  *)
Fairness ==
    /\ WF_vars(Tick) /\ WF_vars(GraceElapsed) /\ WF_vars(Return)
    /\ \A t \in Tasks : WF_vars(DropAborted(t)) /\ WF_vars(Join(t))

FairSpec == Spec /\ Fairness

------------------------------------------------------------------------------
Total == report.completed + report.cancelled + report.panicked

(* ShutdownReport::total is the "Total number of fully drained join         *)
(* results": every task of the join set is joined and counted exactly once, *)
(* whether it returned, panicked, was aborted before or by the deadline.    *)
EveryTaskCounted == Total + Cardinality(joinSet) = Cardinality(Tasks)

(* A task that still works inside the grace is never cut off: before the    *)
(* deadline nobody is aborted by the drain, and what is counted as          *)
(* cancelled are tasks that cancel_optional had aborted earlier. (The       *)
(* documentation of `cancelled' knows only those of the deadline.)          *)
GraceIsGranted ==
    ~report.timedOut => /\ report.cancelled <= Cardinality(superseded)
                        /\ aborted = superseded

==============================================================================
