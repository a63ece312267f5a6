---------------------------- MODULE FrontendPresence ----------------------------
(****************************************************************************)
(* The tray fallback: the policy of ipc/frontend_presence.rs, which only    *)
(* its tests use so far, and beside it the rule the daemon follows, the     *)
(* tray tick of daemon.rs, which counts the client tasks past their hello.  *)
(* Both watch the same connections: two transports of a frontend may        *)
(* overlap, a disconnect may be reported late or twice, and a caller's      *)
(* clock reading may be older than the last one observed.                   *)
(****************************************************************************)
EXTENDS Naturals, FiniteSets

CONSTANTS
    GracePeriod,  \* grace_period, FRONTEND_GRACE
    MaxTime,      \* the largest representable instant
    MaxId         \* the last connection id

PresenceAssumption ==
    GracePeriod \in Nat /\ MaxTime \in Nat /\ MaxId \in Nat \ {0}

VARIABLES
    now,            \* the monotonic clock, in tray ticks
    observedAt,     \* observed_at
    nextId,         \* next_connection_id; 0 once exhausted
    compatible,     \* compatible_connections
    fallback,       \* "active", "suppressed", "waiting"
    deadline,       \* the grace deadline; 0 when beyond range or none
    lastPresent,    \* when a compatible frontend was last seen to leave
    tasks,          \* the transports whose client task passed its hello
    trayStatus,     \* tray_status of the daemon
    ticked,         \* whether tray_tick fired since the clock moved
    changedAt       \* when the first client task came or the last one went

vars == <<now, observedAt, nextId, compatible, fallback, deadline, lastPresent,
          tasks, trayStatus, ticked, changedAt>>
policy == <<observedAt, nextId, compatible, fallback, deadline>>

AfterGrace(t) ==
    IF GracePeriod = 0 THEN [fallback |-> "active", deadline |-> 0]
    ELSE [fallback |-> "waiting",
          deadline |-> IF t + GracePeriod > MaxTime THEN 0 ELSE t + GracePeriod]

Init ==
    /\ now = 0 /\ observedAt = 0 /\ nextId = 1
    /\ compatible = {} /\ lastPresent = 0 /\ tasks = {}
    /\ fallback = AfterGrace(0).fallback /\ deadline = AfterGrace(0).deadline
    /\ trayStatus = "passive" /\ ticked = FALSE /\ changedAt = 0

(* observe: what a clock reading t does to the fallback.                    *)
Observed(t) ==
    IF fallback = "waiting" /\ deadline # 0 /\ t >= deadline
    THEN [fallback |-> "active", deadline |-> 0]
    ELSE [fallback |-> fallback, deadline |-> deadline]

Fallback(f) == fallback' = f.fallback /\ deadline' = f.deadline
Suppressed == [fallback |-> "suppressed", deadline |-> 0]

(* connect_at. A clock reading that went back, or an exhausted id space, is *)
(* an error and changes nothing.                                            *)
ConnectAt(t, isCompatible) ==
    /\ nextId # 0 /\ t >= observedAt
    /\ observedAt' = t
    /\ nextId' = IF nextId = MaxId THEN 0 ELSE nextId + 1
    /\ compatible' = IF isCompatible THEN compatible \cup {nextId} ELSE compatible
    /\ Fallback(IF isCompatible THEN Suppressed ELSE Observed(t))

(* disconnect_at: unknown and repeated ids are ignored.                     *)
DisconnectAt(t, id) ==
    /\ t >= observedAt
    /\ observedAt' = t
    /\ compatible' = compatible \ {id}
    /\ Fallback(IF id \in compatible /\ compatible = {id} THEN AfterGrace(t) ELSE Observed(t))
    /\ UNCHANGED nextId

AdvanceTo(t) ==
    /\ t >= observedAt
    /\ observedAt' = t
    /\ Fallback(Observed(t))
    /\ UNCHANGED <<nextId, compatible>>

(****************************************************************************)
(* The two observers of a connection, and the daemon's tray tick.           *)
(****************************************************************************)
ChangedAt == IF (tasks = {}) = (tasks' = {}) THEN changedAt ELSE now

(* A client task passes its hello, which HandshakeGuard refuses to an       *)
(* incompatible one, and is counted (ConnectedFrontend) until it ends.      *)
Connect(t, isCompatible) ==
    /\ ConnectAt(t, isCompatible)
    /\ tasks' = IF isCompatible THEN tasks \cup {nextId} ELSE tasks
    /\ changedAt' = ChangedAt
    /\ UNCHANGED <<now, lastPresent, trayStatus, ticked>>

Disconnect(t, id) ==
    /\ DisconnectAt(t, id)
    /\ tasks' = tasks \ {id} /\ changedAt' = ChangedAt
    /\ lastPresent' = IF id \in compatible THEN t ELSE lastPresent
    /\ UNCHANGED <<now, trayStatus, ticked>>

Advance(t) == AdvanceTo(t) /\ UNCHANGED <<now, tasks, lastPresent, trayStatus, ticked, changedAt>>

\* Mutant: an icon that is shown once is not hidden again.
TrayTickLatched ==
    /\ ~ticked /\ ticked' = TRUE
    /\ trayStatus' = IF trayStatus = "passive" /\ (tasks # {} \/ now < GracePeriod)
                     THEN "passive" ELSE "active"
    /\ UNCHANGED <<now, policy, lastPresent, tasks, changedAt>>

(* tray_tick of the listener loop: the icon shows without client tasks,     *)
(* FRONTEND_GRACE after the daemon's start; a task that leaves later is     *)
(* given no grace.                                                          *)
TrayTick ==
    /\ ~ticked /\ ticked' = TRUE
    /\ trayStatus' = IF tasks # {} \/ now < GracePeriod THEN "passive" ELSE "active"
    /\ UNCHANGED <<now, policy, lastPresent, tasks, changedAt>>

(* Time passes, by the interval of tray_tick.                               *)
Tick ==
    /\ now < MaxTime /\ ticked
    /\ now' = now + 1 /\ ticked' = FALSE
    /\ UNCHANGED <<policy, lastPresent, tasks, trayStatus, changedAt>>

(* A reading of the clock is at most one tick late.                         *)
Readings == {t \in {now, now - 1} : t >= 0}

Next ==
    \/ \E t \in Readings, isCompatible \in BOOLEAN : Connect(t, isCompatible)
    \/ \E t \in Readings, id \in 1..MaxId : Disconnect(t, id)
    \/ \E t \in Readings : Advance(t)
    \/ TrayTick \/ Tick

Spec == Init /\ [][Next]_vars

(****************************************************************************)
(* Properties.                                                              *)
(****************************************************************************)
(* Type correctness.                                                        *)
TypeOK ==
    /\ now \in 0..MaxTime /\ observedAt \in 0..now /\ lastPresent \in 0..now
    /\ nextId \in 0..MaxId /\ compatible \subseteq 1..MaxId /\ tasks \subseteq 1..MaxId
    /\ fallback \in {"active", "suppressed", "waiting"} /\ deadline \in 0..MaxTime
    /\ trayStatus \in {"passive", "active"} /\ ticked \in BOOLEAN /\ changedAt \in 0..now

(* The fallback is suppressed exactly while a compatible transport is left: *)
(* a late or repeated disconnect of an old transport does not uncover the   *)
(* fallback while its successor lives, and an incompatible one never hides  *)
(* it.                                                                      *)
SuppressedIffPresent == fallback = "suppressed" <=> compatible # {}

(* The fallback shows only after a whole grace period without a compatible  *)
(* frontend, whatever connects and leaves in between.                       *)
ActiveOnlyAfterGrace == fallback = "active" => observedAt >= lastPresent + GracePeriod

(* And no later: a pending deadline is the end of that grace period and has *)
(* not been observed yet; it is missing only if it cannot be represented.   *)
DeadlineKept ==
    fallback = "waiting" =>
        \/ deadline = lastPresent + GracePeriod /\ observedAt < deadline
        \/ deadline = 0 /\ lastPresent + GracePeriod > MaxTime

(* The daemon's own icon: never before the start's grace is over, hidden a  *)
(* tick after a frontend has come, through reconnects that overlap, and     *)
(* shown a tick after the last one has gone. The plan asks for a grace      *)
(* there, too (the last client's disconnect restores it "without flicker    *)
(* during rapid shell reload"), which the policy above has and the daemon's *)
(* rule does not.                                                           *)
TrayFollowsTasks ==
    /\ trayStatus = "active" => now >= GracePeriod
    /\ changedAt + 1 < now =>
         /\ tasks # {} => trayStatus = "passive"
         /\ tasks = {} /\ now > GracePeriod => trayStatus = "active"

(* The inductive invariant: no frontend leaves after the last observation,  *)
(* and the icon is what the last tick decided if nobody came or went since. *)
Decided(t) == IF tasks # {} \/ t < GracePeriod THEN "passive" ELSE "active"
PresenceKept ==
    /\ TypeOK /\ lastPresent <= observedAt
    /\ SuppressedIffPresent /\ ActiveOnlyAfterGrace /\ DeadlineKept
    /\ trayStatus = "active" => now >= GracePeriod
    /\ ticked /\ changedAt < now => trayStatus = Decided(now)
    /\ ~ticked /\ changedAt + 1 < now => trayStatus = Decided(now - 1)

================================================================================
