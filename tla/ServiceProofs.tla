----------------------------- MODULE ServiceProofs -----------------------------
(****************************************************************************)
(* Proofs about the components that share no state. First the shutdown      *)
(* drain, for every join set and every grace; then the machines whose       *)
(* parameters MCServices leaves open, for every value of them: an inductive *)
(* invariant of the component's module is established and kept by the       *)
(* component's own steps, and a step of the project's specification is one  *)
(* of those or changes nothing the invariant mentions.                      *)
(****************************************************************************)
EXTENDS MCServices, TLAPS, FiniteSetTheorems, SequenceTheorems

(* The drain's state stays well typed; no task that was not aborted ends as *)
(* cancelled.                                                               *)
THEOREM DrainTypeCorrect == Spec => []DrainTypeOK
<1> USE DrainAssumption DEF DrainTypeOK
<1>1. Init => DrainTypeOK
  BY DEF Init, Outcome, ShutdownReport
<1>2. DrainTypeOK /\ [Next]_vars => DrainTypeOK'
  <2> SUFFICES ASSUME DrainTypeOK, [Next]_vars PROVE DrainTypeOK'
    OBVIOUS
  <2>1. CASE Tick
    BY <2>1 DEF Tick
  <2>2. ASSUME NEW t \in Tasks, Finish(t) PROVE DrainTypeOK'
    BY <2>2 DEF Finish, Outcome
  <2>3. ASSUME NEW t \in Tasks, DropAborted(t) PROVE DrainTypeOK'
    BY <2>3 DEF DropAborted, Outcome
  <2>4. ASSUME NEW t \in Tasks, Join(t) PROVE DrainTypeOK'
    <3>1. ended[t] \in Outcome
      BY <2>4 DEF Join, Ready
    <3>2. report' \in ShutdownReport
      BY <2>4, <3>1 DEF Join, Record, ShutdownReport, Outcome
    <3> QED
      BY <2>4, <3>2 DEF Join
  <2>5. CASE GraceElapsed
    BY <2>5 DEF GraceElapsed, ShutdownReport
  <2>6. CASE Return \/ Done \/ UNCHANGED vars
    BY <2>6 DEF Return, Done, vars
  <2> QED
    BY <2>1, <2>2, <2>3, <2>4, <2>5, <2>6 DEF Next
<1> QED
  BY <1>1, <1>2, PTL DEF Spec

(* Every task of the join set is counted once: those joined in the report,  *)
(* the others still in the set.                                             *)
THEOREM EveryTaskCountedHolds == Spec => []EveryTaskCounted
<1>1. Init => EveryTaskCounted
  <2> SUFFICES ASSUME Init PROVE EveryTaskCounted
    OBVIOUS
  <2>1. Cardinality(Tasks) \in Nat
    BY DrainAssumption, FS_CardinalityType
  <2> QED
    BY <2>1 DEF Init, EveryTaskCounted, Total
<1>2. DrainTypeOK /\ EveryTaskCounted /\ [Next]_vars => EveryTaskCounted'
  <2> SUFFICES ASSUME DrainTypeOK, EveryTaskCounted, [Next]_vars
               PROVE  EveryTaskCounted'
    OBVIOUS
  <2>1. report \in ShutdownReport /\ joinSet \subseteq Tasks
    BY DEF DrainTypeOK
  <2>2. IsFiniteSet(joinSet) /\ Cardinality(joinSet) \in Nat
    BY <2>1, DrainAssumption, FS_Subset, FS_CardinalityType
  <2>3. CASE UNCHANGED <<report, joinSet>>
    BY <2>3 DEF EveryTaskCounted, Total
  <2>4. CASE GraceElapsed
    <3>1. joinSet' = joinSet /\ report' = [report EXCEPT !.timedOut = TRUE]
      BY <2>4 DEF GraceElapsed
    <3>2. Total' = Total
      BY <2>1, <3>1 DEF Total, ShutdownReport
    <3> QED
      BY <3>1, <3>2 DEF EveryTaskCounted
  <2>5. ASSUME NEW t \in Tasks, Join(t) PROVE EveryTaskCounted'
    <3>1. /\ t \in joinSet /\ joinSet' = joinSet \ {t}
          /\ ended[t] \in Outcome
          /\ report' = [report EXCEPT ![ended[t]] = @ + 1]
      BY <2>5 DEF Join, Ready, Record, DrainTypeOK
    <3>2. Cardinality(joinSet') = Cardinality(joinSet) - 1
      BY <2>2, <3>1, FS_RemoveElement
    <3>3. Total' = Total + 1 /\ Total \in Nat
      <4>1. ended[t] = "completed" \/ ended[t] = "cancelled" \/ ended[t] = "panicked"
        BY <3>1 DEF Outcome
      <4> QED
        BY <2>1, <3>1, <4>1 DEF Total, ShutdownReport
    <3> QED
      BY <2>2, <3>2, <3>3 DEF EveryTaskCounted
  <2> QED
    BY <2>3, <2>4, <2>5 DEF Next, Tick, Finish, DropAborted, Return, Done, vars
<1> QED
  BY <1>1, <1>2, DrainTypeCorrect, PTL DEF Spec

----------------------------------------------------------------------------
(* A step of the specification is a step of the machine that was chosen.    *)
LEMMA MachineIsFixed == [ServicesNext]_all => machine' = machine
BY DEF ServicesNext, Runs, all

(****************************************************************************)
(* The provider transport.                                                  *)
(****************************************************************************)
(* The transport's parameters.                                              *)
LEMMA TransportParameters == Request!TransportAssumption
BY ServicesAssumption

(* The cost of one more round, and of at most all of them.                  *)
LEMMA RoundsAdd ==
    /\ \A n \in Nat : /\ Request!Rounds(n) \in Nat
                     /\ Request!Rounds(n + 1) = Request!Rounds(n) + RequestTimeout + MaxDelay
    /\ \A n \in 0..MaxRetries : Request!Rounds(n) <= Request!Rounds(MaxRetries)
<1>1. RequestTimeout \in Nat /\ MaxDelay \in Nat /\ MaxRetries \in Nat
  BY TransportParameters DEF Request!TransportAssumption
<1>2. ASSUME NEW n \in Nat
      PROVE  n * (RequestTimeout + MaxDelay) \in Nat
  BY <1>1
<1>3. ASSUME NEW n \in Nat, NEW k \in Nat
      PROVE  (n + 1) * k = n * k + k
  OBVIOUS
<1>4. ASSUME NEW n \in Nat, NEW m \in Nat, NEW k \in Nat, n <= m
      PROVE  n * k <= m * k
  BY <1>4
<1> QED
  BY <1>1, <1>2, <1>3, <1>4 DEF Request!Rounds

(* A request begins within its policy.                                      *)
LEMMA TransportStarts == Request!Init => Request!WithinPolicy
<1> SUFFICES ASSUME Request!Init PROVE Request!WithinPolicy
  OBVIOUS
<1>1. Request!TypeOK
  BY TransportParameters
     DEF Request!Init, Request!TypeOK, Request!TransportAssumption
<1>2. Request!TimeAccounted
  BY TransportParameters, RoundsAdd
     DEF Request!Init, Request!TimeAccounted, Request!Attempting, Request!TransportAssumption
<1>3. Request!OnlyGetRepeats /\ Request!CredentialsStayApproved /\ Request!RetriesUsedUp
  BY DEF Request!Init, Request!OnlyGetRepeats, Request!CredentialsStayApproved,
         Request!RetriesUsedUp
<1> QED
  BY <1>1, <1>2, <1>3 DEF Request!Init, Request!WithinPolicy, Request!NoRetryAfter

(* Every step of a request keeps the policy's accounts.                     *)
LEMMA TransportStep == Request!WithinPolicy /\ Request!Next => Request!WithinPolicy'
<1> SUFFICES ASSUME Request!WithinPolicy, Request!Next PROVE Request!WithinPolicy'
  OBVIOUS
<1> USE DEF Request!End, Request!NoRetryAfter
<1>0. /\ MaxRedirects \in Nat /\ MaxBody \in Nat /\ MaxRetries \in Nat /\ BaseDelay \in Nat
      /\ MaxDelay \in Nat /\ MaxRetryAfter \in Nat /\ RequestTimeout \in Nat
      /\ BaseDelay <= MaxDelay /\ Approved \subseteq Origins /\ Home \in Approved
  BY TransportParameters DEF Request!TransportAssumption
<1>1. /\ Request!TypeOK /\ r13 \in Nat /\ r12 \in Nat /\ r8 \in Int /\ -1 <= r8
      /\ Request!TimeAccounted /\ Request!OnlyGetRepeats
      /\ Request!CredentialsStayApproved /\ Request!RetriesUsedUp
  BY DEF Request!WithinPolicy
<1>2. Request!TypeOK' /\ r13' \in Nat /\ r12' \in Nat /\ r8' \in Int /\ -1 <= r8'
  <2> USE <1>0, <1>1 DEF Request!TypeOK, Request!TimeAccounted, Request!Outcomes,
                         Request!Statuses, Request!Failures
  <2>1. CASE Request!Request \/ Request!Redirect
    BY <2>1 DEF Request!Request, Request!Redirect, Request!Validate
  <2>2. CASE Request!StatusError
    BY <2>2 DEF Request!StatusError
  <2>3. CASE Request!Success \/ Request!Chunk \/ Request!Complete \/ Request!Timeout
    BY <2>3 DEF Request!Success, Request!Chunk, Request!Complete, Request!Timeout
  <2>4. CASE Request!Decide
    BY <2>4 DEF Request!Decide, Request!AtMost
  <2>5. CASE Request!Tick
    BY <2>5 DEF Request!Tick
  <2>6. CASE Request!Again \/ Request!Cancel \/ Request!Cancelled
    BY <2>6 DEF Request!Again, Request!Cancel, Request!Cancelled
  <2> QED
    BY <2>1, <2>2, <2>3, <2>4, <2>5, <2>6 DEF Request!Next
<1>3. Request!TimeAccounted'
  <2> USE <1>0, <1>1 DEF Request!TypeOK, Request!TimeAccounted, Request!Attempting
  <2>0. r3 \in Nat /\ Request!Rounds(r3) \in Nat
    BY RoundsAdd
  <2>1. CASE Request!Request \/ Request!Redirect \/ Request!StatusError
    BY <2>0, <2>1 DEF Request!Request, Request!Redirect, Request!StatusError, Request!Rounds
  <2>3. CASE Request!Success \/ Request!Chunk \/ Request!Complete \/ Request!Timeout
    BY <2>0, <2>3 DEF Request!Success, Request!Chunk, Request!Complete, Request!Timeout,
                      Request!Rounds
  <2>4. CASE Request!Decide
    <3>1. CASE r2' = "sleeping"
      <4>1. r3' = r3 + 1 /\ r7' = 0 /\ r13' = r13 /\ r8' \in 0..MaxDelay
        BY <2>4, <3>1 DEF Request!Decide, Request!AtMost
      <4>2. Request!Rounds(r3)' = Request!Rounds(r3) + RequestTimeout + MaxDelay
        BY <2>0, <4>1, RoundsAdd DEF Request!Rounds
      <4> QED
        BY <2>0, <2>4, <3>1, <4>1, <4>2 DEF Request!Decide
    <3>2. CASE r2' = "returned"
      BY <2>0, <2>4, <3>2 DEF Request!Decide, Request!Rounds
    <3> QED
      BY <2>4, <3>1, <3>2 DEF Request!Decide
  <2>5. CASE Request!Tick
    BY <2>0, <2>5 DEF Request!Tick, Request!Rounds
  <2>6. CASE Request!Again \/ Request!Cancel \/ Request!Cancelled
    BY <2>0, <2>6 DEF Request!Again, Request!Cancel, Request!Cancelled, Request!Rounds
  <2> QED
    BY <2>1, <2>3, <2>4, <2>5, <2>6 DEF Request!Next
<1>4. Request!OnlyGetRepeats' /\ Request!CredentialsStayApproved' /\ Request!RetriesUsedUp'
  <2> USE <1>0, <1>1 DEF Request!TypeOK, Request!OnlyGetRepeats,
                         Request!CredentialsStayApproved, Request!RetriesUsedUp
  <2>1. CASE Request!Request \/ Request!Redirect \/ Request!StatusError
    BY <2>1 DEF Request!Request, Request!Redirect, Request!StatusError, Request!Validate
  <2>2. CASE \/ Request!Success \/ Request!Chunk \/ Request!Complete \/ Request!Timeout
             \/ Request!Tick \/ Request!Cancel
    BY <2>2 DEF Request!Success, Request!Chunk, Request!Complete, Request!Timeout,
                Request!Tick, Request!Cancel, Request!Attempting
  <2>3. CASE Request!Decide
    BY <2>3 DEF Request!Decide, Request!Retryable
  <2>4. CASE Request!Again \/ Request!Cancelled
    BY <2>4 DEF Request!Again, Request!Cancelled, Request!Retryable, Request!Attempting
  <2> QED
    BY <2>1, <2>2, <2>3, <2>4 DEF Request!Next
<1> QED
  BY <1>2, <1>3, <1>4 DEF Request!WithinPolicy

(* Whatever the servers answer, and for every policy: a request carries its *)
(* authentication only to approved origins, its body once, and is back in   *)
(* the time of its attempts and capped delays with its retries used up      *)
(* (HttpTransport::send, RetryPolicy::delay, EndpointPolicy::validate).     *)
THEOREM RequestWithinPolicyHolds == ServicesSpec => []RequestWithinPolicy
<1> DEFINE Inv == machine = "transport" => Request!WithinPolicy
<1>1. ServicesInit => Inv
  BY TransportStarts DEF ServicesInit, Starts
<1>2. Inv /\ [ServicesNext]_all => Inv'
  <2> SUFFICES ASSUME Inv, [ServicesNext]_all, machine = "transport"
               PROVE  Request!WithinPolicy'
    BY MachineIsFixed
  <2>1. CASE Request!Next
    BY <2>1, TransportStep
  <2>2. CASE UNCHANGED all
    <3>1. UNCHANGED Request!vars
      BY <2>2 DEF all, registers, Request!vars
    <3> QED
      BY <3>1 DEF Request!vars, Request!WithinPolicy, Request!TypeOK, Request!TimeAccounted,
           Request!OnlyGetRepeats, Request!CredentialsStayApproved, Request!RetriesUsedUp,
           Request!Attempting, Request!Rounds
  <2> QED
    BY <2>1, <2>2 DEF ServicesNext, Runs
<1>3. Inv => RequestWithinPolicy
  <2> SUFFICES ASSUME Request!WithinPolicy
               PROVE  /\ Request!CredentialsStayApproved /\ Request!PostSentOnce
                      /\ Request!TimeBounded /\ Request!RetriesUsedUp
    BY DEF RequestWithinPolicy
  <2>1. /\ RequestTimeout \in Nat /\ MaxDelay \in Nat /\ MaxRetries \in Nat
        /\ r3 \in 0..MaxRetries /\ r13 \in Nat
    BY TransportParameters DEF Request!TransportAssumption, Request!WithinPolicy, Request!TypeOK
  <2>2. r13 <= Request!Rounds(r3) + RequestTimeout
    BY <2>1, RoundsAdd
       DEF Request!WithinPolicy, Request!TimeAccounted, Request!TypeOK, Request!Attempting
  <2>3. r13 <= Request!Rounds(MaxRetries) + RequestTimeout
    BY <2>1, <2>2, RoundsAdd
  <2>4. Request!Rounds(MaxRetries) + RequestTimeout
          = (MaxRetries + 1) * RequestTimeout + MaxRetries * MaxDelay
    BY <2>1 DEF Request!Rounds
  <2> QED
    BY <2>3, <2>4 DEF Request!WithinPolicy, Request!OnlyGetRepeats, Request!PostSentOnce,
                      Request!TimeBounded
<1> QED
  BY <1>1, <1>2, <1>3, PTL DEF ServicesSpec

(* Only a transient failure is retried.                                     *)
LEMMA RetriesAreTransient ==
    ASSUME Request!WithinPolicy, Request!Next
    PROVE  Request!RetriedOnlyTransient
<1>1. r3 \in Nat
  BY ServicesAssumption DEF Request!WithinPolicy, Request!TypeOK, Request!TransportAssumption
<1>2. CASE Request!Decide
  BY <1>1, <1>2 DEF Request!Decide, Request!RetriedOnlyTransient
<1>3. CASE ~Request!Decide
  <2>1. r3' = r3
    BY <1>3 DEF Request!Next, Request!Request, Request!Redirect, Request!StatusError, Request!Success,
       Request!Chunk, Request!Complete, Request!Timeout, Request!Tick, Request!Again,
       Request!Cancel, Request!Cancelled
  <2> QED  BY <1>1, <2>1 DEF Request!RetriedOnlyTransient
<1> QED  BY <1>2, <1>3

(****************************************************************************)
(* The frontend presence.                                                   *)
(****************************************************************************)
(* At first no frontend has been seen.                                      *)
LEMMA PresenceStarts == Presence!Init => Presence!PresenceKept
<1> SUFFICES ASSUME Presence!Init PROVE Presence!PresenceKept
  OBVIOUS
<1>0. GracePeriod \in Nat /\ MaxTime \in Nat /\ MaxId \in Nat \ {0}
  BY ServicesAssumption DEF Presence!PresenceAssumption
<1>4. r5 \in {"active", "waiting"} /\ r6 \in 0..MaxTime
  <2>1. CASE GracePeriod = 0
    BY <1>0, <2>1 DEF Presence!Init, Presence!AfterGrace
  <2>2. CASE GracePeriod # 0
    BY <1>0, <2>2 DEF Presence!Init, Presence!AfterGrace
  <2> QED  BY <2>1, <2>2
<1>5. /\ r1 = 0 /\ r2 = 0 /\ r3 = 1 /\ r4 = {} /\ r7 = 0 /\ r8 = {} /\ r9 = "passive"
      /\ r10 = FALSE /\ r11 = 0
  BY DEF Presence!Init
<1>1. Presence!TypeOK /\ r7 <= r2
  <2>1. r1 \in 0..MaxTime /\ r2 \in 0..r1 /\ r7 \in 0..r1 /\ r11 \in 0..r1 /\ r7 <= r2 /\ r3 \in 0..MaxId
    BY <1>0, <1>5
  <2>2. r4 \subseteq 1..MaxId /\ r8 \subseteq 1..MaxId /\ r9 \in {"passive", "active"} /\ r10 \in BOOLEAN
    BY <1>5
  <2> QED  BY <1>4, <2>1, <2>2 DEF Presence!TypeOK
<1>2. Presence!SuppressedIffPresent /\ Presence!ActiveOnlyAfterGrace /\ Presence!DeadlineKept
  BY <1>0 DEF Presence!Init, Presence!AfterGrace, Presence!SuppressedIffPresent,
     Presence!ActiveOnlyAfterGrace, Presence!DeadlineKept
<1>3. r1 = 0 /\ r9 = "passive" /\ r10 = FALSE /\ r11 = 0
  BY DEF Presence!Init
<1> QED  BY <1>1, <1>2, <1>3 DEF Presence!PresenceKept

(* What the policy keeps, and what the tray keeps.                          *)
PolicyKept ==
    /\ r1 \in 0..MaxTime /\ r2 \in 0..r1 /\ r7 \in 0..r1 /\ r7 <= r2
    /\ r3 \in 0..MaxId /\ r4 \subseteq 1..MaxId
    /\ r5 \in {"active", "suppressed", "waiting"} /\ r6 \in 0..MaxTime
    /\ Presence!SuppressedIffPresent /\ Presence!ActiveOnlyAfterGrace /\ Presence!DeadlineKept
TrayKept ==
    /\ r1 \in 0..MaxTime /\ r8 \subseteq 1..MaxId
    /\ r9 \in {"passive", "active"} /\ r10 \in BOOLEAN /\ r11 \in 0..r1
    /\ r9 = "active" => r1 >= GracePeriod
    /\ r10 /\ r11 < r1 => r9 = Presence!Decided(r1)
    /\ ~r10 /\ r11 + 1 < r1 => r9 = Presence!Decided(r1 - 1)
LEMMA PresenceParts == Presence!PresenceKept <=> PolicyKept /\ TrayKept
BY DEF Presence!PresenceKept, Presence!TypeOK, PolicyKept, TrayKept
LEMMA PresencePartsNext == Presence!PresenceKept' <=> PolicyKept' /\ TrayKept'
BY DEF Presence!PresenceKept, Presence!TypeOK, PolicyKept, TrayKept

(* Without a tick, somebody who comes or goes is noticed.                   *)
LEMMA TasksChange ==
    ASSUME TrayKept, UNCHANGED <<r1, r9, r10>>, r8' \subseteq 1..MaxId, r11' = Presence!ChangedAt
    PROVE  TrayKept'
<1>0. GracePeriod \in Nat /\ MaxTime \in Nat /\ MaxId \in Nat \ {0}
  BY ServicesAssumption DEF Presence!PresenceAssumption
<1>1. CASE (r8 = {}) <=> (r8' = {})
  <2>1. r11' = r11
    BY <1>1 DEF Presence!ChangedAt
  <2>2. /\ Presence!Decided(r1)' = Presence!Decided(r1)
        /\ Presence!Decided(r1 - 1)' = Presence!Decided(r1 - 1)
    BY <1>1 DEF Presence!Decided
  <2> QED  BY <2>1, <2>2 DEF TrayKept
<1>2. CASE ~((r8 = {}) <=> (r8' = {}))
  <2>1. r11' = r1
    BY <1>2 DEF Presence!ChangedAt
  <2>2. r1 \in Nat /\ r1 <= MaxTime
    BY <1>0 DEF TrayKept
  <2> QED  BY <1>0, <2>1, <2>2 DEF TrayKept
<1> QED  BY <1>1, <1>2

(* A step of the policy, or of the tray, keeps the fallback in order.       *)
LEMMA PresenceStep == Presence!PresenceKept /\ Presence!Next => Presence!PresenceKept'
<1> SUFFICES ASSUME PolicyKept, TrayKept, Presence!Next PROVE PolicyKept' /\ TrayKept'
  BY PresenceParts, PresencePartsNext
<1>0. GracePeriod \in Nat /\ MaxTime \in Nat /\ MaxId \in Nat \ {0}
  BY ServicesAssumption DEF Presence!PresenceAssumption
<1> USE <1>0
<1> USE DEF Presence!SuppressedIffPresent, Presence!ActiveOnlyAfterGrace, Presence!DeadlineKept
<1>1. ASSUME NEW t \in Presence!Readings, NEW isCompatible \in BOOLEAN,
             Presence!Connect(t, isCompatible)
      PROVE  PolicyKept' /\ TrayKept'
  <2>1. PolicyKept'
    BY <1>1 DEF PolicyKept, Presence!Readings, Presence!Connect, Presence!ConnectAt, Presence!Fallback,
                Presence!Suppressed, Presence!Observed
  <2>2. /\ UNCHANGED <<r1, r9, r10>> /\ r11' = Presence!ChangedAt
        /\ r8' = (IF isCompatible THEN r8 \cup {r3} ELSE r8) /\ r3 # 0
    BY <1>1 DEF Presence!Connect, Presence!ConnectAt
  <2>3. r8' \subseteq 1..MaxId
    BY <2>2 DEF PolicyKept, TrayKept
  <2> QED  BY <2>1, <2>2, <2>3, TasksChange
<1>2. ASSUME NEW t \in Presence!Readings, NEW id \in 1..MaxId, Presence!Disconnect(t, id)
      PROVE  PolicyKept' /\ TrayKept'
  <2>1. PolicyKept'
    BY <1>2 DEF PolicyKept, Presence!Readings, Presence!Disconnect, Presence!DisconnectAt,
                Presence!Fallback, Presence!AfterGrace, Presence!Observed
  <2>2. /\ UNCHANGED <<r1, r9, r10>> /\ r11' = Presence!ChangedAt /\ r8' = r8 \ {id}
    BY <1>2 DEF Presence!Disconnect
  <2>3. r8' \subseteq 1..MaxId
    BY <2>2 DEF TrayKept
  <2> QED  BY <2>1, <2>2, <2>3, TasksChange
<1>3. ASSUME NEW t \in Presence!Readings, Presence!Advance(t)
      PROVE  PolicyKept' /\ TrayKept'
  <2>1. PolicyKept'
    BY <1>3 DEF PolicyKept, Presence!Readings, Presence!Advance, Presence!AdvanceTo, Presence!Fallback,
                Presence!Observed
  <2>2. TrayKept'
    BY <1>3 DEF TrayKept, Presence!Advance, Presence!Decided
  <2> QED  BY <2>1, <2>2
<1>4. CASE Presence!TrayTick
  <2>1. PolicyKept'
    BY <1>4 DEF PolicyKept, Presence!TrayTick, Presence!policy
  <2>2. TrayKept'
    BY <1>4 DEF TrayKept, Presence!TrayTick, Presence!Decided
  <2> QED  BY <2>1, <2>2
<1>5. CASE Presence!Tick
  <2>1. PolicyKept'
    BY <1>5 DEF PolicyKept, Presence!Tick, Presence!policy
  <2>2. TrayKept'
    <3>1. /\ r10 = TRUE /\ r10' = FALSE /\ r1' = r1 + 1 /\ r1 < MaxTime
          /\ UNCHANGED <<r8, r9, r11>>
      BY <1>5 DEF Presence!Tick, TrayKept
    <3>2. r1 \in Nat /\ r11 \in Nat /\ r11 <= r1
      BY DEF TrayKept
    <3>3. r11' + 1 < r1' => r9' = Presence!Decided(r1 - 1)'
      <4>1. r11' + 1 < r1' => r9 = Presence!Decided(r1)
        BY <3>1, <3>2 DEF TrayKept
      <4>2. r1' - 1 = r1
        BY <3>1, <3>2
      <4> QED  BY <3>1, <4>1, <4>2 DEF Presence!Decided
    <3>4. /\ r1' \in 0..MaxTime /\ r8' \subseteq 1..MaxId
          /\ r9' \in {"passive", "active"} /\ r11' \in 0..r1' /\ (r9' = "active" => r1' >= GracePeriod)
      BY <3>1, <3>2 DEF TrayKept
    <3> QED  BY <3>1, <3>3, <3>4 DEF TrayKept
  <2> QED  BY <2>1, <2>2
<1> QED
  BY <1>1, <1>2, <1>3, <1>4, <1>5 DEF Presence!Next

(* So the icon follows the client tasks.                                    *)
LEMMA TrayFollows == Presence!PresenceKept => Presence!TrayFollowsTasks
<1> SUFFICES ASSUME TrayKept PROVE Presence!TrayFollowsTasks
  BY PresenceParts
<1>0. GracePeriod \in Nat /\ MaxTime \in Nat
  BY ServicesAssumption DEF Presence!PresenceAssumption
<1>1. r1 \in Nat /\ r11 \in Nat /\ (r9 = "active" => r1 >= GracePeriod)
  BY <1>0 DEF TrayKept
<1>2. ASSUME r11 + 1 < r1 PROVE \E t \in {r1, r1 - 1} : r9 = Presence!Decided(t)
  <2>1. r11 < r1
    BY <1>1, <1>2
  <2>2. CASE r10
    BY <2>1, <2>2 DEF TrayKept
  <2>3. CASE ~r10
    BY <1>2, <2>3 DEF TrayKept
  <2> QED  BY <2>2, <2>3
<1> QED
  BY <1>0, <1>1, <1>2 DEF Presence!TrayFollowsTasks, Presence!Decided

(****************************************************************************)
(* The ownership of the socket. The proof is about the machine an outside   *)
(* process may meddle with; the other one takes a subset of its steps.      *)
(****************************************************************************)
(* The socket's parameters.                                                 *)
LEMMA SocketParameters == MaxInodes \in Nat /\ MaxAttempts \in Nat /\ "none" \notin Procs
BY ServicesAssumption DEF Meddled!OwnershipAssumption

(* At first nobody owns the endpoint.                                       *)
LEMMA OwnershipStarts == Meddled!Init => Meddled!EndpointOwned
BY SocketParameters
   DEF Meddled!Init, Meddled!EndpointOwned, Meddled!TypeOK, Meddled!LockIsExclusive,
       Meddled!InodesAreFresh, Meddled!BoundOwnsName, Meddled!Inodes, Meddled!Dirs,
       Meddled!None, Meddled!Off, Meddled!Steps, Meddled!Bound, Meddled!Listening,
       Meddled!Holding, Meddled!Here

(* Every step of a start, or of a daemon's end, is well typed.              *)
LEMMA OwnershipTypeStep ==
    ASSUME Meddled!EndpointOwned, Meddled!Next PROVE Meddled!TypeOK'
<1>a. /\ Meddled!TypeOK /\ r12 \in 0..MaxInodes
      /\ \A p \in Procs : r6[p] = "securing" => r8[p] # 0
  BY DEF Meddled!EndpointOwned, Meddled!InodesAreFresh, Meddled!BoundOwnsName,
         Meddled!None, Meddled!Bound, Meddled!Listening
<1> USE <1>a, SocketParameters
    DEF Meddled!TypeOK, Meddled!Inodes, Meddled!Dirs, Meddled!None,
        Meddled!Off, Meddled!Steps, Meddled!Here, Meddled!Goto, Meddled!Keep,
        Meddled!Unlinked, Meddled!Released, Meddled!fs, Meddled!counters
<1>1. ASSUME NEW p \in Procs, Meddled!Prepare(p) PROVE Meddled!TypeOK'
  <2>1. r6' \in [Procs -> Meddled!Steps] /\ r7' \in [Procs -> {1, 2}]
    BY <1>1 DEF Meddled!Prepare
  <2>2. r8' \in [Procs -> 1..MaxInodes \cup {0}] /\ r9' \in [Procs -> 1..MaxInodes \cup {0}]
    BY <1>1 DEF Meddled!Prepare
  <2>3. r10' \in [Procs -> 0..MaxAttempts]
    BY <1>1 DEF Meddled!Prepare
  <2>4. r11' \in [Procs -> BOOLEAN]
    BY <1>1 DEF Meddled!Prepare
  <2> QED
    BY <1>1, <2>1, <2>2, <2>3, <2>4 DEF Meddled!Prepare
<1>2. ASSUME NEW p \in Procs, Meddled!Acquire(p) PROVE Meddled!TypeOK'
  <2>0. r3' = r3 \/ r3' = [r3 EXCEPT ![r7[p]] = {p}]
    BY <1>2 DEF Meddled!Acquire
  <2>1. r3' \in [{1, 2} -> SUBSET Procs]
    BY <2>0
  <2>3. \E x \in Meddled!Steps : r6' = [r6 EXCEPT ![p] = x]
    BY <1>2 DEF Meddled!Acquire
  <2>2. r6' \in [Procs -> Meddled!Steps]
    BY <2>3
  <2> QED
    BY <1>2, <2>1, <2>2 DEF Meddled!Acquire
<1>3. ASSUME NEW p \in Procs, Meddled!Inspect(p) PROVE Meddled!TypeOK'
  BY <1>3 DEF Meddled!Inspect
<1>4. ASSUME NEW p \in Procs, Meddled!Probe(p) PROVE Meddled!TypeOK'
  <2>1. \/ Meddled!Goto(p, "binding") /\ r3' = r3
        \/ Meddled!Goto(p, "forwarding") /\ Meddled!Released(p)
        \/ Meddled!Goto(p, "comparing") /\ r3' = r3
    BY <1>4 DEF Meddled!Probe
  <2>2. r3' \in [{1, 2} -> SUBSET Procs]
    BY <2>1
  <2>3. r6' \in [Procs -> Meddled!Steps]
    BY <2>1
  <2> QED
    BY <1>4, <2>2, <2>3 DEF Meddled!Probe
<1>5. ASSUME NEW p \in Procs, Meddled!Compare(p) PROVE Meddled!TypeOK'
  BY <1>5 DEF Meddled!Compare
<1>6. ASSUME NEW p \in Procs, Meddled!UnlinkStale(p) PROVE Meddled!TypeOK'
  BY <1>6 DEF Meddled!UnlinkStale
<1>7. ASSUME NEW p \in Procs, Meddled!Bind(p) PROVE Meddled!TypeOK'
  <2>1. r12 < MaxInodes => r12 + 1 \in 1..MaxInodes
    OBVIOUS
  <2>2. r2' \in [{1, 2} -> 1..MaxInodes \cup {0}]
    BY <1>7, <2>1 DEF Meddled!Bind
  <2>3. r9' \in [Procs -> 1..MaxInodes \cup {0}]
    BY <1>7, <2>1 DEF Meddled!Bind
  <2>0. Meddled!Goto(p, "releasing") \/ Meddled!Goto(p, "listening")
    BY <1>7 DEF Meddled!Bind
  <2>4. r6' \in [Procs -> Meddled!Steps]
    BY <2>0
  <2> QED
    BY <1>7, <2>2, <2>3, <2>4 DEF Meddled!Bind
<1>8. ASSUME NEW p \in Procs, Meddled!Listen(p) PROVE Meddled!TypeOK'
  BY <1>8 DEF Meddled!Listen
<1>9. ASSUME NEW p \in Procs, Meddled!Capture(p) PROVE Meddled!TypeOK'
  <2>1. r2' \in [{1, 2} -> 1..MaxInodes \cup {0}]
    BY <1>9 DEF Meddled!Capture
  <2>0. /\ Meddled!Goto(p, "securing") \/ Meddled!Goto(p, "releasing")
        /\ r8' = r8 \/ r8' = [r8 EXCEPT ![p] = r2[r7[p]]]
    BY <1>9 DEF Meddled!Capture
  <2>2. r8' \in [Procs -> 1..MaxInodes \cup {0}]
    BY <2>0
  <2>3. r6' \in [Procs -> Meddled!Steps]
    BY <2>0
  <2> QED
    BY <1>9, <2>1, <2>2, <2>3 DEF Meddled!Capture
<1>10. ASSUME NEW p \in Procs, Meddled!Secure(p) PROVE Meddled!TypeOK'
  <2>0. /\ Meddled!Goto(p, "verifying") \/ Meddled!Goto(p, "dropping")
        /\ r5' = r5 \/ (r5' = r5 \cup {r8[p]} /\ r8[p] # 0)
    BY <1>10 DEF Meddled!Secure
  <2>3. r8[p] \in 1..MaxInodes \cup {0} /\ r5 \subseteq 1..MaxInodes
    OBVIOUS
  <2>1. r5' \subseteq 1..MaxInodes
    BY <2>0, <2>3
  <2>2. r6' \in [Procs -> Meddled!Steps]
    BY <2>0
  <2> QED
    BY <1>10, <2>1, <2>2 DEF Meddled!Secure
<1>11. ASSUME NEW p \in Procs, (Meddled!Verify(p) \/ Meddled!VerifyPath(p)) PROVE Meddled!TypeOK'
  BY <1>11 DEF Meddled!Verify, Meddled!VerifyPath
<1>12. ASSUME NEW p \in Procs, Meddled!Shutdown(p) PROVE Meddled!TypeOK'
  BY <1>12 DEF Meddled!Shutdown
<1>13. ASSUME NEW p \in Procs, Meddled!Drop(p) PROVE Meddled!TypeOK'
  BY <1>13 DEF Meddled!Drop
<1>14. ASSUME NEW p \in Procs, Meddled!Remove(p) PROVE Meddled!TypeOK'
  BY <1>14 DEF Meddled!Remove
<1>15. ASSUME NEW p \in Procs, Meddled!Release(p) PROVE Meddled!TypeOK'
  BY <1>15 DEF Meddled!Release
<1>16. ASSUME NEW p \in Procs, Meddled!Forward(p) PROVE Meddled!TypeOK'
  <2>0. r6' = r6 \/ \E x \in Meddled!Steps : r6' = [r6 EXCEPT ![p] = x]
    BY <1>16 DEF Meddled!Forward
  <2>1. r6' \in [Procs -> Meddled!Steps]
    BY <2>0
  <2>2. r10' \in [Procs -> 0..MaxAttempts]
    BY <1>16 DEF Meddled!Forward
  <2>4. r8' = r8 \/ (r2[r1] # 0 /\ r8' = [r8 EXCEPT ![p] = r2[r1]])
    BY <1>16 DEF Meddled!Forward
  <2>5. r2[r1] \in 1..MaxInodes \cup {0} /\ r8 \in [Procs -> 1..MaxInodes \cup {0}]
    OBVIOUS
  <2>3. r8' \in [Procs -> 1..MaxInodes \cup {0}]
    BY <2>4, <2>5
  <2> QED
    BY <1>16, <2>1, <2>2, <2>3 DEF Meddled!Forward
<1>17. ASSUME NEW p \in Procs, Meddled!Exchange(p) PROVE Meddled!TypeOK'
  BY <1>17 DEF Meddled!Exchange
<1>18. ASSUME NEW p \in Procs, Meddled!Crash(p) PROVE Meddled!TypeOK'
  BY <1>18 DEF Meddled!Crash
<1>19. CASE Meddled!Meddle
  BY <1>19 DEF Meddled!Meddle
<1> QED
  BY <1>1, <1>2, <1>3, <1>4, <1>5, <1>6, <1>7, <1>8, <1>9, <1>10, <1>11, <1>12, <1>13,
     <1>14, <1>15, <1>16, <1>17, <1>18, <1>19 DEF Meddled!Next, Meddled!BindSteps

(* A process that goes on without touching its lock, and neither takes nor  *)
(* gives up what the lock covers, leaves the locks exclusive.               *)
LEMMA LocksUntouched ==
    ASSUME Meddled!EndpointOwned, NEW p \in Procs, NEW x,
           r3' = r3, r7' = r7, r6' = [r6 EXCEPT ![p] = x],
           r6[p] \in Meddled!Holding <=> x \in Meddled!Holding
    PROVE  Meddled!LockIsExclusive'
BY DEF Meddled!EndpointOwned, Meddled!TypeOK, Meddled!LockIsExclusive, Meddled!Dirs

(* A lock is taken only when it is free, and given up only by its holder.   *)
LEMMA OwnershipLockStep ==
    ASSUME Meddled!EndpointOwned, Meddled!Next PROVE Meddled!LockIsExclusive'
<1>a. Meddled!TypeOK /\ Meddled!LockIsExclusive
  BY DEF Meddled!EndpointOwned
<1> USE DEF Meddled!Goto, Meddled!Keep, Meddled!fs, Meddled!counters, Meddled!Holding,
            Meddled!Bound, Meddled!Listening
<1>1. ASSUME NEW p \in Procs, Meddled!Prepare(p)
      PROVE  Meddled!LockIsExclusive'
  BY <1>a, <1>1
     DEF Meddled!Prepare, Meddled!TypeOK, Meddled!LockIsExclusive, Meddled!Off,
         Meddled!Dirs, Meddled!Released
<1>2. ASSUME NEW p \in Procs, Meddled!Acquire(p)
      PROVE  Meddled!LockIsExclusive'
  <2>1. CASE r3[r7[p]] = {}
    BY <1>a, <1>2, <2>1
       DEF Meddled!Acquire, Meddled!TypeOK, Meddled!LockIsExclusive, Meddled!Off,
           Meddled!Dirs, Meddled!Released
  <2>2. CASE r3[r7[p]] # {}
    BY <1>2, <2>2, LocksUntouched DEF Meddled!Acquire
  <2> QED
    BY <2>1, <2>2
<1>3. ASSUME NEW p \in Procs, Meddled!Inspect(p) \/ Meddled!Compare(p) \/ Meddled!UnlinkStale(p)
      PROVE  Meddled!LockIsExclusive'
  BY <1>3, LocksUntouched DEF Meddled!Inspect, Meddled!Compare, Meddled!UnlinkStale
<1>4. ASSUME NEW p \in Procs, Meddled!Probe(p)
      PROVE  Meddled!LockIsExclusive'
  <2>1. CASE r3' = r3 /\ (Meddled!Goto(p, "binding") \/ Meddled!Goto(p, "comparing"))
    BY <1>4, <2>1, LocksUntouched DEF Meddled!Probe
  <2>2. CASE Meddled!Released(p) /\ Meddled!Goto(p, "forwarding")
    BY <1>a, <1>4, <2>2
       DEF Meddled!Probe, Meddled!TypeOK, Meddled!LockIsExclusive, Meddled!Off,
           Meddled!Dirs, Meddled!Released
  <2> QED
    BY <1>4, <2>1, <2>2 DEF Meddled!Probe
<1>5. ASSUME NEW p \in Procs, Meddled!Bind(p) \/ Meddled!Listen(p) \/ Meddled!Capture(p)
      PROVE  Meddled!LockIsExclusive'
  BY <1>5, LocksUntouched DEF Meddled!Bind, Meddled!Listen, Meddled!Capture
<1>6. ASSUME NEW p \in Procs,
             \/ Meddled!Secure(p) \/ Meddled!Verify(p) \/ Meddled!VerifyPath(p) \/ Meddled!Shutdown(p)
             \/ Meddled!Drop(p) \/ Meddled!Remove(p)
      PROVE  Meddled!LockIsExclusive'
  BY <1>6, LocksUntouched
     DEF Meddled!Secure, Meddled!Verify, Meddled!VerifyPath, Meddled!Shutdown, Meddled!Drop, Meddled!Remove
<1>7. ASSUME NEW p \in Procs, Meddled!Release(p) \/ Meddled!Crash(p)
      PROVE  Meddled!LockIsExclusive'
  BY <1>a, <1>7
     DEF Meddled!Release, Meddled!Crash, Meddled!TypeOK, Meddled!LockIsExclusive, Meddled!Off,
         Meddled!Dirs, Meddled!Released
<1>8. ASSUME NEW p \in Procs, Meddled!Forward(p)
      PROVE  Meddled!LockIsExclusive'
  <2>1. r3' = r3 /\ r7' = r7 /\ r6[p] = "forwarding"
    BY <1>8 DEF Meddled!Forward
  <2>2. CASE r6' = r6
    BY <1>a, <2>1, <2>2 DEF Meddled!LockIsExclusive
  <2>3. CASE Meddled!Goto(p, "exchanging") \/ Meddled!Goto(p, "failed")
    BY <2>1, <2>3, LocksUntouched
  <2> QED
    BY <1>8, <2>2, <2>3 DEF Meddled!Forward
<1>9. ASSUME NEW p \in Procs, Meddled!Exchange(p)
      PROVE  Meddled!LockIsExclusive'
  <2>1. r3' = r3 /\ r7' = r7 /\ r6[p] = "exchanging"
    BY <1>9 DEF Meddled!Exchange
  <2>2. Meddled!Goto(p, "forwarded") \/ Meddled!Goto(p, "failed")
    BY <1>9 DEF Meddled!Exchange
  <2> QED
    BY <2>1, <2>2, LocksUntouched
<1>10. CASE Meddled!Meddle
  BY <1>a, <1>10 DEF Meddled!Meddle, Meddled!LockIsExclusive
<1> QED
  BY <1>1, <1>2, <1>3, <1>4, <1>5, <1>6, <1>7, <1>8, <1>9, <1>10
     DEF Meddled!Next, Meddled!BindSteps

(* A name is bound to the next inode, and nobody else to that one.          *)
LEMMA OwnershipInodesStep ==
    ASSUME Meddled!EndpointOwned, Meddled!Next PROVE Meddled!InodesAreFresh'
<1>a. Meddled!TypeOK /\ Meddled!InodesAreFresh
  BY DEF Meddled!EndpointOwned
<1> USE <1>a, SocketParameters
    DEF Meddled!TypeOK, Meddled!InodesAreFresh, Meddled!Inodes, Meddled!Dirs, Meddled!None,
        Meddled!Keep, Meddled!fs, Meddled!counters, Meddled!Unlinked
<1>1. ASSUME NEW p \in Procs, Meddled!Prepare(p)
      PROVE  Meddled!InodesAreFresh'
  BY <1>1 DEF Meddled!Prepare
<1>2. ASSUME NEW p \in Procs, Meddled!Bind(p)
      PROVE  Meddled!InodesAreFresh'
  <2>1. CASE UNCHANGED <<r2, r9, r12>>
    BY <2>1
  <2>2. CASE /\ r12 < MaxInodes /\ r12' = r12 + 1 /\ r9' = [r9 EXCEPT ![p] = r12 + 1]
             /\ r2' = [r2 EXCEPT ![r7[p]] = r12 + 1]
    <3>1. r12' \in 0..MaxInodes /\ \A q \in Procs : r9'[q] <= r12'
      BY <2>2
    <3>0. \A d \in {1, 2} : r2'[d] <= r12'
      BY <2>2
    <3>2. ASSUME NEW q \in Procs, NEW q2 \in Procs, r9'[q] # 0, r9'[q] = r9'[q2]
          PROVE  q = q2
      BY <2>2, <3>2
    <3> QED
      BY <3>0, <3>1, <3>2
  <2> QED
    BY <1>2, <2>1, <2>2 DEF Meddled!Bind
<1>3. ASSUME NEW p \in Procs, Meddled!UnlinkStale(p) \/ Meddled!Remove(p)
      PROVE  Meddled!InodesAreFresh'
  BY <1>3 DEF Meddled!UnlinkStale, Meddled!Remove
<1>4. ASSUME NEW p \in Procs, Meddled!Capture(p)
      PROVE  Meddled!InodesAreFresh'
  <2>1. UNCHANGED <<r9, r12>> /\ (r2' = r2 \/ r2' = [r2 EXCEPT ![r7[p]] = 0])
    BY <1>4 DEF Meddled!Capture
  <2>2. CASE r2' = r2
    BY <2>1, <2>2
  <2>3. CASE r2' = [r2 EXCEPT ![r7[p]] = 0]
    <3>1. \A d \in {1, 2} : r2'[d] = r2[d] \/ r2'[d] = 0
      BY <2>3
    <3> QED
      BY <2>1, <3>1
  <2> QED
    BY <2>1, <2>2, <2>3
<1>5. ASSUME NEW p \in Procs,
             \/ Meddled!Acquire(p) \/ Meddled!Inspect(p) \/ Meddled!Probe(p)
             \/ Meddled!Compare(p) \/ Meddled!Listen(p) \/ Meddled!Secure(p)
      PROVE  Meddled!InodesAreFresh'
  BY <1>5 DEF Meddled!Acquire, Meddled!Inspect, Meddled!Probe, Meddled!Compare,
              Meddled!Listen, Meddled!Secure
<1>6. ASSUME NEW p \in Procs,
             \/ Meddled!Verify(p) \/ Meddled!VerifyPath(p) \/ Meddled!Drop(p) \/ Meddled!Release(p)
             \/ Meddled!Forward(p) \/ Meddled!Exchange(p) \/ Meddled!Shutdown(p)
             \/ Meddled!Crash(p)
      PROVE  Meddled!InodesAreFresh'
  BY <1>6 DEF Meddled!Verify, Meddled!VerifyPath, Meddled!Drop, Meddled!Release, Meddled!Forward,
              Meddled!Exchange, Meddled!Shutdown, Meddled!Crash
<1>7. CASE Meddled!Meddle
  BY <1>7 DEF Meddled!Meddle
<1> QED
  BY <1>1, <1>2, <1>3, <1>4, <1>5, <1>6, <1>7 DEF Meddled!Next, Meddled!BindSteps

(* Two processes at work under their locks have different directories.      *)
LEMMA HoldersApart ==
    ASSUME Meddled!EndpointOwned, NEW p \in Procs, NEW q \in Procs,
           r6[p] \in Meddled!Holding, r6[q] \in Meddled!Holding, p # q
    PROVE  r7[p] # r7[q]
BY DEF Meddled!EndpointOwned, Meddled!LockIsExclusive

(* Whoever unlinks, binds or listens does so in the directory it has locked *)
(* and on its own inode.                                                    *)
LEMMA OwnershipBoundStep ==
    ASSUME Meddled!EndpointOwned, Meddled!Next PROVE Meddled!BoundOwnsName'
<1>a. Meddled!TypeOK /\ Meddled!InodesAreFresh /\ Meddled!BoundOwnsName
  BY DEF Meddled!EndpointOwned
<1>b. ASSUME NEW p \in Procs, NEW q \in Procs,
             r6[p] \in Meddled!Holding, r6[q] \in Meddled!Holding, p # q
      PROVE  r7[p] # r7[q]
  BY <1>b, HoldersApart
<1> USE <1>a, SocketParameters
    DEF Meddled!TypeOK, Meddled!InodesAreFresh, Meddled!BoundOwnsName, Meddled!Inodes,
        Meddled!Dirs, Meddled!None, Meddled!Off, Meddled!Here, Meddled!Goto, Meddled!Keep,
        Meddled!Unlinked, Meddled!Released, Meddled!fs, Meddled!counters, Meddled!Listening,
        Meddled!Bound
<1>1. ASSUME NEW p \in Procs, Meddled!Prepare(p)
      PROVE  Meddled!BoundOwnsName'
  BY <1>1 DEF Meddled!Prepare
<1>2. ASSUME NEW p \in Procs, Meddled!Acquire(p)
      PROVE  Meddled!BoundOwnsName'
  BY <1>2 DEF Meddled!Acquire
<1>3. ASSUME NEW p \in Procs, Meddled!Inspect(p) \/ Meddled!Probe(p) \/ Meddled!Compare(p)
      PROVE  Meddled!BoundOwnsName'
  BY <1>3 DEF Meddled!Inspect, Meddled!Probe, Meddled!Compare
<1>4. ASSUME NEW p \in Procs, Meddled!UnlinkStale(p) \/ Meddled!Remove(p)
      PROVE  Meddled!BoundOwnsName'
  BY <1>b, <1>4 DEF Meddled!UnlinkStale, Meddled!Remove, Meddled!Holding
<1>5. ASSUME NEW p \in Procs, Meddled!Bind(p)
      PROVE  Meddled!BoundOwnsName'
  BY <1>b, <1>5 DEF Meddled!Bind, Meddled!Holding
<1>6. ASSUME NEW p \in Procs, Meddled!Listen(p)
      PROVE  Meddled!BoundOwnsName'
  BY <1>6 DEF Meddled!Listen
<1>7. ASSUME NEW p \in Procs, Meddled!Capture(p)
      PROVE  Meddled!BoundOwnsName'
  BY <1>b, <1>7 DEF Meddled!Capture, Meddled!Holding
<1>8. ASSUME NEW p \in Procs, Meddled!Secure(p)
      PROVE  Meddled!BoundOwnsName'
  BY <1>8 DEF Meddled!Secure
<1>9. ASSUME NEW p \in Procs, (Meddled!Verify(p) \/ Meddled!VerifyPath(p)) \/ Meddled!Drop(p)
      PROVE  Meddled!BoundOwnsName'
  BY <1>9 DEF Meddled!Verify, Meddled!VerifyPath, Meddled!Drop
<1>10. ASSUME NEW p \in Procs, Meddled!Shutdown(p)
      PROVE  Meddled!BoundOwnsName'
  BY <1>10 DEF Meddled!Shutdown
<1>11. ASSUME NEW p \in Procs, Meddled!Release(p) \/ Meddled!Crash(p)
      PROVE  Meddled!BoundOwnsName'
  BY <1>11 DEF Meddled!Release, Meddled!Crash
<1>12. ASSUME NEW p \in Procs, Meddled!Forward(p) \/ Meddled!Exchange(p)
      PROVE  Meddled!BoundOwnsName'
  BY <1>12 DEF Meddled!Forward, Meddled!Exchange
<1>13. CASE Meddled!Meddle
  BY <1>13 DEF Meddled!Meddle
<1> QED
  BY <1>1, <1>2, <1>3, <1>4, <1>5, <1>6, <1>7, <1>8, <1>9, <1>10, <1>11, <1>12, <1>13
     DEF Meddled!Next, Meddled!BindSteps

(* So every step keeps the endpoint with its owner.                         *)
LEMMA OwnershipStep == Meddled!EndpointOwned /\ Meddled!Next => Meddled!EndpointOwned'
BY OwnershipTypeStep, OwnershipLockStep, OwnershipInodesStep, OwnershipBoundStep
   DEF Meddled!EndpointOwned

(* Without an outside process there is nothing else a step can do.          *)
LEMMA UndisturbedSteps ==
    (Socket!Init => Meddled!Init) /\ (Socket!Next => Meddled!Next)
<1>1. Socket!Init => Meddled!Init
  BY DEF Socket!Init, Meddled!Init, Socket!Dirs, Meddled!Dirs, Socket!Inodes, Meddled!Inodes,
         Socket!None, Meddled!None
<1> USE DEF Socket!Inodes, Meddled!Inodes, Socket!None, Meddled!None, Socket!Off, Meddled!Off,
            Socket!Here, Meddled!Here, Socket!Goto, Meddled!Goto, Socket!Keep, Meddled!Keep,
            Socket!Unlinked, Meddled!Unlinked, Socket!Released, Meddled!Released,
            Socket!fs, Meddled!fs, Socket!counters, Meddled!counters
<1>2. ASSUME NEW p \in Procs PROVE Socket!Prepare(p) => Meddled!Prepare(p)
  BY DEF Socket!Prepare, Meddled!Prepare
<1>3. ASSUME NEW p \in Procs, Socket!BindSteps(p) PROVE Meddled!BindSteps(p)
  <2>1. /\ Socket!Acquire(p) => Meddled!Acquire(p)
        /\ Socket!Inspect(p) => Meddled!Inspect(p)
        /\ Socket!Probe(p) => Meddled!Probe(p)
    BY DEF Socket!Acquire, Meddled!Acquire, Socket!Inspect, Meddled!Inspect, Socket!Probe,
           Meddled!Probe
  <2>2. /\ Socket!Compare(p) => Meddled!Compare(p)
        /\ Socket!UnlinkStale(p) => Meddled!UnlinkStale(p)
        /\ Socket!Bind(p) => Meddled!Bind(p)
    BY DEF Socket!Compare, Meddled!Compare, Socket!UnlinkStale, Meddled!UnlinkStale,
           Socket!Bind, Meddled!Bind
  <2>3. /\ Socket!Listen(p) => Meddled!Listen(p)
        /\ Socket!Capture(p) => Meddled!Capture(p)
        /\ Socket!Secure(p) => Meddled!Secure(p)
        /\ Socket!Verify(p) => Meddled!Verify(p)
        /\ Socket!VerifyPath(p) => Meddled!VerifyPath(p)
    BY DEF Socket!Listen, Meddled!Listen, Socket!Capture, Meddled!Capture, Socket!Secure,
           Meddled!Secure, Socket!Verify, Meddled!Verify, Socket!VerifyPath, Meddled!VerifyPath
  <2>4. /\ Socket!Drop(p) => Meddled!Drop(p)
        /\ Socket!Remove(p) => Meddled!Remove(p)
        /\ Socket!Release(p) => Meddled!Release(p)
    BY DEF Socket!Drop, Meddled!Drop, Socket!Remove, Meddled!Remove, Socket!Release,
           Meddled!Release
  <2>5. /\ Socket!Forward(p) => Meddled!Forward(p)
        /\ Socket!Exchange(p) => Meddled!Exchange(p)
    BY DEF Socket!Forward, Meddled!Forward, Socket!Exchange, Meddled!Exchange
  <2> QED
    BY <1>3, <2>1, <2>2, <2>3, <2>4, <2>5 DEF Socket!BindSteps, Meddled!BindSteps
<1>4. ASSUME NEW p \in Procs
      PROVE  /\ Socket!Shutdown(p) => Meddled!Shutdown(p)
             /\ Socket!Crash(p) => Meddled!Crash(p)
  BY DEF Socket!Shutdown, Meddled!Shutdown, Socket!Crash, Meddled!Crash
<1>5. ~Socket!Meddle
  BY DEF Socket!Meddle
<1> QED
  BY <1>1, <1>2, <1>3, <1>4, <1>5 DEF Socket!Next, Meddled!Next

(* For any number of processes and starts, crashes at every step and an     *)
(* outside process that unlinks the socket or moves the directory away: a   *)
(* daemon that serves holds the endpoint alone (DisplaySocket::bind, Drop   *)
(* for SocketCleanup). For every grace period and every order of connects   *)
(* and late or repeated disconnects: the daemon's tray icon is never shown  *)
(* before the start's grace is over, is hidden a tick after a frontend has  *)
(* come and shown a tick after the last has gone (daemon.rs); and the       *)
(* policy, which the daemon does not use, suppresses the fallback exactly   *)
(* while a compatible frontend is left and shows it after a whole grace     *)
(* without one, and no later (frontend_presence.rs).                        *)
THEOREM EndpointAndFallbackHolds == ServicesSpec => []EndpointAndFallback
<1> DEFINE Owned == machine \in {"socket", "meddled"} => Meddled!EndpointOwned
           Fallback == machine = "presence" => Presence!PresenceKept
<1>1. ServicesInit => Owned /\ Fallback
  BY OwnershipStarts, UndisturbedSteps, PresenceStarts DEF ServicesInit, Starts
<1>2. Owned /\ Fallback /\ [ServicesNext]_all => Owned' /\ Fallback'
  <2> SUFFICES ASSUME Owned, Fallback, [ServicesNext]_all PROVE Owned' /\ Fallback'
    OBVIOUS
  <2>1. CASE UNCHANGED all
    <3>1. UNCHANGED registers /\ machine' = machine
      BY <2>1 DEF all
    <3>2. Owned'
      BY <3>1 DEF registers, Meddled!EndpointOwned, Meddled!TypeOK, Meddled!LockIsExclusive,
                  Meddled!InodesAreFresh, Meddled!BoundOwnsName, Meddled!Here
    <3>3. Fallback'
      BY <3>1 DEF registers, Presence!PresenceKept, Presence!TypeOK,
           Presence!SuppressedIffPresent, Presence!ActiveOnlyAfterGrace, Presence!DeadlineKept,
           Presence!Decided
    <3> QED
      BY <3>2, <3>3
  <2>2. CASE machine \in {"socket", "meddled"}
    <3>1. UNCHANGED all \/ Socket!Next \/ Meddled!Next
      BY <2>2 DEF ServicesNext, Runs
    <3> QED
      BY <2>1, <2>2, <3>1, MachineIsFixed, UndisturbedSteps, OwnershipStep
  <2>3. CASE machine = "presence"
    <3>1. UNCHANGED all \/ Presence!Next
      BY <2>3 DEF ServicesNext, Runs
    <3> QED
      BY <2>1, <2>3, <3>1, MachineIsFixed, PresenceStep
  <2> QED
    BY <2>2, <2>3, MachineIsFixed
<1>3. Owned /\ Fallback => EndpointAndFallback
  <2>1. Meddled!EndpointOwned => Meddled!ServingOwnsEndpoint /\ Socket!ServingOwnsEndpoint
    BY DEF Meddled!EndpointOwned, Meddled!LockIsExclusive, Meddled!BoundOwnsName,
           Meddled!Holding, Meddled!Bound, Meddled!Listening, Meddled!Here,
           Meddled!ServingOwnsEndpoint, Socket!ServingOwnsEndpoint, Socket!Here
  <2> QED
    BY <2>1, TrayFollows DEF EndpointAndFallback, Presence!PresenceKept
<1> QED
  BY <1>1, <1>2, <1>3, PTL DEF ServicesSpec

(* At first nobody starts, and nothing is left behind.                      *)
LEMMA StartStarts == Meddled!Init => Meddled!StartKept
<1> SUFFICES ASSUME Meddled!Init PROVE Meddled!StartKept
  OBVIOUS
<1>1. Meddled!EndpointOwned
  BY OwnershipStarts
<1>2. Meddled!NamesLeadBack
  BY DEF Meddled!Init, Meddled!NamesLeadBack, Meddled!Off, Meddled!None
<1>3. Meddled!AloneRecovers
  BY DEF Meddled!Init, Meddled!AloneRecovers, Meddled!Off
<1> QED  BY <1>1, <1>2, <1>3 DEF Meddled!StartKept

(* What a process does without binding: it gives up names and listeners at  *)
(* most, and none of its listeners outlives it.                             *)
Late == {"dropping", "removing", "releasing"}
Early == Meddled!Steps \ (Meddled!Off \cup Meddled!Bound \cup Late)
(* A step that binds nothing, and moves no process back before its bind,    *)
(* leaves the names leading back.                                           *)
LEMMA NamesUntouched ==
    ASSUME Meddled!StartKept, NEW p \in Procs, NEW x, r6' = [r6 EXCEPT ![p] = x],
           r7' = r7, r9' = r9, \A d \in {1, 2} : r2'[d] \in {r2[d], 0},
           r4' \in [Meddled!Inodes -> Procs \cup {"none"}],
           \A i \in Meddled!Inodes : r4'[i] \in {r4[i], "none"},
           x \in Early => r6[p] \in Early,
           x \in Meddled!Listening \cup Late \/ \A i \in Meddled!Inodes : r4'[i] # p
    PROVE  Meddled!NamesLeadBack'
<1>1. Meddled!TypeOK /\ Meddled!NamesLeadBack
  BY DEF Meddled!StartKept, Meddled!EndpointOwned
<1>2. \A q \in Procs : r6'[q] = IF q = p THEN x ELSE r6[q]
  BY <1>1 DEF Meddled!TypeOK
<1>3. ASSUME NEW q \in Procs, NEW d \in {1, 2}, r9'[q] # 0, r2'[d] = r9'[q]
      PROVE  r7'[q] = d
  BY <1>1, <1>3 DEF Meddled!NamesLeadBack, Meddled!Dirs, Meddled!None
<1>4. ASSUME NEW q \in Procs, r6'[q] \in Early
      PROVE  r9'[q] = 0
  <2>1. r6[q] \in Early
    BY <1>2, <1>4
  <2> QED  BY <2>1, <1>1 DEF Meddled!NamesLeadBack, Meddled!None, Early, Late
<1>5. ASSUME NEW i \in Meddled!Inodes, r4'[i] # "none"
      PROVE  r6'[r4'[i]] \in Meddled!Listening \cup Late
  <2>1. r4'[i] = r4[i] /\ r4[i] \in Procs /\ r6[r4[i]] \in Meddled!Listening \cup Late
    BY <1>1, <1>5 DEF Meddled!NamesLeadBack, Late, Meddled!TypeOK
  <2> QED  BY <2>1, <1>2, <1>5
<1>6. /\ Meddled!Inodes' = Meddled!Inodes /\ Meddled!Listening' = Meddled!Listening
      /\ Meddled!Dirs' = {1, 2} /\ Meddled!None' = 0
  BY DEF Meddled!Inodes, Meddled!Listening, Meddled!Dirs, Meddled!None
<1> QED
  BY <1>3, <1>4, <1>5, <1>6 DEF Meddled!NamesLeadBack, Early, Late, Meddled!Steps, Meddled!Off, Meddled!Bound,
     Meddled!None, Meddled!Dirs

(* Names lead back to their binder, and listeners are there.                *)
LEMMA NamesStep ==
    ASSUME Meddled!StartKept, Meddled!Next PROVE Meddled!NamesLeadBack'
<1>a. /\ Meddled!TypeOK /\ Meddled!InodesAreFresh /\ Meddled!NamesLeadBack
  BY DEF Meddled!StartKept, Meddled!EndpointOwned
<1>b. \A p \in Procs : r6[p] \notin Meddled!Listening \cup Late => \A i \in Meddled!Inodes : r4[i] # p
  BY <1>a, SocketParameters DEF Meddled!NamesLeadBack, Late
<1>c. r4 \in [Meddled!Inodes -> Procs \cup {"none"}] /\ r2 \in [{1, 2} -> Meddled!Inodes \cup {0}]
      /\ r7 \in [Procs -> {1, 2}] /\ r9 \in [Procs -> Meddled!Inodes \cup {0}] /\ r6 \in [Procs -> Meddled!Steps]
  BY <1>a DEF Meddled!TypeOK, Meddled!Dirs, Meddled!None
<1> USE DEF Meddled!Goto, Meddled!Keep, Meddled!Unlinked, Meddled!fs, Meddled!counters
<1>1. ASSUME NEW p \in Procs, Meddled!Prepare(p)
      PROVE  Meddled!NamesLeadBack'
  BY <1>a, <1>b, <1>1, SocketParameters DEF Meddled!Prepare, Meddled!TypeOK, Meddled!NamesLeadBack, Meddled!Inodes,
        Meddled!Dirs, Meddled!None, Meddled!Off, Meddled!Listening, Meddled!Bound, Meddled!Steps, Late
<1>2. ASSUME NEW p \in Procs,
             \/ Meddled!Acquire(p) \/ Meddled!Inspect(p) \/ Meddled!Compare(p) \/ Meddled!Probe(p)
             \/ Meddled!Exchange(p)
      PROVE  Meddled!NamesLeadBack'
  <2>1. /\ UNCHANGED <<r2, r4, r7, r9>> /\ r6[p] \in {"locking", "inspecting", "comparing", "probing", "exchanging"}
        /\ \E x \in {"inspecting", "forwarding", "binding", "probing", "comparing", "unlinking", "releasing",
                      "forwarded", "failed"} : r6' = [r6 EXCEPT ![p] = x]
    BY <1>2 DEF Meddled!Acquire, Meddled!Inspect, Meddled!Compare, Meddled!Probe, Meddled!Exchange
  <2>2. r6[p] \in Early /\ r6[p] \notin Meddled!Listening \cup Late
    BY <2>1 DEF Early, Late, Meddled!Steps, Meddled!Off, Meddled!Bound, Meddled!Listening
  <2> QED  BY <1>b, <1>c, <2>1, <2>2, NamesUntouched
<1>4. ASSUME NEW p \in Procs, Meddled!UnlinkStale(p) \/ Meddled!Remove(p)
      PROVE  Meddled!NamesLeadBack'
  <2>1. /\ UNCHANGED <<r4, r7, r9>> /\ r2' = [r2 EXCEPT ![r7[p]] = 0]
        /\ \/ /\ r6[p] = "unlinking"
              /\ r6' = [r6 EXCEPT ![p] = "releasing"] \/ r6' = [r6 EXCEPT ![p] = "binding"]
           \/ r6' = [r6 EXCEPT ![p] = "releasing"]
    BY <1>4 DEF Meddled!UnlinkStale, Meddled!Remove, Meddled!None
  <2>2. /\ \A d \in {1, 2} : r2'[d] \in {r2[d], 0}
        /\ "releasing" \in Late /\ "releasing" \notin Early /\ "unlinking" \in Early
        /\ "unlinking" \notin Meddled!Listening \cup Late
    BY <2>1, <1>c DEF Early, Late, Meddled!Steps, Meddled!Off, Meddled!Bound, Meddled!Listening
  <2> QED  BY <1>b, <1>c, <2>1, <2>2, NamesUntouched
<1>5. ASSUME NEW p \in Procs, Meddled!Bind(p)
      PROVE  Meddled!NamesLeadBack'
  <2>0. /\ r6[p] = "binding" /\ UNCHANGED <<r4, r7>> /\ "binding" \notin Meddled!Listening \cup Late
        /\ "releasing" \in Late /\ "releasing" \notin Early /\ "listening" \notin Early
    BY <1>5 DEF Meddled!Bind, Early, Late, Meddled!Steps, Meddled!Off, Meddled!Bound, Meddled!Listening
  <2>1. CASE Meddled!Goto(p, "releasing") /\ UNCHANGED <<r2, r9, r12>>
    BY <1>b, <1>c, <2>0, <2>1, NamesUntouched
  <2>2. CASE /\ r12 < MaxInodes /\ r9' = [r9 EXCEPT ![p] = r12 + 1]
             /\ r2' = [r2 EXCEPT ![r7[p]] = r12 + 1] /\ Meddled!Goto(p, "listening")
    <3>1. ASSUME NEW q \in Procs, NEW d \in {1, 2}, r9'[q] # 0, r2'[d] = r9'[q]
          PROVE  r7'[q] = d
      <4>1. r9[q] <= r12 /\ r2[d] <= r12 /\ r12 \in Nat /\ r9[q] \in Nat /\ r2[d] \in Nat
        BY <1>a, <1>c, SocketParameters DEF Meddled!InodesAreFresh, Meddled!Dirs, Meddled!Inodes
      <4>2. CASE q = p
        BY <2>0, <2>2, <1>c, <3>1, <4>1, <4>2
      <4>3. CASE q # p
        <5>1. r9'[q] = r9[q] /\ r2'[d] = r2[d]
          BY <2>2, <1>c, <3>1, <4>1, <4>3
        <5> QED  BY <5>1, <3>1, <2>0, <1>a DEF Meddled!NamesLeadBack, Meddled!Dirs, Meddled!None
      <4> QED  BY <4>2, <4>3
    <3>2. ASSUME NEW q \in Procs, r6'[q] \in Early
          PROVE  r9'[q] = 0
      <4>1. q # p /\ r6[q] \in Early
        BY <2>2, <2>0, <3>2, <1>c
      <4> QED  BY <4>1, <2>2, <1>c, <1>a DEF Meddled!NamesLeadBack, Meddled!None, Early, Late
    <3>3. ASSUME NEW i \in Meddled!Inodes, r4'[i] # "none"
          PROVE  r6'[r4'[i]] \in Meddled!Listening \cup Late
      <4>1. r4[i] # p /\ r4[i] \in Procs /\ r6[r4[i]] \in Meddled!Listening \cup Late
        BY <1>a, <1>b, <1>c, <2>0, <3>3 DEF Meddled!NamesLeadBack, Late
      <4> QED  BY <4>1, <2>0, <2>2, <1>c
    <3>4. Meddled!Inodes' = Meddled!Inodes
      BY DEF Meddled!Inodes
    <3> QED
      BY <3>1, <3>2, <3>3, <3>4 DEF Meddled!NamesLeadBack, Early, Late, Meddled!Steps, Meddled!Off, Meddled!Bound,
         Meddled!Listening, Meddled!None, Meddled!Dirs
  <2> QED  BY <1>5, <2>1, <2>2 DEF Meddled!Bind
<1>6. ASSUME NEW p \in Procs, Meddled!Listen(p)
      PROVE  Meddled!NamesLeadBack'
  <2>1. /\ UNCHANGED <<r2, r7, r9>> /\ r4' = [r4 EXCEPT ![r9[p]] = p] /\ r6' = [r6 EXCEPT ![p] = "capturing"]
        /\ "capturing" \notin Early /\ "capturing" \in Meddled!Listening
    BY <1>6 DEF Meddled!Listen, Early, Meddled!Bound, Meddled!Listening
  <2>2. ASSUME NEW q \in Procs, r6'[q] \in Early
        PROVE  r9'[q] = 0
    <3>1. r6[q] \in Early
      BY <2>1, <2>2, <1>c
    <3> QED  BY <3>1, <2>1, <1>a DEF Meddled!NamesLeadBack, Meddled!None, Early, Late
  <2>3. ASSUME NEW i \in Meddled!Inodes, r4'[i] # "none"
        PROVE  r6'[r4'[i]] \in Meddled!Listening \cup Late
    <3>1. r4'[i] = p \/ r4'[i] = r4[i]
      BY <2>1, <1>c
    <3>2. r4[i] # "none" => r4[i] \in Procs /\ r6[r4[i]] \in Meddled!Listening \cup Late
      BY <1>a, <1>c DEF Meddled!NamesLeadBack, Late
    <3> QED  BY <3>1, <3>2, <2>1, <2>3, <1>c
  <2>4. Meddled!Inodes' = Meddled!Inodes
    BY DEF Meddled!Inodes
  <2> QED
    BY <1>a, <2>1, <2>2, <2>3, <2>4 DEF Meddled!NamesLeadBack, Early, Late, Meddled!Steps, Meddled!Off, Meddled!Bound,
       Meddled!Listening, Meddled!None, Meddled!Dirs
<1>7. ASSUME NEW p \in Procs, Meddled!Capture(p)
      PROVE  Meddled!NamesLeadBack'
  <2>1. /\ UNCHANGED <<r4, r7, r9>> /\ (r2' = r2 \/ r2' = [r2 EXCEPT ![r7[p]] = 0])
        /\ \E x \in {"securing", "releasing"} : r6' = [r6 EXCEPT ![p] = x]
    BY <1>7 DEF Meddled!Capture, Meddled!None
  <2>2. /\ \A d \in {1, 2} : r2'[d] \in {r2[d], 0}
        /\ {"securing", "releasing"} \subseteq (Meddled!Listening \cup Late) \ Early
    BY <2>1, <1>c DEF Early, Late, Meddled!Bound, Meddled!Listening
  <2> QED  BY <1>c, <2>1, <2>2, NamesUntouched
<1>8. ASSUME NEW p \in Procs, Meddled!Secure(p) \/ Meddled!Verify(p) \/ Meddled!VerifyPath(p) \/ Meddled!Drop(p)
      PROVE  Meddled!NamesLeadBack'
  <2>1. /\ UNCHANGED <<r2, r4, r7, r9>>
        /\ \E x \in {"verifying", "placing", "dropping", "serving", "removing", "releasing"} : r6' = [r6 EXCEPT ![p] = x]
    BY <1>8 DEF Meddled!Secure, Meddled!Verify, Meddled!VerifyPath, Meddled!Drop
  <2>2. {"verifying", "placing", "dropping", "serving", "removing", "releasing"} \subseteq (Meddled!Listening \cup Late) \ Early
    BY DEF Early, Late, Meddled!Bound, Meddled!Listening
  <2> QED  BY <1>c, <2>1, <2>2, NamesUntouched
<1>10. ASSUME NEW p \in Procs, Meddled!Shutdown(p)
      PROVE  Meddled!NamesLeadBack'
  <2>1. /\ UNCHANGED <<r2, r7, r9>> /\ r4' = [r4 EXCEPT ![r9[p]] = "none"] /\ r6' = [r6 EXCEPT ![p] = "dropping"]
        /\ "dropping" \in Late /\ "dropping" \notin Early
    BY <1>10 DEF Meddled!Shutdown, Early, Late
  <2> QED  BY <1>c, <2>1, NamesUntouched
<1>11. ASSUME NEW p \in Procs, Meddled!Release(p) \/ Meddled!Crash(p)
      PROVE  Meddled!NamesLeadBack'
  <2>1. /\ UNCHANGED <<r2, r7, r9>>
        /\ r4' = [i \in Meddled!Inodes |-> IF r4[i] = p THEN "none" ELSE r4[i]]
        /\ \E x \in {"failed", "off"} : r6' = [r6 EXCEPT ![p] = x]
    BY <1>11 DEF Meddled!Release, Meddled!Crash
  <2>2. {"failed", "off"} \cap Early = {}
    BY DEF Early, Meddled!Off
  <2>3. /\ r4' \in [Meddled!Inodes -> Procs \cup {"none"}]
        /\ \A i \in Meddled!Inodes : r4'[i] \in {r4[i], "none"} /\ r4'[i] # p
    BY <2>1, <1>c, SocketParameters
  <2> QED  BY <1>c, <2>1, <2>2, <2>3, NamesUntouched
<1>12. ASSUME NEW p \in Procs, Meddled!Forward(p)
      PROVE  Meddled!NamesLeadBack'
  <2>1. /\ UNCHANGED <<r2, r4, r7, r9>> /\ r6[p] = "forwarding"
        /\ r6' = r6 \/ \E x \in {"exchanging", "failed"} : r6' = [r6 EXCEPT ![p] = x]
    BY <1>12 DEF Meddled!Forward
  <2>2. r6[p] \in Early /\ r6[p] \notin Meddled!Listening \cup Late
    BY <2>1 DEF Early, Late, Meddled!Steps, Meddled!Off, Meddled!Bound, Meddled!Listening
  <2>3. r6' = r6 => r6' = [r6 EXCEPT ![p] = "forwarding"]
    BY <2>1, <1>c
  <2> QED  BY <1>b, <1>c, <2>1, <2>2, <2>3, NamesUntouched
<1>13. CASE Meddled!Meddle
  <2>1. /\ UNCHANGED <<r4, r6, r7, r9>> /\ (r2' = r2 \/ r2' = [r2 EXCEPT ![r1] = 0])
    BY <1>13 DEF Meddled!Meddle, Meddled!None
  <2>2. \A d \in {1, 2} : r2'[d] \in {r2[d], 0}
    BY <2>1, <1>c
  <2> QED  BY <1>a, <2>1, <2>2 DEF Meddled!NamesLeadBack, Meddled!Dirs, Meddled!None
<1> QED
  BY <1>1, <1>2, <1>4, <1>5, <1>6, <1>7, <1>8, <1>10, <1>11, <1>12, <1>13
     DEF Meddled!Next, Meddled!BindSteps

(* A process that nobody contends with finds no lock taken and no listener. *)
LEMMA AloneMeans ==
    ASSUME Meddled!StartKept, NEW p \in Procs, r6[p] \notin Meddled!Off, ~r11[p]
    PROVE  /\ r6[p] \notin Meddled!Holding => r3[r7[p]] = {}
           /\ \A i \in Meddled!Inodes : r4[i] \in {"none", p}
           /\ r6[p] \in {"probing", "comparing", "unlinking", "binding"}
                => \A i \in Meddled!Inodes : r4[i] = "none"
<1>1. /\ Meddled!TypeOK /\ Meddled!LockIsExclusive /\ Meddled!NamesLeadBack
      /\ \A q \in Procs \ {p} : r6[q] \in Meddled!Off
  BY DEF Meddled!StartKept, Meddled!EndpointOwned, Meddled!AloneRecovers
<1>2. r6[p] \notin Meddled!Holding => r3[r7[p]] = {}
  BY <1>1 DEF Meddled!TypeOK, Meddled!LockIsExclusive, Meddled!Holding, Meddled!Bound, Meddled!Listening,
              Meddled!Off
<1>3. \A i \in Meddled!Inodes : r4[i] \in {"none", p}
  BY <1>1 DEF Meddled!TypeOK, Meddled!NamesLeadBack, Meddled!Listening, Meddled!Off
<1>4. r6[p] \in {"probing", "comparing", "unlinking", "binding"}
                => \A i \in Meddled!Inodes : r4[i] = "none"
  BY <1>1, <1>3 DEF Meddled!NamesLeadBack, Meddled!Listening, Meddled!TypeOK
<1> QED  BY <1>2, <1>3, <1>4

(* What a process at work does concerns itself alone: if it is uncontended  *)
(* all the others are off, and otherwise nothing is asked of it.            *)
LEMMA AloneUntouched ==
    ASSUME Meddled!StartKept, NEW p \in Procs, NEW x, r6[p] \notin Meddled!Off,
           r6' = [r6 EXCEPT ![p] = x], r11' = r11, r15' = r15,
           x \notin Meddled!Off /\ ~r11[p] /\ r15 = {} =>
             /\ x \in {"probing", "comparing", "unlinking"} => r2'[r7'[p]] # 0 /\ r2'[r7'[p]] = r8'[p]
             /\ x = "binding" => r2'[r7'[p]] = 0
             /\ x \in Late => r9'[p] # 0
             /\ x \notin {"forwarding", "exchanging"}
    PROVE  Meddled!AloneRecovers'
<1>1. Meddled!TypeOK /\ Meddled!AloneRecovers
  BY DEF Meddled!StartKept, Meddled!EndpointOwned
<1>2. \A q \in Procs : r6'[q] = IF q = p THEN x ELSE r6[q]
  BY <1>1 DEF Meddled!TypeOK
<1>3. ASSUME NEW q \in Procs, r6'[q] \notin Meddled!Off, ~r11'[q]
      PROVE  q = p /\ \A o \in Procs \ {p} : r6'[o] \in Meddled!Off
  <2>1. q = p
    BY <1>1, <1>2, <1>3 DEF Meddled!AloneRecovers
  <2> QED  BY <2>1, <1>1, <1>2, <1>3 DEF Meddled!AloneRecovers
<1>4. Meddled!Off' = Meddled!Off /\ Meddled!None' = 0
  BY DEF Meddled!Off, Meddled!None
<1> QED
  BY <1>2, <1>3, <1>4 DEF Meddled!AloneRecovers, Meddled!Here, Meddled!None, Late

(* Whoever is alone stays so, and nobody else touches what it inspected.    *)
LEMMA AloneStep ==
    ASSUME Meddled!StartKept, Meddled!Next PROVE Meddled!AloneRecovers'
<1>a. /\ Meddled!TypeOK /\ Meddled!BoundOwnsName /\ Meddled!AloneRecovers
  BY DEF Meddled!StartKept, Meddled!EndpointOwned
<1>b. \A p \in Procs : r6[p] \notin Meddled!Off /\ ~r11[p]
         => /\ r6[p] \notin Meddled!Holding => r3[r7[p]] = {}
            /\ r6[p] \in {"probing", "comparing", "unlinking", "binding"}
                => \A i \in Meddled!Inodes : r4[i] = "none"
  BY AloneMeans
<1>c. /\ r2 \in [{1, 2} -> Meddled!Inodes \cup {0}] /\ r7 \in [Procs -> {1, 2}]
      /\ r8 \in [Procs -> Meddled!Inodes \cup {0}] /\ r6 \in [Procs -> Meddled!Steps]
      /\ r9 \in [Procs -> Meddled!Inodes \cup {0}]
  BY <1>a DEF Meddled!TypeOK, Meddled!Dirs, Meddled!None
<1>d. \A p \in Procs : r6[p] \notin Meddled!Off /\ ~r11[p] /\ r15 = {} =>
             /\ r6[p] \in {"probing", "comparing", "unlinking"} => r2[r7[p]] # 0 /\ r2[r7[p]] = r8[p]
             /\ r6[p] = "binding" => r2[r7[p]] = 0
             /\ r6[p] \in Late \cup Meddled!Bound => r9[p] # 0
             /\ r6[p] \notin {"forwarding", "exchanging"}
  BY <1>a DEF Meddled!AloneRecovers, Meddled!BoundOwnsName, Meddled!Here, Meddled!None, Late
<1>e. \A p \in Procs : r6[p] \in Late \cup Meddled!Bound \cup {"locking", "inspecting", "probing",
                "comparing", "unlinking", "binding", "forwarding", "exchanging"} => r6[p] \notin Meddled!Off
  BY DEF Late, Meddled!Bound, Meddled!Listening, Meddled!Off
<1> USE DEF Meddled!Goto, Meddled!Keep, Meddled!Unlinked, Meddled!fs, Meddled!counters, Meddled!Here, Meddled!None
<1>1. ASSUME NEW p \in Procs, Meddled!Prepare(p)
      PROVE  Meddled!AloneRecovers'
  <2>1. /\ r6' = [r6 EXCEPT ![p] = "locking"] /\ r6[p] \in Meddled!Off
        /\ r11' = [q \in Procs |-> IF q = p THEN \E r \in Procs \ {p} : r6[r] \notin Meddled!Off
                                     ELSE r11[q] \/ r6[q] \notin Meddled!Off]
    BY <1>1 DEF Meddled!Prepare
  <2>2. \A q \in Procs : r6'[q] = IF q = p THEN "locking" ELSE r6[q]
    BY <2>1, <1>c
  <2>3. ASSUME NEW q \in Procs, r6'[q] \notin Meddled!Off, ~r11'[q]
        PROVE  q = p /\ \A o \in Procs \ {p} : r6'[o] \in Meddled!Off
    BY <2>1, <2>2, <2>3
  <2>4. Meddled!Off' = Meddled!Off
    BY DEF Meddled!Off
  <2> QED  BY <2>2, <2>3, <2>4 DEF Meddled!AloneRecovers
<1>2. ASSUME NEW p \in Procs, Meddled!Acquire(p)
      PROVE  Meddled!AloneRecovers'
  <2>1. /\ r6[p] = "locking" /\ r11' = r11 /\ r15' = r15
        /\ \/ r6' = [r6 EXCEPT ![p] = "inspecting"]
           \/ r6' = [r6 EXCEPT ![p] = "forwarding"] /\ r3[r7[p]] # {}
    BY <1>2 DEF Meddled!Acquire
  <2>2. r6[p] \notin Meddled!Off /\ r6[p] \notin Meddled!Holding /\ "inspecting" \notin Late
    BY <2>1 DEF Meddled!Off, Meddled!Holding, Meddled!Bound, Meddled!Listening, Late
  <2>3. CASE r6' = [r6 EXCEPT ![p] = "inspecting"]
    BY <2>1, <2>2, <2>3, AloneUntouched
  <2>4. CASE r6' = [r6 EXCEPT ![p] = "forwarding"] /\ r3[r7[p]] # {}
    <3>1. ~(~r11[p])
      BY <1>b, <2>2, <2>4
    <3> QED  BY <2>1, <2>2, <2>4, <3>1, AloneUntouched
  <2> QED  BY <2>1, <2>3, <2>4
<1>3. ASSUME NEW p \in Procs, Meddled!Inspect(p)
      PROVE  Meddled!AloneRecovers'
  <2>1. /\ r6[p] = "inspecting" /\ UNCHANGED <<r2, r7, r9, r11, r15>>
        /\ r8' = [r8 EXCEPT ![p] = r2[r7[p]]]
        /\ r6' = [r6 EXCEPT ![p] = IF r2[r7[p]] = 0 THEN "binding" ELSE "probing"]
    BY <1>3 DEF Meddled!Inspect
  <2>2. r8'[p] = r2[r7[p]] /\ r6[p] \notin Meddled!Off /\ {"binding", "probing"} \cap Late = {}
    BY <2>1, <1>c, <1>e DEF Late
  <2> QED  BY <2>1, <2>2, AloneUntouched
<1>4. ASSUME NEW p \in Procs, Meddled!Probe(p)
      PROVE  Meddled!AloneRecovers'
  <2>1. /\ r6[p] = "probing" /\ UNCHANGED <<r2, r7, r8, r9, r11, r15>>
        /\ \/ r2[r7[p]] = 0 /\ r6' = [r6 EXCEPT ![p] = "binding"]
           \/ r2[r7[p]] # 0 /\ r4[r2[r7[p]]] # "none" /\ r6' = [r6 EXCEPT ![p] = "forwarding"]
           \/ r6' = [r6 EXCEPT ![p] = "comparing"]
    BY <1>4 DEF Meddled!Probe
  <2>2. r6[p] \notin Meddled!Off /\ {"binding", "forwarding", "comparing"} \cap Late = {}
    BY <2>1, <1>e DEF Late
  <2>3. r2[r7[p]] # 0 /\ r4[r2[r7[p]]] # "none" => ~(~r11[p])
    BY <1>b, <1>c, <2>1, <2>2
  <2> QED  BY <1>d, <2>1, <2>2, <2>3, AloneUntouched
<1>5. ASSUME NEW p \in Procs, Meddled!Compare(p)
      PROVE  Meddled!AloneRecovers'
  <2>1. /\ r6[p] = "comparing" /\ UNCHANGED <<r2, r7, r8, r9, r11, r15>>
        /\ r6' = [r6 EXCEPT ![p] = IF r2[r7[p]] = r8[p] THEN "unlinking" ELSE "releasing"]
    BY <1>5 DEF Meddled!Compare
  <2>2. r6[p] \notin Meddled!Off /\ "unlinking" \notin Late
    BY <2>1, <1>e DEF Late
  <2> QED  BY <1>d, <2>1, <2>2, AloneUntouched
<1>6. ASSUME NEW p \in Procs, Meddled!UnlinkStale(p)
      PROVE  Meddled!AloneRecovers'
  <2>1. /\ r6[p] = "unlinking" /\ UNCHANGED <<r7, r8, r9, r11, r15>> /\ r2' = [r2 EXCEPT ![r7[p]] = 0]
        /\ r6' = [r6 EXCEPT ![p] = IF r2[r7[p]] = 0 THEN "releasing" ELSE "binding"]
    BY <1>6 DEF Meddled!UnlinkStale
  <2>2. r6[p] \notin Meddled!Off /\ "binding" \notin Late /\ r2'[r7'[p]] = 0
    BY <2>1, <1>c, <1>e DEF Late
  <2> QED  BY <1>d, <2>1, <2>2, AloneUntouched
<1>7. ASSUME NEW p \in Procs, Meddled!Bind(p)
      PROVE  Meddled!AloneRecovers'
  <2>1. /\ r6[p] = "binding" /\ UNCHANGED <<r7, r8, r11, r15>>
        /\ \/ r2[r7[p]] # 0 /\ r6' = [r6 EXCEPT ![p] = "releasing"]
           \/ r6' = [r6 EXCEPT ![p] = "listening"]
    BY <1>7 DEF Meddled!Bind
  <2>2. r6[p] \notin Meddled!Off /\ "listening" \notin Late
    BY <2>1, <1>e DEF Late
  <2> QED  BY <1>d, <2>1, <2>2, AloneUntouched
<1>8. ASSUME NEW p \in Procs,
             \/ Meddled!Listen(p) \/ Meddled!Capture(p) \/ Meddled!Secure(p) \/ (Meddled!Verify(p) \/ Meddled!VerifyPath(p))
             \/ Meddled!Shutdown(p) \/ Meddled!Drop(p) \/ Meddled!Remove(p)
      PROVE  Meddled!AloneRecovers'
  <2>1. /\ r6[p] \in {"listening", "capturing", "securing", "verifying", "placing", "serving", "dropping", "removing"}
        /\ UNCHANGED <<r7, r9, r11, r15>>
        /\ \E x \in {"capturing", "securing", "verifying", "placing", "serving", "dropping", "removing", "releasing"} :
              r6' = [r6 EXCEPT ![p] = x]
    BY <1>8 DEF Meddled!Listen, Meddled!Capture, Meddled!Secure, Meddled!Verify, Meddled!VerifyPath, Meddled!Shutdown,
                Meddled!Drop, Meddled!Remove
  <2>2. r6[p] \in Late \cup Meddled!Bound /\ r6[p] \notin Meddled!Off
    BY <2>1, <1>e DEF Late, Meddled!Bound, Meddled!Listening
  <2> QED  BY <1>d, <2>1, <2>2, AloneUntouched
<1>9. ASSUME NEW p \in Procs, Meddled!Release(p) \/ Meddled!Crash(p) \/ Meddled!Exchange(p)
      PROVE  Meddled!AloneRecovers'
  <2>1. /\ r6[p] \notin Meddled!Off /\ UNCHANGED <<r11, r15>>
        /\ \E x \in {"failed", "off", "forwarded"} : r6' = [r6 EXCEPT ![p] = x]
    BY <1>9, <1>e DEF Meddled!Release, Meddled!Crash, Meddled!Exchange, Late
  <2>2. {"failed", "off", "forwarded"} = Meddled!Off
    BY DEF Meddled!Off
  <2> QED  BY <2>1, <2>2, AloneUntouched
<1>10. ASSUME NEW p \in Procs, Meddled!Forward(p)
      PROVE  Meddled!AloneRecovers'
  <2>1. /\ r6[p] = "forwarding" /\ UNCHANGED <<r2, r7, r9, r11, r15>>
        /\ r6' = r6 \/ \E x \in {"exchanging", "failed"} : r6' = [r6 EXCEPT ![p] = x]
    BY <1>10 DEF Meddled!Forward
  <2>2. /\ r6[p] \notin Meddled!Off /\ "failed" \in Meddled!Off
        /\ r6' = r6 => r6' = [r6 EXCEPT ![p] = "forwarding"]
    BY <2>1, <1>c DEF Meddled!Off
  <2> QED  BY <1>d, <2>1, <2>2, AloneUntouched
<1>11. CASE Meddled!Meddle
  <2>1. r15' # {} /\ UNCHANGED <<r6, r11>>
    BY <1>11 DEF Meddled!Meddle
  <2> QED  BY <1>a, <2>1 DEF Meddled!AloneRecovers, Meddled!Off
<1> QED
  BY <1>1, <1>2, <1>3, <1>4, <1>5, <1>6, <1>7, <1>8, <1>9, <1>10, <1>11
     DEF Meddled!Next, Meddled!BindSteps

(* So every step keeps what the starts rely on.                             *)
LEMMA StartStep == Meddled!StartKept /\ Meddled!Next => Meddled!StartKept'
BY OwnershipStep, NamesStep, AloneStep DEF Meddled!StartKept

(* Who unlinks a name holds the lock of its directory, and so is the binder *)
(* of what the name leads to, if that one is still at work.                 *)
LEMMA LiveSocketStep ==
    ASSUME Meddled!StartKept, Meddled!Next PROVE Meddled!LiveSocketKept
<1>a. /\ Meddled!TypeOK /\ Meddled!LockIsExclusive /\ Meddled!NamesLeadBack
  BY DEF Meddled!StartKept, Meddled!EndpointOwned
<1> SUFFICES ASSUME NEW d \in {1, 2}, NEW p \in Procs, r2[d] # 0, r2'[d] = 0, r9[p] = r2[d],
                    r6[p] \notin Meddled!Off \cup Late, r15' = r15
             PROVE  r6[p] = "capturing" /\ r6'[p] = "releasing"
  BY DEF Meddled!LiveSocketKept, Meddled!Dirs, Meddled!None, Late
<1>1. r7[p] = d /\ r6[p] \in Meddled!Bound
  BY <1>a DEF Meddled!NamesLeadBack, Meddled!TypeOK, Meddled!None, Late, Meddled!Dirs
<1>2. PICK q \in Procs : /\ Meddled!UnlinkStale(q) \/ Meddled!Capture(q) \/ Meddled!Remove(q)
                         /\ r7[q] = d
  <2>1. ~Meddled!Meddle
    BY <1>a DEF Meddled!Meddle, Meddled!Tampering
  <2>2. PICK q \in Procs : Meddled!Prepare(q) \/ Meddled!BindSteps(q) \/ Meddled!Shutdown(q) \/ Meddled!Crash(q)
    BY <2>1 DEF Meddled!Next
  <2>3. r2' # r2
    OBVIOUS
  <2>4. \/ Meddled!UnlinkStale(q) \/ Meddled!Capture(q) \/ Meddled!Remove(q) \/ Meddled!Bind(q)
    BY <2>2, <2>3 DEF Meddled!Prepare, Meddled!Shutdown, Meddled!Crash, Meddled!BindSteps, Meddled!fs,
       Meddled!Acquire, Meddled!Inspect, Meddled!Probe, Meddled!Compare, Meddled!Listen, Meddled!Secure,
       Meddled!Verify, Meddled!VerifyPath, Meddled!Drop, Meddled!Release, Meddled!Forward, Meddled!Exchange
  <2>5. /\ r2 \in [{1, 2} -> Meddled!Inodes \cup {0}] /\ r7 \in [Procs -> {1, 2}] /\ r12 \in Nat
    BY DEF Meddled!StartKept, Meddled!EndpointOwned, Meddled!TypeOK, Meddled!Dirs, Meddled!None,
           Meddled!InodesAreFresh
  <2>6. ~Meddled!Bind(q)
    <3> SUFFICES ASSUME Meddled!Bind(q) PROVE FALSE
      OBVIOUS
    <3>1. r2' = [r2 EXCEPT ![r7[q]] = r12 + 1]
      BY <2>3 DEF Meddled!Bind
    <3> QED  BY <3>1, <2>5
  <2>7. r2' = [r2 EXCEPT ![r7[q]] = 0]
    BY <2>3, <2>4, <2>6 DEF Meddled!UnlinkStale, Meddled!Capture, Meddled!Remove, Meddled!Unlinked, Meddled!None
  <2> QED  BY <2>4, <2>5, <2>6, <2>7
<1>3. r6[q] \in {"unlinking", "capturing", "removing"}
  BY <1>2 DEF Meddled!UnlinkStale, Meddled!Capture, Meddled!Remove
<1>4. q = p
  <2>1. Meddled!EndpointOwned /\ r6[p] \in Meddled!Holding /\ r6[q] \in Meddled!Holding
    BY <1>1, <1>3 DEF Meddled!StartKept, Meddled!Holding, Meddled!Bound, Meddled!Listening
  <2> QED  BY <1>1, <1>2, <2>1, HoldersApart
<1>5. r6[p] = "capturing" /\ Meddled!Capture(p)
  BY <1>1, <1>2, <1>3, <1>4 DEF Meddled!Bound, Meddled!Listening, Meddled!UnlinkStale, Meddled!Remove
<1>6. r6' = [r6 EXCEPT ![p] = "releasing"]
  BY <1>5 DEF Meddled!Capture, Meddled!Goto
<1> QED  BY <1>5, <1>6, <1>a DEF Meddled!TypeOK

(* A daemon verifies the path before it serves, and a start that is alone   *)
(* gives up only what it has bound.                                         *)
LEMMA ServesAndRecovers ==
    ASSUME Meddled!StartKept, Meddled!Next PROVE Meddled!ServesAtPublicPath /\ Meddled!LoneStartRecovers
<1>a. /\ Meddled!TypeOK /\ Meddled!BoundOwnsName /\ Meddled!AloneRecovers
  BY DEF Meddled!StartKept, Meddled!EndpointOwned
<1>b. r6 \in [Procs -> Meddled!Steps]
  BY <1>a DEF Meddled!TypeOK
<1>1. ASSUME NEW p \in Procs, r6[p] # r6'[p], r6'[p] \in {"serving", "failed"}
      PROVE  \/ Meddled!VerifyPath(p) /\ r6'[p] = "serving"
             \/ (Meddled!Release(p) \/ Meddled!Forward(p) \/ Meddled!Exchange(p)) /\ r6'[p] = "failed"
  <2>1. ASSUME NEW q \in Procs,
               \/ Meddled!Prepare(q) \/ Meddled!Acquire(q) \/ Meddled!Inspect(q) \/ Meddled!Probe(q)
               \/ Meddled!Compare(q) \/ Meddled!UnlinkStale(q) \/ Meddled!Bind(q) \/ Meddled!Listen(q)
               \/ Meddled!Capture(q) \/ Meddled!Secure(q) \/ Meddled!Verify(q) \/ Meddled!Shutdown(q)
               \/ Meddled!Drop(q) \/ Meddled!Remove(q) \/ Meddled!Crash(q)
        PROVE  FALSE
    <3>1. \E x \in {"locking", "inspecting", "forwarding", "binding", "probing", "comparing", "unlinking",
                     "releasing", "listening", "capturing", "securing", "verifying", "placing", "dropping",
                     "removing", "off"} : r6' = [r6 EXCEPT ![q] = x]
      BY <2>1 DEF Meddled!Goto, Meddled!Prepare, Meddled!Acquire, Meddled!Inspect, Meddled!Probe,
         Meddled!Compare, Meddled!UnlinkStale, Meddled!Bind, Meddled!Listen, Meddled!Capture, Meddled!Secure,
         Meddled!Verify, Meddled!Shutdown, Meddled!Drop, Meddled!Remove, Meddled!Crash
    <3> QED  BY <3>1, <1>1, <1>b
  <2>2. ASSUME NEW q \in Procs,
               Meddled!VerifyPath(q) \/ Meddled!Release(q) \/ Meddled!Forward(q) \/ Meddled!Exchange(q)
        PROVE  /\ q = p /\ (r6'[p] = "serving" => Meddled!VerifyPath(q))
               /\ r6'[p] = "failed" => ~Meddled!VerifyPath(q)
    <3>1. /\ Meddled!VerifyPath(q) => \E x \in {"serving", "dropping"} : r6' = [r6 EXCEPT ![q] = x]
          /\ ~Meddled!VerifyPath(q) =>
                r6' = r6 \/ \E x \in {"failed", "exchanging", "forwarded"} : r6' = [r6 EXCEPT ![q] = x]
      BY <2>2 DEF Meddled!Goto, Meddled!VerifyPath, Meddled!Release, Meddled!Forward, Meddled!Exchange
    <3> QED  BY <3>1, <1>1, <1>b
  <2>3. ~Meddled!Meddle
    BY <1>1 DEF Meddled!Meddle
  <2> QED  BY <1>1, <2>1, <2>2, <2>3 DEF Meddled!Next, Meddled!BindSteps
<1>2. ASSUME NEW p \in Procs, r6[p] # "serving", r6'[p] = "serving"
      PROVE  r7[p] = r1 /\ (r2[r1] = r9[p] \/ (r2[r1] = 0 /\ "socket" \in r15 /\ r6[p] = "placing"))
  <2>1. Meddled!VerifyPath(p)
    BY <1>1, <1>2
  <2>2. r6[p] = "placing" /\ r7[p] = r1
    BY <1>2, <1>b, <2>1 DEF Meddled!VerifyPath, Meddled!Goto
  <2> QED  BY <2>2, <1>a DEF Meddled!BoundOwnsName, Meddled!Bound, Meddled!Listening, Meddled!Here, Meddled!None
<1>3. ASSUME NEW p \in Procs, r6[p] # "failed", r6'[p] = "failed", ~r11[p], r9[p] = 0
      PROVE  r15 # {}
  <2>1. r6[p] \in {"releasing", "forwarding", "exchanging"}
    BY <1>1, <1>3 DEF Meddled!Release, Meddled!Forward, Meddled!Exchange
  <2> QED  BY <2>1, <1>a, <1>3 DEF Meddled!AloneRecovers, Meddled!Off, Meddled!None
<1> QED  BY <1>2, <1>3 DEF Meddled!ServesAtPublicPath, Meddled!LoneStartRecovers, Meddled!None

(****************************************************************************)
(* The processes the providers run: a command, a JSON-RPC child.            *)
(****************************************************************************)
(* A program that was just started has ended nothing.                       *)
LEMMA CommandStarts == Command!Init => Command!OutputsEnd
BY ServicesAssumption
   DEF Command!SubprocessAssumption, Command!Init, Command!OutputsEnd, Command!Streams,
       Command!NoOrphans

(* Every step of a program keeps what has ended as it ended.                *)
LEMMA CommandStep == Command!OutputsEnd /\ Command!Next => Command!OutputsEnd'
<1> SUFFICES ASSUME Command!OutputsEnd, Command!Next PROVE Command!OutputsEnd'
  OBVIOUS
<1>0. MaxOutput \in Nat /\ MaxWritten \in Nat
  BY ServicesAssumption DEF Command!SubprocessAssumption
<1> USE <1>0 DEF Command!OutputsEnd, Command!Streams, Command!NoOrphans, Command!program,
                 Command!Terminate, Command!Awaiting
<1>1. CASE Command!WriteOut
  BY <1>1 DEF Command!WriteOut
<1>2. CASE Command!Fork
  BY <1>2 DEF Command!Fork
<1>3. CASE Command!Exit
  BY <1>3 DEF Command!Exit
<1>4. CASE Command!Cancel \/ Command!Tick
  <2>1. UNCHANGED <<r1, r2, r3, r4, r5, r8, r9, r10>>
    BY <1>4 DEF Command!Cancel, Command!Tick
  <2> QED
    BY <2>1
<1>11. CASE Command!Interrupted
  BY <1>11 DEF Command!Interrupted
<1>5. CASE Command!Read
  BY <1>5 DEF Command!Read
<1>6. CASE Command!ReadEnd
  BY <1>6 DEF Command!ReadEnd
<1>7. CASE Command!Wait
  BY <1>7 DEF Command!Wait
<1>8. CASE Command!Finish
  BY <1>8 DEF Command!Finish
<1>9. CASE Command!TerminateGroup
  BY <1>9 DEF Command!TerminateGroup
<1>10. CASE Command!Drop
  BY <1>10 DEF Command!Drop
<1> QED
  BY <1>1, <1>2, <1>3, <1>4, <1>5, <1>6, <1>7, <1>8, <1>9, <1>10, <1>11
     DEF Command!Next, Command!Run

(* A fresh child is in hand.                                                *)
LEMMA ChildStarts == Rpc!Init => Rpc!ChildInHand
<1> SUFFICES ASSUME Rpc!Init PROVE Rpc!ChildInHand
  OBVIOUS
<1>1. Rpc!TypeOK
  BY ServicesAssumption DEF Rpc!JsonRpcAssumption, Rpc!Init, Rpc!TypeOK
<1>2. Rpc!GroupInHand /\ Rpc!ResultsAreAnswers /\ Rpc!AnswersItsRequest
  BY DEF Rpc!Init, Rpc!GroupInHand, Rpc!ResultsAreAnswers, Rpc!AnswersItsRequest
<1> QED
  BY <1>1, <1>2 DEF Rpc!ChildInHand

(* Every step of the child keeps its state in shape.                        *)
LEMMA ChildTypeStep == ASSUME Rpc!TypeOK, Rpc!Next PROVE Rpc!TypeOK'
<1>0. {MaxRequests, MaxSkipped, MaxPipe, MaxStderr} \subseteq Nat \ {0}
  BY ServicesAssumption DEF Rpc!JsonRpcAssumption
<1> USE <1>0 DEF Rpc!TypeOK, Rpc!client, Rpc!child, Rpc!Fail, Rpc!Return
<1>1. CASE Rpc!Emit
  BY <1>1 DEF Rpc!Emit
<1>2. CASE Rpc!Fork \/ Rpc!Exit \/ Rpc!Cancel \/ Rpc!Elapse
  BY <1>2 DEF Rpc!Fork, Rpc!Exit, Rpc!Cancel, Rpc!Elapse
<1>3. CASE Rpc!Drain
  BY <1>3 DEF Rpc!Drain
<1>4. CASE Rpc!Request \/ Rpc!Notify \/ Rpc!Shutdown
  BY <1>4 DEF Rpc!Request, Rpc!Notify, Rpc!Shutdown
<1>5. CASE Rpc!Write
  BY <1>5 DEF Rpc!Write
<1>6. CASE Rpc!ReadFails
  BY <1>6 DEF Rpc!ReadFails
<1>7. CASE Rpc!ReadLine
  <2>1. r9' \in Seq(Rpc!Frames)
    BY <1>7 DEF Rpc!ReadLine
  <2>2. /\ r1' \in {"reading", "stopping", "idle"}
        /\ r4' \in 0..MaxSkipped
    BY <1>7 DEF Rpc!ReadLine, Rpc!Skip
  <2> QED
    BY <1>7, <2>1, <2>2 DEF Rpc!ReadLine
<1>8. CASE Rpc!Stop \/ Rpc!Drop
  <2>1. r9' = << >> /\ r1' \in {"grace", "dropped"} /\ UNCHANGED <<r2, r3, r4, r12>>
    BY <1>8 DEF Rpc!Stop, Rpc!Drop
  <2>2. r10' \in {"running", "exited", "reaped"}
    BY <1>8 DEF Rpc!Stop, Rpc!Drop
  <2>3. r13' \in {"running", "failed", "aborted"}
    BY <1>8 DEF Rpc!Stop, Rpc!Drop
  <2> QED
    BY <2>1, <2>2, <2>3
<1>9. CASE Rpc!Kill \/ Rpc!Reap
  BY <1>9 DEF Rpc!Kill, Rpc!Reap
<1> QED
  BY <1>1, <1>2, <1>3, <1>4, <1>5, <1>6, <1>7, <1>8, <1>9 DEF Rpc!Next, Rpc!Client

(* Whatever ends an operation ends the group before the child is let go of. *)
LEMMA ChildGroupStep ==
    ASSUME Rpc!TypeOK, Rpc!GroupInHand, Rpc!Next PROVE Rpc!GroupInHand'
<1> USE DEF Rpc!TypeOK, Rpc!GroupInHand, Rpc!client, Rpc!child, Rpc!Fail
<1>1. CASE Rpc!Emit \/ Rpc!Fork \/ Rpc!Exit \/ Rpc!Cancel \/ Rpc!Elapse \/ Rpc!Drain
  BY <1>1 DEF Rpc!Emit, Rpc!Fork, Rpc!Exit, Rpc!Cancel, Rpc!Elapse, Rpc!Drain
<1>2. CASE Rpc!Request \/ Rpc!Notify \/ Rpc!Shutdown
  BY <1>2 DEF Rpc!Request, Rpc!Notify, Rpc!Shutdown
<1>3. CASE Rpc!Write \/ Rpc!ReadFails
  BY <1>3 DEF Rpc!Write, Rpc!ReadFails
<1>4. CASE Rpc!ReadLine
  <2>1. /\ r1 = "reading" /\ r1' \in {"reading", "stopping", "idle"}
        /\ r7' = r7 /\ r10' = r10 /\ r11' = r11
    BY <1>4 DEF Rpc!ReadLine, Rpc!Skip
  <2> QED
    BY <2>1
<1>5. CASE Rpc!Stop \/ Rpc!Kill \/ Rpc!Reap \/ Rpc!Drop
  BY <1>5 DEF Rpc!Stop, Rpc!Kill, Rpc!Reap, Rpc!Drop
<1> QED
  BY <1>1, <1>2, <1>3, <1>4, <1>5 DEF Rpc!Next, Rpc!Client

(* A result is taken from the pipe only by the request whose id it names.   *)
LEMMA ChildAnswerStep ==
    ASSUME Rpc!TypeOK, Rpc!ResultsAreAnswers, Rpc!AnswersItsRequest, Rpc!Next
    PROVE  Rpc!ResultsAreAnswers' /\ Rpc!AnswersItsRequest'
<1> USE DEF Rpc!TypeOK, Rpc!ResultsAreAnswers, Rpc!AnswersItsRequest, Rpc!client, Rpc!child,
            Rpc!Fail, Rpc!Return
<1>1. CASE Rpc!Emit
  BY <1>1 DEF Rpc!Emit
<1>2. CASE Rpc!Fork \/ Rpc!Exit \/ Rpc!Cancel \/ Rpc!Elapse \/ Rpc!Drain \/ Rpc!Kill
  BY <1>2 DEF Rpc!Fork, Rpc!Exit, Rpc!Cancel, Rpc!Elapse, Rpc!Drain, Rpc!Kill
<1>3. CASE Rpc!Request \/ Rpc!Notify \/ Rpc!Shutdown
  BY <1>3 DEF Rpc!Request, Rpc!Notify, Rpc!Shutdown
<1>4. CASE Rpc!Write
  BY <1>4 DEF Rpc!Write, Rpc!Interruption
<1>5. CASE Rpc!ReadFails
  BY <1>5 DEF Rpc!ReadFails, Rpc!Interruption
<1>6. CASE Rpc!ReadLine
  <2>1. Rpc!ResultsAreAnswers'
    <3>1. r9 # << >> /\ r9' = Tail(r9) /\ UNCHANGED <<r2, r14>> /\ r1 = "reading"
      BY <1>6 DEF Rpc!ReadLine
    <3> QED
      BY <3>1
  <2>2. r9[1] = Head(r9) /\ 1 \in 1..Len(r9) /\ r2 = "request"
    BY <1>6 DEF Rpc!ReadLine
  <2>3. CASE r8' = r8
    BY <1>6, <2>1, <2>3 DEF Rpc!ReadLine
  <2>4. CASE Rpc!Return("Protocol", 0)
    BY <2>1, <2>4
  <2>5. CASE /\ Rpc!Matches(Head(r9)) /\ Head(r9).kind # "undecodable"
             /\ Rpc!Return(IF Head(r9).kind = "result" THEN "Ok" ELSE "Remote", Head(r9).id)
    BY <1>6, <2>1, <2>2, <2>5 DEF Rpc!ReadLine, Rpc!Matches
  <2> QED
    BY <1>6, <2>3, <2>4, <2>5 DEF Rpc!ReadLine, Rpc!Skip
<1>7. CASE Rpc!Stop \/ Rpc!Drop
  BY <1>7 DEF Rpc!Stop, Rpc!Drop
<1>8. CASE Rpc!Reap
  BY <1>8 DEF Rpc!Reap
<1> QED
  BY <1>1, <1>2, <1>3, <1>4, <1>5, <1>6, <1>7, <1>8 DEF Rpc!Next, Rpc!Client

(* So every step keeps the child in hand.                                   *)
LEMMA ChildStep == Rpc!ChildInHand /\ Rpc!Next => Rpc!ChildInHand'
BY ChildTypeStep, ChildGroupStep, ChildAnswerStep DEF Rpc!ChildInHand

(* A child whose operation failed is about to be stopped, or has been.      *)
LEMMA FinalStarts == Rpc!Init => Rpc!FailureIsFinal
BY DEF Rpc!Init, Rpc!FailureIsFinal

(* No step speaks to a child that failed, or reports its failing drain as   *)
(* anything else.                                                           *)
LEMMA FinalStep ==
    ASSUME Rpc!ChildInHand, Rpc!FailureIsFinal, Rpc!Next
    PROVE  /\ Rpc!FailureIsFinal'
           /\ Rpc!NothingAfterFailure
           /\ Rpc!DrainFailureReported
<1> USE DEF Rpc!FailureIsFinal, Rpc!NothingAfterFailure, Rpc!DrainFailureReported
<1>0. /\ r1 \in {"reading", "stopping"} => r7
      /\ r1 \in {"grace", "reaping", "dropped"} => ~r7
      /\ r1 = "reading" => r2 = "request"
  BY DEF Rpc!ChildInHand, Rpc!GroupInHand, Rpc!ResultsAreAnswers
<1>1. CASE Rpc!Emit \/ Rpc!Fork \/ Rpc!Exit \/ Rpc!Cancel \/ Rpc!Elapse \/ Rpc!Drain
  BY <1>1 DEF Rpc!Emit, Rpc!Fork, Rpc!Exit, Rpc!Cancel, Rpc!Elapse, Rpc!Drain, Rpc!client
<1>2. CASE Rpc!Request \/ Rpc!Notify \/ Rpc!Shutdown
  BY <1>2, <1>0 DEF Rpc!Request, Rpc!Notify, Rpc!Shutdown
<1>4. CASE Rpc!Write
  BY <1>4, <1>0 DEF Rpc!Write, Rpc!Fail, Rpc!Return, Rpc!Interruption
<1>5. CASE Rpc!ReadFails
  BY <1>5, <1>0 DEF Rpc!ReadFails, Rpc!Fail, Rpc!Return, Rpc!Interruption
<1>6. CASE Rpc!ReadLine
  BY <1>6, <1>0 DEF Rpc!ReadLine, Rpc!Skip, Rpc!Fail, Rpc!Return, Rpc!Interruption
<1>7. CASE Rpc!Stop \/ Rpc!Kill
  BY <1>7, <1>0 DEF Rpc!Stop, Rpc!Kill
<1>8. CASE Rpc!Reap
  BY <1>8, <1>0 DEF Rpc!Reap, Rpc!Return
<1>9. CASE Rpc!Drop
  BY <1>9 DEF Rpc!Drop
<1> QED
  BY <1>1, <1>2, <1>4, <1>5, <1>6, <1>7, <1>8, <1>9 DEF Rpc!Next, Rpc!Client

(****************************************************************************)
(* The supervision of the Kiro commands.                                    *)
(****************************************************************************)
(* The reaper counts as this module does.                                   *)
LEMMA SameCardinality ==
    \A S : /\ Reaper!IsFiniteSet(S) <=> IsFiniteSet(S)
          /\ Reaper!Cardinality(S) = Cardinality(S)
<1>1. \A S : Reaper!IsFiniteSet(S) <=> IsFiniteSet(S)
  BY DEF Reaper!IsFiniteSet, IsFiniteSet
<1>2. \A S : Reaper!Cardinality(S) = Cardinality(S)
  BY DEF Reaper!Cardinality, Cardinality
<1> QED
  BY <1>1, <1>2

(* The reaper's jobs are finitely many.                                     *)
LEMMA ReaperParameters == IsFiniteSet(Jobs) /\ MaxSlots \in Nat
BY ServicesAssumption, SameCardinality DEF Reaper!ReaperAssumption

(* So are the jobs it holds and those it has queued.                        *)
LEMMA HeldIsFinite ==
    /\ IsFiniteSet(Reaper!Held) /\ Cardinality(Reaper!Held) \in Nat
    /\ IsFiniteSet(Reaper!Queued) /\ Cardinality(Reaper!Queued) \in Nat
<1>1. Reaper!Held \subseteq Jobs /\ Reaper!Queued \subseteq Jobs
  BY DEF Reaper!Held, Reaper!Queued
<1> QED
  BY <1>1, ReaperParameters, FS_Subset, FS_CardinalityType

(* The counts of the invariant, as cardinalities.                           *)
LEMMA CountsAreCardinalities ==
    /\ Reaper!SlotsCountGuards <=> /\ r10 = Cardinality(Reaper!Held)
                                   /\ r10 <= MaxSlots /\ Len(r11) <= MaxSlots
    /\ Reaper!QueueIsGuards <=>
         /\ \A k \in 1..Len(r11) : r7[r11[k]] = "queued"
         /\ \A k, m \in 1..Len(r11) : r11[k] = r11[m] => k = m
         /\ Len(r11) = Cardinality(Reaper!Queued)
<1>1. /\ Reaper!Cardinality(Reaper!Held) = Cardinality(Reaper!Held)
      /\ Reaper!Cardinality(Reaper!Queued) = Cardinality(Reaper!Queued)
  BY SameCardinality
<1>2. Reaper!SlotsCountGuards <=> /\ r10 = Cardinality(Reaper!Held)
                                  /\ r10 <= MaxSlots /\ Len(r11) <= MaxSlots
  BY <1>1 DEF Reaper!SlotsCountGuards, Reaper!Held
<1>3. Reaper!QueueIsGuards <=>
         /\ \A k \in 1..Len(r11) : r7[r11[k]] = "queued"
         /\ \A k, m \in 1..Len(r11) : r11[k] = r11[m] => k = m
         /\ Len(r11) = Cardinality(Reaper!Queued)
  BY <1>1 DEF Reaper!QueueIsGuards
<1> QED
  BY <1>2, <1>3

(* At first there is nothing to supervise.                                  *)
LEMMA ReaperStarts == Reaper!Init => Reaper!Supervised
<1> SUFFICES ASSUME Reaper!Init PROVE Reaper!Supervised
  OBVIOUS
<1>1. Reaper!Held = {} /\ Reaper!Queued = {}
  BY DEF Reaper!Init, Reaper!Held, Reaper!Queued, Reaper!Armed
<1>2. Reaper!SlotsCountGuards /\ Reaper!QueueIsGuards
  BY <1>1, ReaperParameters, FS_EmptySet, CountsAreCardinalities DEF Reaper!Init
<1>3. Reaper!TypeOK /\ Reaper!ScansAreFinal /\ Reaper!CleanMeansGone /\ Reaper!NothingLost
  BY DEF Reaper!Init, Reaper!TypeOK, Reaper!ScansAreFinal, Reaper!CleanMeansGone, Reaper!NothingLost
<1> QED
  BY <1>2, <1>3 DEF Reaper!Supervised

(* A caller that still has its guard has left room for it in the channel.   *)
LEMMA ChannelHasRoom ==
    ASSUME Reaper!Supervised, NEW j \in Jobs, r7[j] = "caller"
    PROVE  Len(r11) < MaxSlots
<1>1. /\ j \in Reaper!Held /\ Reaper!Queued \subseteq Reaper!Held \ {j}
  BY DEF Reaper!Held, Reaper!Queued, Reaper!Armed
<1>2. /\ IsFiniteSet(Reaper!Held \ {j})
      /\ Cardinality(Reaper!Held \ {j}) = Cardinality(Reaper!Held) - 1
  BY <1>1, HeldIsFinite, FS_RemoveElement
<1>3. Cardinality(Reaper!Queued) <= Cardinality(Reaper!Held) - 1
  BY <1>1, <1>2, FS_Subset
<1>4. /\ Cardinality(Reaper!Held) <= MaxSlots /\ Len(r11) = Cardinality(Reaper!Queued)
  BY CountsAreCardinalities DEF Reaper!Supervised
<1> QED
  BY <1>3, <1>4, HeldIsFinite, ReaperParameters

(* An armed guard has its slot.                                             *)
LEMMA ArmedHasSlot ==
    ASSUME Reaper!Supervised, NEW j \in Jobs, Reaper!Armed(j)
    PROVE  /\ j \in Reaper!Held /\ r10 - 1 \in Nat
           /\ Cardinality(Reaper!Held \ {j}) = r10 - 1
<1>1. j \in Reaper!Held
  BY DEF Reaper!Held
<1>2. r10 = Cardinality(Reaper!Held)
  BY CountsAreCardinalities DEF Reaper!Supervised
<1>3. /\ IsFiniteSet(Reaper!Held \ {j})
      /\ Cardinality(Reaper!Held \ {j}) = Cardinality(Reaper!Held) - 1
  BY <1>1, HeldIsFinite, FS_RemoveElement
<1>4. Cardinality(Reaper!Held \ {j}) \in Nat
  BY <1>3, FS_CardinalityType
<1> QED
  BY <1>1, <1>2, <1>3, <1>4

(* A census adds members of a living group, and forgets nothing.            *)
LEMMA CensusFacts ==
    ASSUME Reaper!TypeOK, NEW j \in Jobs, NEW c \in BOOLEAN, NEW d \in BOOLEAN, Reaper!Census(j, c, d)
    PROVE  /\ r5' \in [Jobs -> BOOLEAN] /\ r6' \in [Jobs -> BOOLEAN]
           /\ \A k \in Jobs : r5'[k] => r5[k] \/ (k = j /\ r1[k] = "alive")
           /\ \A k \in Jobs : r6[k] => r6'[k]
           /\ ~r13[j] => r6'[j]
<1>0. /\ r5 \in [Jobs -> BOOLEAN] /\ r6 \in [Jobs -> BOOLEAN] /\ r13 \in [Jobs -> BOOLEAN]
      /\ Reaper!Member(j) \in BOOLEAN /\ Reaper!Member(j) => r1[j] = "alive"
  BY DEF Reaper!TypeOK, Reaper!Member
<1>1. PICK f \in BOOLEAN : r5' = [r5 EXCEPT ![j] = @ \/ (Reaper!Member(j) /\ (c \/ f))]
  BY DEF Reaper!Census
<1>2. r6' = [r6 EXCEPT ![j] = @ \/ ~r13[j] \/ (r1[j] = "alive" /\ d /\ ~c)]
  BY DEF Reaper!Census
<1> QED  BY <1>0, <1>1, <1>2

(* SIGKILL ends what lived, and only that.                                  *)
LEMMA StrikeFacts ==
    ASSUME Reaper!TypeOK, NEW j \in Jobs, Reaper!Strike(j)
    PROVE  /\ r1' \in [Jobs -> {"unborn", "alive", "dead"}] /\ r2' \in [Jobs -> {"unborn", "alive", "dead"}]
           /\ r5' \in [Jobs -> BOOLEAN] /\ r6' \in [Jobs -> BOOLEAN]
           /\ UNCHANGED <<r3, r4, r12, r13>>
           /\ \A k \in Jobs : /\ r1'[k] = r1[k] \/ (k = j /\ r1[k] = "alive" /\ r1'[k] = "dead")
                              /\ r2'[k] = r2[k] \/ (k = j /\ r2[k] = "alive" /\ r2'[k] = "dead")
                              /\ r5'[k] => r5[k] \/ (k = j /\ r1[k] = "alive")
                              /\ r6[k] => r6'[k]
<1>0. /\ r1 \in [Jobs -> {"unborn", "alive", "dead"}] /\ r2 \in [Jobs -> {"unborn", "alive", "dead"}]
      /\ r5 \in [Jobs -> BOOLEAN] /\ r6 \in [Jobs -> BOOLEAN]
  BY DEF Reaper!TypeOK
<1>1. /\ r5' \in [Jobs -> BOOLEAN] /\ r6' \in [Jobs -> BOOLEAN]
      /\ \A k \in Jobs : (r5'[k] => r5[k] \/ (k = j /\ r1[k] = "alive")) /\ (r6[k] => r6'[k])
  <2>1. CASE r13[j]
    <3>1. PICK c \in BOOLEAN : Reaper!Census(j, c, TRUE)
      BY <2>1 DEF Reaper!Strike
    <3> QED  BY <3>1, CensusFacts
  <2>2. CASE ~r13[j]
    BY <1>0, <2>2 DEF Reaper!Strike
  <2> QED  BY <2>1, <2>2
<1>2. /\ UNCHANGED <<r3, r4, r12, r13>>
      /\ r1' = r1 \/ (r1[j] = "alive" /\ r1' = [r1 EXCEPT ![j] = "dead"])
      /\ r2' = r2 \/ (r2[j] = "alive" /\ r2' = [r2 EXCEPT ![j] = "dead"])
  BY DEF Reaper!Strike
<1> QED  BY <1>0, <1>1, <1>2

(* Whoever hands over a guard finds room for it.                            *)
LEMMA SendFacts ==
    ASSUME Reaper!Supervised, NEW j \in Jobs, r7[j] = "caller", Reaper!SendToReaper(j)
    PROVE  /\ r7' = [r7 EXCEPT ![j] = "queued"] /\ r11' = Append(r11, j)
           /\ r8' = [r8 EXCEPT ![j] = "kill"] /\ UNCHANGED <<r9, r10>>
BY ChannelHasRoom DEF Reaper!SendToReaper

(* Every step of the reaper keeps its state in shape.                       *)
LEMMA ReaperTypeStep == ASSUME Reaper!Supervised, Reaper!Next PROVE Reaper!TypeOK'
<1>0. Reaper!TypeOK
  BY DEF Reaper!Supervised
<1> USE <1>0 DEF Reaper!procs
<1>1. ASSUME NEW j \in Jobs, Reaper!Reserve(j) PROVE Reaper!TypeOK'
  <2>1. /\ UNCHANGED <<r1, r2, r3, r4, r5, r6, r9, r11, r12, r13>>
        /\ \E x \in {"spawn", "refused"} : r8' = [r8 EXCEPT ![j] = x]
        /\ (r7' = r7 /\ r10' = r10) \/ (r7' = [r7 EXCEPT ![j] = "reserved"] /\ r10' = r10 + 1)
    BY <1>1 DEF Reaper!Reserve
  <2> QED  BY <2>1, SMTT(30) DEF Reaper!TypeOK
<1>2. ASSUME NEW j \in Jobs, Reaper!Spawn(j) PROVE Reaper!TypeOK'
  <2>1. /\ r8[j] = "spawn" /\ UNCHANGED <<r2, r3, r4, r5, r6, r9, r11>>
        /\ \/ /\ \E x \in BOOLEAN : r13' = [r13 EXCEPT ![j] = x]
              /\ r1' = [r1 EXCEPT ![j] = "alive"] /\ r12' = [r12 EXCEPT ![j] = TRUE]
              /\ r7' = [r7 EXCEPT ![j] = "caller"] /\ r8' = [r8 EXCEPT ![j] = "run"]
              /\ r10' = r10
           \/ /\ r10' = r10 - 1 /\ r7' = [r7 EXCEPT ![j] = "none"]
              /\ r8' = [r8 EXCEPT ![j] = "refused"] /\ UNCHANGED <<r1, r12, r13>>
    BY <1>2 DEF Reaper!Spawn
  <2>2. Reaper!Armed(j)
    BY <2>1 DEF Reaper!Supervised, Reaper!ScansAreFinal, Reaper!Armed
  <2>3. r10 - 1 \in Nat
    BY <2>2, ArmedHasSlot
  <2>6. r13 \in [Jobs -> BOOLEAN] /\ r12 \in [Jobs -> BOOLEAN] /\ r1 \in [Jobs -> {"unborn", "alive", "dead"}]
    BY DEF Reaper!TypeOK
  <2>7. r13' \in [Jobs -> BOOLEAN]
    <3>1. CASE \E x \in BOOLEAN : r13' = [r13 EXCEPT ![j] = x]
      <4>1. PICK x \in BOOLEAN : r13' = [r13 EXCEPT ![j] = x]
        BY <3>1
      <4> QED  BY <2>6, <4>1
    <3> QED  BY <2>1, <2>6, <3>1
  <2>8. r12' \in [Jobs -> BOOLEAN]
    BY <2>1, <2>6
  <2>4. r1' \in [Jobs -> {"unborn", "alive", "dead"}] /\ r12' \in [Jobs -> BOOLEAN] /\ r13' \in [Jobs -> BOOLEAN]
    BY <2>1, <2>6, <2>7, <2>8
  <2>5. /\ r7' \in [Jobs -> {"none", "reserved", "caller", "queued", "reaper", "clean", "lost"}]
        /\ r8' \in [Jobs -> {"idle", "spawn", "refused", "run", "kill", "scan", "known", "done"}]
        /\ r10' \in Nat
    BY <2>1, <2>3 DEF Reaper!TypeOK
  <2> QED  BY <2>1, <2>4, <2>5 DEF Reaper!TypeOK
<1>3. ASSUME NEW j \in Jobs, Reaper!Processes(j) PROVE Reaper!TypeOK'
  <2>1. CASE Reaper!Fork(j)
    BY <2>1 DEF Reaper!Fork, Reaper!TypeOK
  <2>2. CASE Reaper!Detach(j)
    BY <2>2 DEF Reaper!Detach, Reaper!TypeOK
  <2>3. CASE Reaper!Exit(j)
    BY <2>3 DEF Reaper!Exit, Reaper!TypeOK
  <2> QED  BY <1>3, <2>1, <2>2, <2>3 DEF Reaper!Processes
<1>4. ASSUME NEW j \in Jobs, Reaper!Read(j) PROVE Reaper!TypeOK'
  <2>1. r5' \in [Jobs -> BOOLEAN] /\ r6' \in [Jobs -> BOOLEAN]
    BY <1>4, CensusFacts DEF Reaper!Read
  <2> QED  BY <1>4, <2>1 DEF Reaper!Read, Reaper!TypeOK
<1>5. ASSUME NEW j \in Jobs, Reaper!Cleanup(j) PROVE Reaper!TypeOK'
  <2>1. r5' \in [Jobs -> BOOLEAN] /\ r6' \in [Jobs -> BOOLEAN]
    <3>1. CASE UNCHANGED <<r5, r6>>
      BY <3>1 DEF Reaper!TypeOK
    <3>2. CASE \E c \in BOOLEAN : Reaper!Census(j, c, TRUE)
      BY <3>2, CensusFacts
    <3> QED  BY <1>5, <3>1, <3>2 DEF Reaper!Cleanup
  <2>2. r8' = [r8 EXCEPT ![j] = "scan"] \/ r8' = [r8 EXCEPT ![j] = "kill"]
    BY <1>5 DEF Reaper!Cleanup
  <2> QED  BY <1>5, <2>1, <2>2 DEF Reaper!Cleanup, Reaper!TypeOK
<1>6. ASSUME NEW j \in Jobs, Reaper!Kill(j) PROVE Reaper!TypeOK'
  <2>1. /\ Reaper!Strike(j) /\ r8' = [r8 EXCEPT ![j] = "scan"] /\ UNCHANGED <<r7, r9, r10, r11>>
    BY <1>6 DEF Reaper!Kill
  <2> QED  BY <2>1, StrikeFacts DEF Reaper!TypeOK
<1>7. ASSUME NEW j \in Jobs, NEW c \in BOOLEAN, Reaper!ScanHolders(j, c)
      PROVE  Reaper!TypeOK'
  <2>1. r5' \in [Jobs -> BOOLEAN] /\ r6' \in [Jobs -> BOOLEAN]
    BY <1>7, CensusFacts DEF Reaper!ScanHolders
  <2>2. Reaper!HoldersGone(j, c) \in BOOLEAN
    BY DEF Reaper!HoldersGone
  <2> QED  BY <1>7, <2>1, <2>2 DEF Reaper!ScanHolders, Reaper!TypeOK
<1>8. ASSUME NEW j \in Jobs, Reaper!ScanKnown(j) PROVE Reaper!TypeOK'
  <2>1. r10 - 1 \in Nat
    BY <1>8, ArmedHasSlot DEF Reaper!ScanKnown, Reaper!Armed
  <2>2. \/ r7' = [r7 EXCEPT ![j] = "clean"] /\ r10' = r10 - 1 /\ r8' = [r8 EXCEPT ![j] = "done"]
        \/ r7' = r7 /\ r10' = r10 /\ r8' = [r8 EXCEPT ![j] = "kill"]
    BY <1>8 DEF Reaper!ScanKnown
  <2>3. UNCHANGED <<r1, r2, r3, r4, r5, r6, r9, r11, r12, r13>>
    BY <1>8 DEF Reaper!ScanKnown
  <2> QED
    BY <2>1, <2>2, <2>3 DEF Reaper!TypeOK
<1>9. ASSUME NEW j \in Jobs, Reaper!Handoff(j) PROVE Reaper!TypeOK'
  <2>1. /\ r7' = [r7 EXCEPT ![j] = "queued"] /\ r11' = Append(r11, j)
        /\ r8' = [r8 EXCEPT ![j] = "kill"] /\ UNCHANGED <<r9, r10>>
    BY <1>9, SendFacts DEF Reaper!Handoff
  <2>2. UNCHANGED <<r1, r2, r3, r4, r5, r6, r12, r13>>
    BY <1>9 DEF Reaper!Handoff
  <2> QED
    BY <2>1, <2>2 DEF Reaper!TypeOK
<1>10. ASSUME NEW j \in Jobs, Reaper!Drop(j) PROVE Reaper!TypeOK'
  <2>1. /\ r7' = [r7 EXCEPT ![j] = "queued"] /\ r11' = Append(r11, j)
        /\ r8' = [r8 EXCEPT ![j] = "kill"] /\ UNCHANGED <<r9, r10>>
    BY <1>10, SendFacts DEF Reaper!Drop
  <2>2. Reaper!Strike(j)
    BY <1>10 DEF Reaper!Drop
  <2> QED
    BY <2>1, <2>2, StrikeFacts DEF Reaper!TypeOK
<1>11. CASE Reaper!Receive
  BY <1>11 DEF Reaper!Receive, Reaper!TypeOK
<1> QED
  BY <1>1, <1>2, <1>3, <1>4, <1>5, <1>6, <1>7, <1>8, <1>9, <1>10, <1>11
     DEF Reaper!Next, Reaper!ScanComplete, Reaper!ScanPartial

(* Slots are taken and freed with the guards they stand for, and the        *)
(* channel gains and loses one responsibility at a time.                    *)
LEMMA ReaperCountStep ==
    ASSUME Reaper!Supervised, Reaper!Next
    PROVE  Reaper!SlotsCountGuards' /\ Reaper!QueueIsGuards'
<1>0. /\ Reaper!TypeOK /\ Reaper!ScansAreFinal
      /\ r10 = Cardinality(Reaper!Held) /\ r10 <= MaxSlots /\ Len(r11) <= MaxSlots
      /\ \A k \in 1..Len(r11) : r7[r11[k]] = "queued"
      /\ \A k, m \in 1..Len(r11) : r11[k] = r11[m] => k = m
      /\ Len(r11) = Cardinality(Reaper!Queued)
  BY CountsAreCardinalities DEF Reaper!Supervised
<1>a. /\ Reaper!Cardinality(Reaper!Held') = Cardinality(Reaper!Held')
      /\ Reaper!Cardinality(Reaper!Queued') = Cardinality(Reaper!Queued')
  BY SameCardinality
<1> DEFINE Counted ==
             /\ r10' = Cardinality(Reaper!Held') /\ r10' <= MaxSlots /\ Len(r11') <= MaxSlots
             /\ \A k \in 1..Len(r11') : r7'[r11'[k]] = "queued"
             /\ \A k, m \in 1..Len(r11') : r11'[k] = r11'[m] => k = m
             /\ Len(r11') = Cardinality(Reaper!Queued')
<1> SUFFICES Counted
  BY <1>a DEF Reaper!SlotsCountGuards, Reaper!QueueIsGuards, Reaper!Held
<1>b. /\ r7 \in [Jobs -> {"none", "reserved", "caller", "queued", "reaper", "clean", "lost"}]
      /\ r11 \in Seq(Jobs) /\ r10 \in Nat
  BY <1>0 DEF Reaper!TypeOK
<1> USE DEF Reaper!Held, Reaper!Queued, Reaper!Armed
<1>1. CASE UNCHANGED <<r7, r10, r11>>
  <2>1. Reaper!Held' = Reaper!Held /\ Reaper!Queued' = Reaper!Queued
    BY <1>1
  <2> HIDE DEF Reaper!Held, Reaper!Queued
  <2> QED
    BY <1>0, <1>1, <2>1
<1>2. ASSUME NEW j \in Jobs, r8[j] = "idle", r10 < MaxSlots, r10' = r10 + 1,
             r7' = [r7 EXCEPT ![j] = "reserved"], r11' = r11
      PROVE  Counted
  <2>1. r7[j] = "none"
    BY <1>0, <1>2 DEF Reaper!ScansAreFinal
  <2>2. /\ Reaper!Held' = Reaper!Held \cup {j} /\ j \notin Reaper!Held
        /\ Reaper!Queued' = Reaper!Queued
    BY <1>b, <1>2, <2>1
  <2>3. \A k \in 1..Len(r11) : r11[k] # j /\ r11[k] \in Jobs
    BY <1>0, <1>b, <2>1
  <2> HIDE DEF Reaper!Held, Reaper!Queued
  <2>4. Cardinality(Reaper!Held') = Cardinality(Reaper!Held) + 1
    BY <2>2, HeldIsFinite, FS_AddElement
  <2> QED
    BY <1>0, <1>b, <1>2, <2>2, <2>3, <2>4, ReaperParameters
<1>3. ASSUME NEW j \in Jobs, r7[j] \in {"reserved", "caller", "reaper"}, r10' = r10 - 1,
             NEW x \in {"none", "clean"}, r7' = [r7 EXCEPT ![j] = x], r11' = r11
      PROVE  Counted
  <2>1. Reaper!Held' = Reaper!Held \ {j} /\ Reaper!Queued' = Reaper!Queued
    BY <1>b, <1>3
  <2>2. \A k \in 1..Len(r11) : r11[k] # j /\ r11[k] \in Jobs
    BY <1>0, <1>b, <1>3
  <2>3. r10 - 1 = Cardinality(Reaper!Held \ {j})
    BY <1>3, ArmedHasSlot
  <2> HIDE DEF Reaper!Held, Reaper!Queued
  <2> QED
    BY <1>0, <1>b, <1>3, <2>1, <2>2, <2>3, ReaperParameters
<1>4. ASSUME NEW j \in Jobs, r7[j] = "caller", r10' = r10,
             r7' = [r7 EXCEPT ![j] = "queued"], r11' = Append(r11, j)
      PROVE  Counted
  <2>1. /\ Reaper!Held' = Reaper!Held /\ Reaper!Queued' = Reaper!Queued \cup {j}
        /\ j \notin Reaper!Queued
    BY <1>b, <1>4
  <2>2. \A k \in 1..Len(r11) : r11[k] # j /\ r11[k] \in Jobs
    BY <1>0, <1>b, <1>4
  <2>3. Len(r11) < MaxSlots
    BY <1>4, ChannelHasRoom
  <2> HIDE DEF Reaper!Held, Reaper!Queued
  <2>4. Cardinality(Reaper!Queued') = Cardinality(Reaper!Queued) + 1
    BY <2>1, HeldIsFinite, FS_AddElement
  <2>5. Len(r11') = Len(r11) + 1 /\ Len(r11) \in Nat
    BY <1>b, <1>4
  <2>6. \A k \in 1..Len(r11') : r11'[k] = IF k <= Len(r11) THEN r11[k] ELSE j
    BY <1>b, <1>4
  <2>7. \A k \in 1..Len(r11') : r7'[r11'[k]] = "queued"
    BY <1>0, <1>b, <1>4, <2>2, <2>5, <2>6
  <2>8. \A k, m \in 1..Len(r11') : r11'[k] = r11'[m] => k = m
    BY <1>0, <2>2, <2>5, <2>6
  <2> QED
    BY <1>0, <1>4, <2>1, <2>3, <2>4, <2>5, <2>7, <2>8, ReaperParameters
<1>5. ASSUME r11 # << >>, r7' = [r7 EXCEPT ![Head(r11)] = "reaper"], r11' = Tail(r11), r10' = r10
      PROVE  Counted
  <2>1. /\ Len(r11) \in Nat \ {0} /\ Head(r11) = r11[1] /\ Head(r11) \in Jobs
        /\ Len(r11') = Len(r11) - 1
        /\ \A k \in 1..Len(r11') : r11'[k] = r11[k + 1]
    BY <1>b, <1>5
  <2>2. r7[Head(r11)] = "queued"
    BY <1>0, <2>1
  <2>3. /\ Reaper!Held' = Reaper!Held /\ Reaper!Queued' = Reaper!Queued \ {Head(r11)}
        /\ Head(r11) \in Reaper!Queued
    BY <1>b, <1>5, <2>1, <2>2
  <2> HIDE DEF Reaper!Held, Reaper!Queued
  <2>4. Cardinality(Reaper!Queued') = Cardinality(Reaper!Queued) - 1
    BY <2>3, HeldIsFinite, FS_RemoveElement
  <2>5. \A k \in 1..Len(r11') : /\ k + 1 \in 1..Len(r11) /\ r11[k + 1] # Head(r11)
                                /\ r11[k + 1] \in Jobs
    BY <1>0, <1>b, <2>1
  <2>6. \A k \in 1..Len(r11') : r7'[r11'[k]] = "queued"
    BY <1>0, <1>b, <1>5, <2>1, <2>5
  <2>7. \A k, m \in 1..Len(r11') : r11'[k] = r11'[m] => k = m
    BY <1>0, <2>1, <2>5
  <2> QED
    BY <1>0, <1>5, <2>1, <2>3, <2>4, <2>6, <2>7, ReaperParameters
<1>c. ASSUME NEW j \in Jobs, r7[j] = "reserved", r7' = [r7 EXCEPT ![j] = "caller"], UNCHANGED <<r10, r11>>
      PROVE  Counted
  <2>1. Reaper!Held' = Reaper!Held /\ Reaper!Queued' = Reaper!Queued
    BY <1>b, <1>c
  <2>2. \A k \in 1..Len(r11) : r11[k] # j /\ r11[k] \in Jobs
    BY <1>0, <1>b, <1>c
  <2> HIDE DEF Reaper!Held, Reaper!Queued
  <2> QED
    BY <1>0, <1>b, <1>c, <2>1, <2>2
<1> HIDE DEF Reaper!Held, Reaper!Queued, Reaper!Armed
<1>6. \A j \in Jobs :
        \/ Reaper!Processes(j) \/ Reaper!Read(j) \/ Reaper!Cleanup(j) \/ Reaper!Kill(j)
        \/ Reaper!ScanComplete(j) \/ Reaper!ScanPartial(j)
        => UNCHANGED <<r7, r10, r11>>
  BY DEF Reaper!Processes, Reaper!Fork, Reaper!Detach, Reaper!Exit, Reaper!Read,
         Reaper!Cleanup, Reaper!Kill, Reaper!ScanComplete, Reaper!ScanPartial,
         Reaper!ScanHolders
<1>7. ASSUME NEW j \in Jobs, Reaper!Reserve(j)
      PROVE  Counted
  <2>1. \/ UNCHANGED <<r7, r10, r11>>
        \/ /\ r8[j] = "idle" /\ r10 < MaxSlots /\ r10' = r10 + 1
           /\ r7' = [r7 EXCEPT ![j] = "reserved"] /\ r11' = r11
    BY <1>7 DEF Reaper!Reserve
  <2> HIDE DEF Counted
  <2> QED  BY <2>1, <1>1, <1>2
<1>11. ASSUME NEW j \in Jobs, Reaper!Spawn(j)
      PROVE  Counted
  <2>1. /\ r8[j] = "spawn" /\ r11' = r11
        /\ \/ r7' = [r7 EXCEPT ![j] = "caller"] /\ r10' = r10
           \/ r10' = r10 - 1 /\ r7' = [r7 EXCEPT ![j] = "none"]
    BY <1>11 DEF Reaper!Spawn
  <2>2. r7[j] = "reserved"
    BY <1>0, <2>1 DEF Reaper!ScansAreFinal
  <2> HIDE DEF Counted
  <2> QED  BY <2>1, <2>2, <1>3, <1>c
<1>8. ASSUME NEW j \in Jobs, Reaper!ScanKnown(j)
      PROVE  Counted
  <2>1. \/ UNCHANGED <<r7, r10, r11>>
        \/ /\ r7[j] \in {"caller", "reaper"} /\ r10' = r10 - 1
           /\ r7' = [r7 EXCEPT ![j] = "clean"] /\ r11' = r11
    BY <1>8 DEF Reaper!ScanKnown
  <2> HIDE DEF Counted
  <2> QED  BY <2>1, <1>1, <1>3
<1>9. ASSUME NEW j \in Jobs, Reaper!Handoff(j) \/ Reaper!Drop(j)
      PROVE  Counted
  <2>1. /\ r7[j] = "caller" /\ r10' = r10
        /\ r7' = [r7 EXCEPT ![j] = "queued"] /\ r11' = Append(r11, j)
    BY <1>9, SendFacts DEF Reaper!Handoff, Reaper!Drop
  <2> HIDE DEF Counted
  <2> QED  BY <2>1, <1>4
<1>10. CASE Reaper!Receive
  <2> HIDE DEF Counted
  <2> QED  BY <1>5, <1>10 DEF Reaper!Receive
<1> HIDE DEF Counted
<1> QED
  BY <1>1, <1>6, <1>7, <1>8, <1>9, <1>10, <1>11 DEF Reaper!Next

(* Nothing a scan has ruled out comes back.                                 *)
LEMMA ReaperScanStep ==
    ASSUME Reaper!Supervised, Reaper!Next
    PROVE  Reaper!ScansAreFinal' /\ Reaper!CleanMeansGone'
<1>0. Reaper!TypeOK /\ Reaper!ScansAreFinal /\ Reaper!CleanMeansGone
  BY DEF Reaper!Supervised
<1> USE <1>0 DEF Reaper!ScansAreFinal, Reaper!CleanMeansGone, Reaper!procs, Reaper!Holder
<1>a. /\ r1 \in [Jobs -> {"unborn", "alive", "dead"}] /\ r2 \in [Jobs -> {"unborn", "alive", "dead"}]
      /\ r4 \in [Jobs -> BOOLEAN] /\ r5 \in [Jobs -> BOOLEAN] /\ r6 \in [Jobs -> BOOLEAN]
      /\ r7 \in [Jobs -> {"none", "reserved", "caller", "queued", "reaper", "clean", "lost"}]
      /\ r8 \in [Jobs -> {"idle", "spawn", "refused", "run", "kill", "scan", "known", "done"}]
      /\ r9 \in [Jobs -> BOOLEAN] /\ r12 \in [Jobs -> BOOLEAN] /\ r13 \in [Jobs -> BOOLEAN]
  BY DEF Reaper!TypeOK
<1> USE <1>a
<1>1. ASSUME NEW j \in Jobs, Reaper!Reserve(j)
      PROVE  Reaper!ScansAreFinal' /\ Reaper!CleanMeansGone'
  BY <1>1 DEF Reaper!Reserve
<1>11. ASSUME NEW j \in Jobs, Reaper!Spawn(j)
      PROVE  Reaper!ScansAreFinal' /\ Reaper!CleanMeansGone'
  BY <1>11 DEF Reaper!Spawn
<1>2. ASSUME NEW j \in Jobs, Reaper!Fork(j) \/ Reaper!Detach(j)
      PROVE  Reaper!ScansAreFinal' /\ Reaper!CleanMeansGone'
  BY <1>2 DEF Reaper!Fork, Reaper!Detach
<1>3. ASSUME NEW j \in Jobs, Reaper!Exit(j)
      PROVE  Reaper!ScansAreFinal' /\ Reaper!CleanMeansGone'
  BY <1>3 DEF Reaper!Exit
<1>4. ASSUME NEW j \in Jobs, Reaper!Read(j)
      PROVE  Reaper!ScansAreFinal' /\ Reaper!CleanMeansGone'
  <2>1. /\ r7[j] = "caller" /\ UNCHANGED <<r1, r2, r3, r4, r12, r7, r8, r9, r10, r11, r13>>
        /\ \E c \in BOOLEAN : Reaper!Census(j, c, FALSE)
    BY <1>4 DEF Reaper!Read
  <2>2. \A k \in Jobs : (r5'[k] => r5[k] \/ (k = j /\ r1[k] = "alive")) /\ (r6[k] => r6'[k])
    BY <2>1, CensusFacts
  <2> QED  BY <2>1, <2>2
<1>5. ASSUME NEW j \in Jobs, Reaper!Cleanup(j)
      PROVE  Reaper!ScansAreFinal' /\ Reaper!CleanMeansGone'
  <2>1. /\ r7[j] = "caller" /\ UNCHANGED <<r1, r2, r3, r4, r12, r7, r9, r10, r11, r13>>
        /\ UNCHANGED <<r5, r6>> \/ \E c \in BOOLEAN : Reaper!Census(j, c, TRUE)
        /\ r8' = [r8 EXCEPT ![j] = "scan"] \/ r8' = [r8 EXCEPT ![j] = "kill"]
    BY <1>5 DEF Reaper!Cleanup
  <2>2. \A k \in Jobs : (r5'[k] => r5[k] \/ (k = j /\ r1[k] = "alive")) /\ (r6[k] => r6'[k])
    <3>1. CASE UNCHANGED <<r5, r6>>
      BY <3>1
    <3>2. CASE \E c \in BOOLEAN : Reaper!Census(j, c, TRUE)
      <4>1. PICK c \in BOOLEAN : Reaper!Census(j, c, TRUE)
        BY <3>2
      <4> HIDE DEF Reaper!ScansAreFinal, Reaper!CleanMeansGone, Reaper!Holder
      <4> QED  BY <4>1, CensusFacts
    <3> QED  BY <2>1, <3>1, <3>2
  <2> QED  BY <2>1, <2>2
<1>6. ASSUME NEW j \in Jobs, Reaper!Kill(j)
      PROVE  Reaper!ScansAreFinal' /\ Reaper!CleanMeansGone'
  <2>1. /\ r7[j] \in {"caller", "reaper"} /\ Reaper!Strike(j)
        /\ r8' = [r8 EXCEPT ![j] = "scan"] /\ r8[j] = "kill" /\ UNCHANGED <<r7, r9, r10, r11>>
    BY <1>6 DEF Reaper!Kill
  <2> QED  BY <2>1, StrikeFacts
<1>7. ASSUME NEW j \in Jobs, NEW c \in BOOLEAN, Reaper!ScanHolders(j, c)
      PROVE  Reaper!ScansAreFinal' /\ Reaper!CleanMeansGone'
  <2>1. /\ r7[j] \in {"caller", "reaper"} /\ UNCHANGED <<r1, r2, r3, r4, r12, r7, r10, r11, r13>>
        /\ Reaper!Census(j, c, TRUE) /\ r8[j] = "scan"
        /\ r8' = [r8 EXCEPT ![j] = "known"]
        /\ r9' = [r9 EXCEPT ![j] = c /\ ~((r2[j] = "alive" /\ r4[j]) \/ (r1[j] = "alive" /\ r12[j]))]
    BY <1>7 DEF Reaper!ScanHolders, Reaper!HoldersGone
  <2>2. /\ \A k \in Jobs : (r5'[k] => r5[k] \/ (k = j /\ r1[k] = "alive")) /\ (r6[k] => r6'[k])
        /\ ~r13[j] => r6'[j]
    <3> HIDE DEF Reaper!ScansAreFinal, Reaper!CleanMeansGone, Reaper!Holder
    <3> QED  BY <2>1, CensusFacts
  <2> QED  BY <2>1, <2>2
<1>8. ASSUME NEW j \in Jobs, Reaper!ScanKnown(j)
      PROVE  Reaper!ScansAreFinal' /\ Reaper!CleanMeansGone'
  BY <1>8 DEF Reaper!ScanKnown, Reaper!KnownGone
<1>9. ASSUME NEW j \in Jobs, Reaper!Handoff(j) \/ Reaper!Drop(j)
      PROVE  Reaper!ScansAreFinal' /\ Reaper!CleanMeansGone'
  <2>1. /\ r7[j] = "caller" /\ r7' = [r7 EXCEPT ![j] = "queued"]
        /\ r8' = [r8 EXCEPT ![j] = "kill"] /\ UNCHANGED <<r9, r10>>
    BY <1>9, SendFacts DEF Reaper!Handoff, Reaper!Drop
  <2>2. Reaper!Strike(j) \/ UNCHANGED <<r1, r2, r3, r4, r5, r6, r12, r13>>
    BY <1>9 DEF Reaper!Handoff, Reaper!Drop
  <2> QED  BY <2>1, <2>2, StrikeFacts
<1>10. CASE Reaper!Receive
  <2>1. r7[Head(r11)] = "queued" /\ Head(r11) \in Jobs
    BY <1>10, CountsAreCardinalities DEF Reaper!Receive, Reaper!Supervised, Reaper!TypeOK
  <2> QED
    BY <1>10, <2>1 DEF Reaper!Receive
<1> QED
  BY <1>1, <1>2, <1>3, <1>4, <1>5, <1>6, <1>7, <1>8, <1>9, <1>10, <1>11
     DEF Reaper!Next, Reaper!Processes, Reaper!ScanComplete, Reaper!ScanPartial

(* No step loses a guard.                                                   *)
LEMMA ReaperLosesNone == ASSUME Reaper!Supervised, Reaper!Next PROVE Reaper!NothingLost'
<1>0. Reaper!NothingLost /\ r7 \in [Jobs -> {"none", "reserved", "caller", "queued", "reaper", "clean", "lost"}]
  BY DEF Reaper!Supervised, Reaper!TypeOK
<1>1. ASSUME NEW j \in Jobs, Reaper!Handoff(j) \/ Reaper!Drop(j) PROVE Reaper!NothingLost'
  <2>1. r7' = [r7 EXCEPT ![j] = "queued"]
    BY <1>1, SendFacts DEF Reaper!Handoff, Reaper!Drop
  <2> QED  BY <1>0, <2>1 DEF Reaper!NothingLost
<1>2. ASSUME NEW j \in Jobs,
             \/ Reaper!Reserve(j) \/ Reaper!Spawn(j) \/ Reaper!Processes(j) \/ Reaper!Read(j)
             \/ Reaper!Cleanup(j) \/ Reaper!Kill(j) \/ Reaper!ScanComplete(j) \/ Reaper!ScanPartial(j)
             \/ Reaper!ScanKnown(j)
      PROVE  Reaper!NothingLost'
  <2>1. \E x \in {"reserved", "caller", "none", "clean"} : r7' = r7 \/ r7' = [r7 EXCEPT ![j] = x]
    BY <1>2 DEF Reaper!Reserve, Reaper!Spawn, Reaper!Processes, Reaper!Fork, Reaper!Detach, Reaper!Exit,
       Reaper!Read, Reaper!Cleanup, Reaper!Kill, Reaper!ScanComplete, Reaper!ScanPartial,
       Reaper!ScanHolders, Reaper!ScanKnown
  <2> QED  BY <1>0, <2>1 DEF Reaper!NothingLost
<1>3. CASE Reaper!Receive
  BY <1>0, <1>3 DEF Reaper!Receive, Reaper!NothingLost
<1> QED  BY <1>1, <1>2, <1>3 DEF Reaper!Next

(* So every step keeps every command supervised.                            *)
LEMMA ReaperStep == Reaper!Supervised /\ Reaper!Next => Reaper!Supervised'
BY ReaperTypeStep, ReaperCountStep, ReaperScanStep, ReaperLosesNone DEF Reaper!Supervised

(* No process outlives its command, for every bound on frames, outputs and  *)
(* supervised commands: not a child whose operation failed or whose owner   *)
(* is gone, not a descendant that holds the pipes (json_rpc_child.rs,       *)
(* subprocess.rs); no supervised command is forgotten when the reaper's     *)
(* channel is full, and none is let go of with a process it could have      *)
(* known of (kiro.rs, handoff_to_reaper and proved_clean).                  *)
THEOREM NoOrphansHolds == ServicesSpec => []NoOrphans
<1> DEFINE Inv == /\ machine = "rpc" => Rpc!ChildInHand
                  /\ machine = "command" => Command!OutputsEnd
                  /\ machine = "reaper" => Reaper!Supervised
<1>1. ServicesInit => Inv
  BY ChildStarts, CommandStarts, ReaperStarts DEF ServicesInit, Starts
<1>2. Inv /\ [ServicesNext]_all => Inv'
  <2> SUFFICES ASSUME Inv, [ServicesNext]_all PROVE Inv'
    OBVIOUS
  <2>1. CASE UNCHANGED all
    <3>1. UNCHANGED registers /\ machine' = machine
      BY <2>1 DEF all
    <3>2. Rpc!ChildInHand => Rpc!ChildInHand'
      BY <3>1 DEF registers, Rpc!ChildInHand, Rpc!TypeOK, Rpc!GroupInHand,
                  Rpc!ResultsAreAnswers, Rpc!AnswersItsRequest
    <3>3. Command!OutputsEnd => Command!OutputsEnd'
      BY <3>1 DEF registers, Command!OutputsEnd, Command!NoOrphans
    <3>4. Reaper!Supervised => Reaper!Supervised'
      BY <3>1 DEF registers, Reaper!Supervised, Reaper!TypeOK, Reaper!SlotsCountGuards,
                  Reaper!QueueIsGuards, Reaper!Queued, Reaper!Armed, Reaper!ScansAreFinal,
                  Reaper!Holder, Reaper!NothingLost, Reaper!CleanMeansGone
    <3> QED
      BY <3>1, <3>2, <3>3, <3>4
  <2>2. CASE machine = "rpc" /\ Rpc!Next
    BY <2>2, MachineIsFixed, ChildStep
  <2>3. CASE machine = "command" /\ Command!Next
    BY <2>3, MachineIsFixed, CommandStep
  <2>4. CASE machine = "reaper" /\ Reaper!Next
    BY <2>4, MachineIsFixed, ReaperStep
  <2>5. CASE machine \notin {"rpc", "command", "reaper"}
    BY <2>5, MachineIsFixed
  <2> QED
    BY <2>1, <2>2, <2>3, <2>4, <2>5 DEF ServicesNext, Runs
<1>3. Inv => NoOrphans
  <2>1. Rpc!ChildInHand => Rpc!NoOrphans
    BY DEF Rpc!ChildInHand, Rpc!GroupInHand, Rpc!NoOrphans
  <2>2. Command!OutputsEnd => Command!NoOrphans
    BY DEF Command!OutputsEnd
  <2>3. Reaper!Supervised
          => Reaper!SlotsCountGuards /\ Reaper!NothingLost /\ Reaper!CleanMeansGone
    BY DEF Reaper!Supervised
  <2> QED
    BY <2>1, <2>2, <2>3 DEF NoOrphans
<1> QED
  BY <1>1, <1>2, <1>3, PTL DEF ServicesSpec

(****************************************************************************)
(* The one-shot credential.                                                 *)
(****************************************************************************)
(* A prefix of a sequence grows by its next element, and not when something *)
(* is appended behind it.                                                   *)
LEMMA PrefixGrows ==
    ASSUME NEW S, NEW s \in Seq(S), NEW n \in Nat, n < Len(s)
    PROVE  SubSeq(s, 1, n + 1) = SubSeq(s, 1, n) \o <<s[n + 1]>> /\ s[n + 1] \in S
<1>1. 1 \in 1..Len(s) /\ n + 1 \in 1..Len(s) /\ (n + 1) - 1 = n
  OBVIOUS
<1>2. SubSeq(s, 1, n + 1) = SubSeq(s, 1, (n + 1) - 1) \o <<s[n + 1]>>
  BY <1>1, SubSeqRecursiveSecond
<1> QED
  BY <1>1, <1>2

(* An element appended leaves a prefix as it is.                            *)
LEMMA PrefixKept ==
    ASSUME NEW S, NEW s \in Seq(S), NEW x \in S, NEW n \in Nat, n <= Len(s)
    PROVE  SubSeq(Append(s, x), 1, n) = SubSeq(s, 1, n)
<1>1. Append(s, x) = s \o <<x>> /\ <<x>> \in Seq(S)
  BY AppendIsConcat
<1>2. CASE n = 0
  BY <1>2, SubSeqEmpty
<1>3. CASE n > 0
  <2>1. 1 \in 1..Len(s) /\ n \in 1..Len(s)
    BY <1>3
  <2> QED
    BY <1>1, <2>1, SubSeqOfConcat1
<1> QED
  BY <1>2, <1>3

(* Appending to the second part of a concatenation appends to the whole.    *)
LEMMA ConcatThenAppend ==
    ASSUME NEW S, NEW s \in Seq(S), NEW t \in Seq(S), NEW x \in S
    PROVE  s \o Append(t, x) = (s \o t) \o <<x>>
<1>1. <<x>> \in Seq(S) /\ Append(t, x) = t \o <<x>>
  BY AppendIsConcat
<1> QED
  BY <1>1, ConcatAssociative

(* What the frames below need of sequences.                                 *)
LEMMA SequencesClosed ==
    ASSUME NEW S
    PROVE  /\ \A x \in S : <<x>> \in Seq(S)
           /\ \A s \in Seq(S), x \in S : Append(s, x) \in Seq(S) /\ Append(s, x) = s \o <<x>>
           /\ \A s, t \in Seq(S) : s \o t \in Seq(S)
           /\ \A s, t \in Seq(S), x \in S : s \o Append(t, x) = (s \o t) \o <<x>>
BY AppendProperties, AppendIsConcat, ConcatProperties, ConcatThenAppend

(* The receiver's parameters, and the symbols of a frame.                   *)
LEMMA ReceiverParameters ==
    /\ Peers \subseteq Clients /\ MaxBytes \in Nat /\ Deadline \in Nat
    /\ {":", ",", "0"} \subseteq Credential!Symbols
BY ServicesAssumption
   DEF Credential!ReceiverAssumption, Credential!Symbols, Credential!Digits

(* At first nothing has been read.                                          *)
LEMMA ReceiverStarts == Credential!Init => Credential!FrameKept
<1> SUFFICES ASSUME Credential!Init PROVE Credential!FrameKept
  OBVIOUS
<1>1. Credential!ReceiverTypes
  BY DEF Credential!Init, Credential!ReceiverTypes
<1>2. Credential!ReadIsPrefix
  BY DEF Credential!Init, Credential!ReadIsPrefix, Credential!Reading
<1>3. Credential!DeliveredExactly /\ Credential!OneShot /\ r11 # "ok"
  BY DEF Credential!Init, Credential!DeliveredExactly, Credential!OneShot, Credential!Reading
<1> QED
  BY <1>1, <1>2, <1>3 DEF Credential!FrameKept

(* One byte of the frame.                                                   *)
LEMMA ReceiverReads ==
    ASSUME Credential!FrameKept, Credential!ReadByte PROVE Credential!FrameKept'
<1>0. /\ Credential!ReceiverTypes /\ Credential!ReadIsPrefix /\ Credential!OneShot
      /\ r2 \in Credential!Reading /\ r11 # "ok"
  BY DEF Credential!FrameKept, Credential!ReadByte, Credential!Reading
<1>1. /\ r5 \in Peers /\ r6[r5] \in Seq(Credential!Symbols) /\ r8 \in Nat
      /\ r8 < Len(r6[r5]) /\ r8' = r8 + 1 /\ UNCHANGED <<r1, r4, r5, r6, r7>>
      /\ SubSeq(r6[r5], 1, r8) = Credential!FrameSoFar
      /\ r9 \in Seq(Credential!Symbols) /\ r10 \in Seq(Credential!Symbols)
  BY <1>0, ReceiverParameters
     DEF Credential!ReadByte, Credential!ReceiverTypes, Credential!ReadIsPrefix,
         Credential!Available
<1> DEFINE x == r6[r5][r8 + 1]
<1>2. x \in Credential!Symbols /\ SubSeq(r6[r5], 1, r8 + 1) = Credential!FrameSoFar \o <<x>>
  BY <1>1, PrefixGrows
<1> HIDE DEF x
<1>3. \/ r2 = "length" /\ Credential!LengthRead(x) /\ UNCHANGED r10
      \/ r2 = "payload" /\ Credential!PayloadRead(x)
      \/ /\ r2 = "terminator" /\ UNCHANGED <<r9, r10>>
         /\ IF x = "," THEN r2' = "end" /\ UNCHANGED <<r11, r3>>
            ELSE Credential!Finish("MissingTerminator")
      \/ r2 = "end" /\ Credential!Finish("TrailingData") /\ UNCHANGED <<r9, r10>>
  BY DEF Credential!ReadByte, x
<1>4. /\ Credential!ReceiverTypes' /\ Credential!OneShot' /\ r11' # "ok"
  <2>0. /\ r9' = r9 \/ r9' = Append(r9, x)
        /\ r10' = r10 \/ r10' = Append(r10, x)
    BY <1>3 DEF Credential!LengthRead, Credential!PayloadRead
  <2>1. r9' \in Seq(Credential!Symbols)
    BY <1>1, <1>2, <2>0, SequencesClosed
  <2>2. r10' \in Seq(Credential!Symbols)
    BY <1>1, <1>2, <2>0, SequencesClosed
  <2>3. r11' # "ok" /\ (r3' = r3 \/ r3' = FALSE)
    BY <1>0, <1>3 DEF Credential!LengthRead, Credential!PayloadRead, Credential!Finish
  <2> QED
    BY <1>0, <1>1, <2>1, <2>2, <2>3 DEF Credential!ReceiverTypes, Credential!OneShot, Credential!Reading
<1>5. Credential!ReadIsPrefix'
  <2> SUFFICES ASSUME r2' # "done"
               PROVE  Credential!ReadIsPrefix'
    BY DEF Credential!ReadIsPrefix, Credential!Reading
  <2>1. r8' <= Len(r6[r5])' /\ SubSeq(r6[r5], 1, r8)' = Credential!FrameSoFar \o <<x>>
    BY <1>1, <1>2
  <2> USE DEF Credential!FrameSoFar, Credential!Reading
  <2>2. CASE r2 = "length" /\ r2' = "length"
    <3>1. r9' = Append(r9, x) /\ r10' = r10 /\ r10 = << >>
      BY <1>0, <1>3, <2>2 DEF Credential!LengthRead, Credential!Finish, Credential!ReadIsPrefix
    <3>2. r9' = r9 \o <<x>>
      BY <1>1, <1>2, <3>1, AppendIsConcat
    <3> QED
      BY <1>1, <2>1, <2>2, <3>1, <3>2 DEF Credential!ReadIsPrefix
  <2>3. CASE r2 = "length" /\ r2' # "length"
    <3>1. /\ x = ":" /\ r2' = "payload" /\ r9' = r9 /\ r10' = << >> /\ r10 = << >>
          /\ ~(Len(r9) > 1 /\ r9[1] = "0")
          /\ Credential!DeclaredLength # 0 /\ ~(Credential!DeclaredLength > MaxBytes)
      BY <1>0, <1>3, <2>3 DEF Credential!LengthRead, Credential!Finish, Credential!ReadIsPrefix
    <3>2. r9 \o <<":">> \in Seq(Credential!Symbols)
      <4>1. ":" \in Credential!Symbols
        BY ReceiverParameters
      <4>2. <<":">> \in Seq(Credential!Symbols)
        BY <4>1, SequencesClosed
      <4> QED
        BY <1>1, <4>2, SequencesClosed
    <3>3. Credential!FrameSoFar' = r9 \o <<":">>
      BY <3>1, <3>2, ConcatEmptySeq
    <3>4. Credential!DeclaredLength' = Credential!DeclaredLength
      BY <3>1 DEF Credential!DeclaredLength
    <3> QED
      BY <1>1, <2>1, <2>3, <3>1, <3>3, <3>4 DEF Credential!ReadIsPrefix
  <2>4. CASE r2 = "payload"
    <3>1. /\ r9' = r9 /\ r10' = Append(r10, x) /\ r2' \in {"payload", "terminator"}
          /\ r2' = "terminator" => Len(r10') = Credential!DeclaredLength
      BY <1>3, <2>4 DEF Credential!PayloadRead
    <3>2. r9 \o <<":">> \in Seq(Credential!Symbols)
      <4>1. ":" \in Credential!Symbols
        BY ReceiverParameters
      <4>2. <<":">> \in Seq(Credential!Symbols)
        BY <4>1, SequencesClosed
      <4> QED
        BY <1>1, <4>2, SequencesClosed
    <3>3. r9 \o <<":">> \o Append(r10, x) = (r9 \o <<":">> \o r10) \o <<x>>
      <4> HIDE DEF Credential!FrameSoFar, Credential!Reading
      <4>1. r10 \in Seq(Credential!Symbols) /\ x \in Credential!Symbols
        BY <1>1, <1>2
      <4> QED
        BY <3>2, <4>1, ConcatThenAppend
    <3>4. Credential!FrameSoFar' = Credential!FrameSoFar \o <<x>>
      BY <2>4, <3>1, <3>2, <3>3
    <3>5. Credential!DeclaredLength' = Credential!DeclaredLength
      BY <3>1 DEF Credential!DeclaredLength
    <3> QED
      BY <1>0, <1>1, <2>1, <2>4, <3>1, <3>4, <3>5 DEF Credential!ReadIsPrefix
  <2>5. CASE r2 = "terminator"
    <3>1. x = "," /\ r2' = "end" /\ r9' = r9 /\ r10' = r10
      BY <1>3, <2>5 DEF Credential!Finish
    <3>2. Credential!DeclaredLength' = Credential!DeclaredLength
      BY <3>1 DEF Credential!DeclaredLength
    <3> QED
      BY <1>0, <1>1, <2>1, <2>5, <3>1, <3>2 DEF Credential!ReadIsPrefix
  <2> QED
    BY <1>3, <2>2, <2>3, <2>4, <2>5 DEF Credential!Finish
<1> QED
  BY <1>4, <1>5 DEF Credential!FrameKept, Credential!DeliveredExactly

(* A client connects, writes behind what was read, closes; time passes, or  *)
(* somebody takes the name away.                                            *)
LEMMA ReceiverClients ==
    ASSUME Credential!FrameKept,
           \/ Credential!Tick \/ Credential!Rename
           \/ \E c \in Clients : Credential!Connect(c) \/ Credential!Send(c) \/ Credential!Close(c)
    PROVE  Credential!FrameKept'
<1>0. Credential!ReceiverTypes /\ Credential!ReadIsPrefix
  BY DEF Credential!FrameKept
<1>1. UNCHANGED <<r2, r5, r8, r9, r10, r11>> /\ (r3' = r3 \/ r3' = FALSE)
  BY DEF Credential!Tick, Credential!Rename, Credential!Connect, Credential!Send, Credential!Close,
         Credential!stream
<1>2. /\ Credential!FrameSoFar' = Credential!FrameSoFar
      /\ Credential!DeclaredLength' = Credential!DeclaredLength
  BY <1>1 DEF Credential!FrameSoFar, Credential!DeclaredLength
<1>3. CASE \/ Credential!Tick \/ Credential!Rename
           \/ \E c \in Clients : Credential!Connect(c) \/ Credential!Close(c)
  <2>0. \A s \in Seq(Clients), c \in Clients : Append(s, c) \in Seq(Clients)
    BY AppendProperties
  <2>1. r6' = r6 /\ r7 \subseteq r7' /\ r4' \in Seq(Clients)
    BY <1>0, <1>3, <2>0 DEF Credential!Tick, Credential!Rename, Credential!Connect, Credential!Close,
                      Credential!ReceiverTypes
  <2>2. Credential!ReceiverTypes' /\ Credential!ReadIsPrefix' /\ Credential!OneShot'
    BY <1>0, <1>1, <1>2, <2>1
       DEF Credential!FrameKept, Credential!ReceiverTypes, Credential!ReadIsPrefix, Credential!OneShot
  <2>3. Credential!DeliveredExactly'
    BY <1>1, <1>2, <2>1 DEF Credential!FrameKept, Credential!DeliveredExactly
  <2> QED
    BY <1>1, <2>2, <2>3 DEF Credential!FrameKept
<1>4. ASSUME NEW c \in Clients, Credential!Send(c) PROVE Credential!FrameKept'
  <2>1. PICK x \in Credential!Symbols : r6' = [r6 EXCEPT ![c] = Append(@, x)]
    BY <1>4 DEF Credential!Send
  <2>2. c \notin r7 /\ UNCHANGED <<r4, r7>>
    BY <1>4 DEF Credential!Send
  <2>3. r6[c] \in Seq(Credential!Symbols) /\ r6 \in [Clients -> Seq(Credential!Symbols)]
    BY <1>0 DEF Credential!ReceiverTypes
  <2>4. Append(r6[c], x) \in Seq(Credential!Symbols) /\ Len(Append(r6[c], x)) = Len(r6[c]) + 1
    BY <2>3, AppendProperties
  <2>5. Credential!ReceiverTypes'
    BY <1>0, <1>1, <2>1, <2>2, <2>3, <2>4 DEF Credential!ReceiverTypes
  <2>6. Credential!ReadIsPrefix'
    <3> SUFFICES ASSUME r2 \in Credential!Reading
                 PROVE  r8 <= Len(r6'[r5]) /\ SubSeq(r6'[r5], 1, r8) = SubSeq(r6[r5], 1, r8)
      BY <1>0, <1>1, <1>2 DEF Credential!ReadIsPrefix
    <3>1. r5 \in Clients /\ r8 \in Nat /\ r8 <= Len(r6[r5])
      BY <1>0, ReceiverParameters DEF Credential!ReadIsPrefix, Credential!ReceiverTypes
    <3>2. CASE r5 = c
      <4>1. r6'[r5] = Append(r6[c], x)
        BY <2>1, <2>3, <3>2
      <4>2. SubSeq(Append(r6[c], x), 1, r8) = SubSeq(r6[c], 1, r8)
        BY <2>3, <3>1, <3>2, PrefixKept
      <4>3. Len(r6[c]) \in Nat
        BY <2>3
      <4> QED
        BY <2>4, <3>1, <3>2, <4>1, <4>2, <4>3
    <3>3. CASE r5 # c
      BY <2>1, <2>3, <3>1, <3>3
    <3> QED
      BY <3>2, <3>3
  <2>7. Credential!DeliveredExactly'
    <3> SUFFICES ASSUME r11 = "ok" PROVE Credential!DeliveredExactly'
      BY <1>1 DEF Credential!DeliveredExactly
    <3>1. Credential!DeliveredExactly /\ r5 \in Clients /\ r5 # c
      BY <2>2, ReceiverParameters DEF Credential!FrameKept, Credential!DeliveredExactly
    <3>2. r6'[r5] = r6[r5]
      BY <2>1, <2>3, <3>1
    <3> QED
      BY <1>1, <1>2, <2>2, <3>1, <3>2 DEF Credential!DeliveredExactly
  <2> QED
    BY <1>1, <2>5, <2>6, <2>7 DEF Credential!FrameKept, Credential!OneShot
<1> QED
  BY <1>3, <1>4

(* The receiver accepts, takes the name away, gives up at the deadline or   *)
(* meets the end.                                                           *)
LEMMA ReceiverTurns ==
    ASSUME Credential!FrameKept,
           Credential!Accept \/ Credential!Unlink \/ Credential!Elapse \/ Credential!ReadEnd
    PROVE  Credential!FrameKept'
<1>0. Credential!ReceiverTypes /\ Credential!ReadIsPrefix /\ Credential!OneShot
  BY DEF Credential!FrameKept
<1>1. /\ UNCHANGED <<r6, r7, r8, r9, r10>> /\ r2 # "done" /\ r11 # "ok"
      /\ Credential!DeclaredLength' = Credential!DeclaredLength
  BY DEF Credential!FrameKept, Credential!Accept, Credential!Unlink, Credential!Elapse, Credential!ReadEnd,
         Credential!Reading, Credential!stream, Credential!DeclaredLength
<1>2. Credential!ReceiverTypes'
  <2>1. r4' \in Seq(Clients)
    BY <1>0, HeadTailProperties
       DEF Credential!ReceiverTypes, Credential!Accept, Credential!Unlink, Credential!Elapse,
           Credential!ReadEnd
  <2> QED
    BY <1>0, <1>1, <2>1 DEF Credential!ReceiverTypes
<1>3. CASE Credential!Accept
  <2>1. /\ r2 = "listening" /\ r11' # "ok"
        /\ r2' = "accepted" \/ (r2' = "done" /\ r3' = FALSE)
    BY <1>1, <1>3 DEF Credential!Accept, Credential!Finish
  <2>2. r8 = 0 /\ r9 = << >> /\ r10 = << >>
    BY <1>0, <2>1 DEF Credential!ReadIsPrefix
  <2>3. Credential!ReadIsPrefix'
    BY <1>1, <2>1, <2>2 DEF Credential!ReadIsPrefix, Credential!Reading
  <2> QED
    BY <1>2, <2>1, <2>3 DEF Credential!FrameKept, Credential!OneShot, Credential!Reading,
                            Credential!DeliveredExactly
<1>5. CASE Credential!Unlink
  <2>1. /\ r2 = "accepted" /\ r3' = FALSE /\ r11' # "ok" /\ r5' = r5
        /\ r2' = "done" \/ (r2' = "length" /\ r5 \in Peers)
    BY <1>1, <1>5 DEF Credential!Unlink, Credential!Finish, Credential!stream
  <2>2. r8 = 0 /\ r9 = << >> /\ r10 = << >>
    BY <1>0, <2>1 DEF Credential!ReadIsPrefix
  <2>3. ASSUME r5' \in Peers PROVE 0 <= Len(r6[r5']) /\ SubSeq(r6[r5'], 1, 0) = << >>
    <3>1. r6[r5'] \in Seq(Credential!Symbols)
      BY <1>0, <2>3, ReceiverParameters DEF Credential!ReceiverTypes
    <3> QED
      BY <3>1, SubSeqEmpty
  <2>4. Credential!ReadIsPrefix'
    BY <1>1, <2>1, <2>2, <2>3
       DEF Credential!ReadIsPrefix, Credential!Reading, Credential!FrameSoFar
  <2> QED
    BY <1>2, <2>1, <2>4 DEF Credential!FrameKept, Credential!OneShot,
                            Credential!DeliveredExactly
<1>4. CASE Credential!Elapse \/ Credential!ReadEnd
  <2>1. r2' = "done" /\ r3' = FALSE /\ r5' = r5
    BY <1>4 DEF Credential!Elapse, Credential!ReadEnd, Credential!Finish, Credential!stream
  <2>2. Credential!ReadIsPrefix' /\ Credential!OneShot'
    BY <2>1 DEF Credential!ReadIsPrefix, Credential!OneShot, Credential!Reading
  <2>3. ASSUME r11' = "ok" PROVE Credential!DeliveredExactly'
    <3>1. r2 = "end" /\ r5 \in r7 /\ ~(r8 < Len(r6[r5]))
      BY <1>1, <1>4, <2>3 DEF Credential!Elapse, Credential!ReadEnd, Credential!Finish,
                              Credential!Ended, Credential!Available
    <3>2. /\ r5 \in Peers /\ r8 <= Len(r6[r5])
          /\ SubSeq(r6[r5], 1, r8) = r9 \o <<":">> \o r10 \o <<",">>
          /\ Credential!DeclaredLength # 0 /\ ~(Credential!DeclaredLength > MaxBytes)
          /\ Len(r9) > 1 => r9[1] # "0"
          /\ Len(r10) = Credential!DeclaredLength
      BY <1>0, <3>1 DEF Credential!ReadIsPrefix, Credential!Reading, Credential!FrameSoFar
    <3>3. /\ r6[r5] \in Seq(Credential!Symbols) /\ r8 \in Nat
          /\ r10 \in Seq(Credential!Symbols)
      BY <1>0, <3>2, ReceiverParameters DEF Credential!ReceiverTypes
    <3>4. r8 = Len(r6[r5]) /\ SubSeq(r6[r5], 1, Len(r6[r5])) = r6[r5]
      <4> DEFINE n == Len(r6[r5])
      <4>1. n \in Nat /\ r8 \in Nat /\ r8 <= n /\ ~(r8 < n)
        BY <3>1, <3>2, <3>3, LenProperties
      <4> HIDE DEF n
      <4>2. r8 = n
        BY <4>1
      <4>3. SubSeq(r6[r5], 1, Len(r6[r5])) = r6[r5]
        BY <3>3, SubSeqFull
      <4> QED
        BY <4>2, <4>3 DEF n
    <3>5. Len(r10) \in 1..MaxBytes
      <4>1. Len(r10) \in Nat /\ MaxBytes \in Nat
        BY <3>3, LenProperties, ReceiverParameters
      <4>2. Len(r10) # 0 /\ ~(Len(r10) > MaxBytes)
        BY <3>2
      <4> QED
        BY <4>1, <4>2
    <3> QED
      BY <1>1, <2>1, <3>1, <3>2, <3>4, <3>5 DEF Credential!DeliveredExactly
  <2> QED
    BY <1>2, <2>1, <2>2, <2>3 DEF Credential!FrameKept, Credential!DeliveredExactly
<1> QED
  BY <1>3, <1>4, <1>5

(* So every step keeps what was read a prefix of what was sent.             *)
LEMMA ReceiverStep == Credential!FrameKept /\ Credential!Next => Credential!FrameKept'
BY ReceiverReads, ReceiverClients, ReceiverTurns DEF Credential!Next, Credential!Receiver

(* What a caller is handed is whole and its own, for every bound on bytes,  *)
(* digits, deadlines and frames: a credential only when the one accepted    *)
(* client wrote exactly its canonical netstring and closed, and no byte of  *)
(* it before its name was gone, whoever connected or removed it between the *)
(* accept and the unlink (credential.rs, receive), a result only one given  *)
(* under the call's own id (json_rpc_child.rs), and a program's output only *)
(* complete (subprocess.rs).                                                *)
THEOREM WholeAnswersOnlyHolds == ServicesSpec => []WholeAnswersOnly
<1> DEFINE Inv == /\ machine = "credential" => Credential!FrameKept
                  /\ machine = "rpc" => Rpc!ChildInHand
                  /\ machine = "command" => Command!OutputsEnd
<1>1. ServicesInit => Inv
  BY ReceiverStarts, ChildStarts, CommandStarts DEF ServicesInit, Starts
<1>2. Inv /\ [ServicesNext]_all => Inv'
  <2> SUFFICES ASSUME Inv, [ServicesNext]_all PROVE Inv'
    OBVIOUS
  <2>1. CASE UNCHANGED all
    <3>1. UNCHANGED registers /\ machine' = machine
      BY <2>1 DEF all
    <3>2. Credential!FrameKept => Credential!FrameKept'
      BY <3>1 DEF registers, Credential!FrameKept, Credential!ReceiverTypes,
                  Credential!ReadIsPrefix, Credential!FrameSoFar, Credential!DeclaredLength,
                  Credential!DeliveredExactly, Credential!OneShot
    <3>3. Rpc!ChildInHand => Rpc!ChildInHand'
      BY <3>1 DEF registers, Rpc!ChildInHand, Rpc!TypeOK, Rpc!GroupInHand,
                  Rpc!ResultsAreAnswers, Rpc!AnswersItsRequest
    <3>4. Command!OutputsEnd => Command!OutputsEnd'
      BY <3>1 DEF registers, Command!OutputsEnd, Command!NoOrphans
    <3> QED
      BY <3>1, <3>2, <3>3, <3>4
  <2>2. CASE machine = "credential" /\ Credential!Next
    BY <2>2, MachineIsFixed, ReceiverStep
  <2>3. CASE machine = "rpc" /\ Rpc!Next
    BY <2>3, MachineIsFixed, ChildStep
  <2>4. CASE machine = "command" /\ Command!Next
    BY <2>4, MachineIsFixed, CommandStep
  <2>5. CASE machine \notin {"credential", "rpc", "command"}
    BY <2>5, MachineIsFixed
  <2> QED
    BY <2>1, <2>2, <2>3, <2>4, <2>5 DEF ServicesNext, Runs
<1>3. Inv => WholeAnswersOnly
  <2>1. Credential!FrameKept => Credential!DeliveredExactly /\ Credential!OneShot
    BY DEF Credential!FrameKept
  <2>2. Rpc!ChildInHand => Rpc!AnswersItsRequest
    BY DEF Rpc!ChildInHand
  <2>3. Command!OutputsEnd => Command!CompleteOutput
    <3> SUFFICES ASSUME Command!OutputsEnd, r2 = "Ok"
                 PROVE  r8 = "success" /\ r3 = r10 /\ ~r9
      BY DEF Command!CompleteOutput
    <3>1. /\ r5 = "success" /\ r5 = r8 /\ r4 = Command!Streams /\ r4 # {} /\ ~r9
          /\ \A s \in Command!Streams : r3[s] = r10[s]
      BY DEF Command!OutputsEnd, Command!Streams
    <3>2. r3 \in [Command!Streams -> 0..MaxOutput] /\ r10 \in [Command!Streams -> Nat]
      BY DEF Command!OutputsEnd
    <3> QED
      BY <3>1, <3>2
  <2> QED
    BY <2>1, <2>2, <2>3 DEF WholeAnswersOnly
<1> QED
  BY <1>1, <1>2, <1>3, PTL DEF ServicesSpec

================================================================================
