-------------------------------- MODULE Subprocess --------------------------------
(****************************************************************************)
(* SubprocessRequest::run (providers/subprocess.rs): a program is run to    *)
(* its end with both outputs read, bounded in size and time, and its        *)
(* process group ended on every other way out. A descendant may outlive the *)
(* program and hold its pipes.                                              *)
(****************************************************************************)
EXTENDS Naturals

CONSTANTS MaxOutput, MaxWritten, RunTimeout

SubprocessAssumption ==
    MaxOutput \in Nat /\ MaxWritten \in Nat /\ RunTimeout \in Nat

Streams == {"out", "err"}

VARIABLES
    phase,    \* "running", "grace", "killed", "returned"
    result,   \* what run returns
    read,     \* per stream, bytes read
    done,     \* the streams whose reader has its result
    status,   \* the exit status the wait returned, "none" before
    clock, cancelled,
    leader,   \* "running", "success", "failure": the program
    holder,   \* a descendant in the group is running and holds the pipes
    wrote     \* per stream, bytes written by either

vars == <<phase, result, read, done, status, clock, cancelled, leader, holder, wrote>>
program == <<leader, holder, wrote>>

Init ==
    /\ phase = "running" /\ result = "none" /\ read = [s \in Streams |-> 0] /\ done = {}
    /\ status = "none" /\ clock = 0 /\ cancelled = FALSE
    /\ leader = "running" /\ holder = FALSE /\ wrote = [s \in Streams |-> 0]

WriteOut ==
    /\ leader = "running" \/ holder
    /\ \E s \in Streams : wrote[s] < MaxWritten /\ wrote' = [wrote EXCEPT ![s] = @ + 1]
    /\ UNCHANGED <<phase, result, read, done, status, clock, cancelled, leader, holder>>
Fork ==
    /\ leader = "running" /\ ~holder /\ holder' = TRUE
    /\ UNCHANGED <<phase, result, read, done, status, clock, cancelled, leader, wrote>>
Exit ==
    /\ \/ leader = "running" /\ leader' \in {"success", "failure"} /\ UNCHANGED holder
       \/ holder /\ holder' = FALSE /\ UNCHANGED leader
    /\ UNCHANGED <<phase, result, read, done, status, clock, cancelled, wrote>>
Cancel ==
    /\ ~cancelled /\ phase = "running" /\ cancelled' = TRUE
    /\ UNCHANGED <<phase, result, read, done, status, clock, program>>
Tick ==
    /\ phase = "running" /\ clock < RunTimeout /\ clock' = clock + 1
    /\ UNCHANGED <<phase, result, read, done, status, cancelled, program>>

Terminate(why) == phase' = "grace" /\ result' = why

(* The first two arms of the biased select.                                 *)
Interrupted ==
    /\ phase = "running"
    /\ \/ cancelled /\ Terminate("Cancelled")
       \/ ~cancelled /\ clock = RunTimeout /\ Terminate("Timeout")
    /\ UNCHANGED <<read, done, status, clock, cancelled, program>>

Awaiting == phase = "running" /\ ~cancelled /\ clock < RunTimeout

(* read_bounded: bytes that fit are kept, one more ends the program.        *)
Read ==
    /\ Awaiting
    /\ \E s \in Streams \ done :
         /\ read[s] < wrote[s]
         /\ IF read[s] < MaxOutput
            THEN read' = [read EXCEPT ![s] = @ + 1] /\ UNCHANGED <<phase, result>>
            ELSE Terminate(s) /\ UNCHANGED read
    /\ UNCHANGED <<done, status, clock, cancelled, program>>

(* read_bounded at the end of the stream: every holder has closed it.       *)
ReadEnd ==
    /\ Awaiting
    /\ \E s \in Streams \ done :
         read[s] = wrote[s] /\ leader # "running" /\ ~holder /\ done' = done \cup {s}
    /\ UNCHANGED <<phase, result, read, status, clock, cancelled, program>>

(* child.wait().                                                            *)
Wait ==
    /\ Awaiting /\ status = "none" /\ leader # "running" /\ status' = leader
    /\ UNCHANGED <<phase, result, read, done, clock, cancelled, program>>

(* All three have completed: the guard is disarmed and finish looks at the  *)
(* status.                                                                  *)
Finish ==
    /\ phase = "running" /\ done = Streams /\ status # "none"
    /\ phase' = "returned" /\ result' = IF status = "success" THEN "Ok" ELSE "NonZero"
    /\ UNCHANGED <<read, done, status, clock, cancelled, program>>

\* Mutant: the descendant is not signalled.
TerminateLeader ==
    /\ \/ phase = "grace" /\ phase' = "killed"
       \/ phase = "killed" /\ phase' = "returned"
    /\ leader' = IF leader = "running" THEN "failure" ELSE leader
    /\ UNCHANGED <<result, read, done, status, clock, cancelled, wrote, holder>>

(* terminate: SIGTERM and a grace, then SIGKILL to the group and the reap.  *)
TerminateGroup ==
    /\ \/ /\ phase = "grace" /\ phase' = "killed"
          /\ \E dies, die \in BOOLEAN :
               /\ leader' = IF dies /\ leader = "running" THEN "failure" ELSE leader
               /\ holder' = (holder /\ ~die)
       \/ /\ phase = "killed" /\ phase' = "returned" /\ holder' = FALSE
          /\ leader' = IF leader = "running" THEN "failure" ELSE leader
    /\ UNCHANGED <<result, read, done, status, clock, cancelled, wrote>>

(* ProcessGroupGuard::drop: the wait itself fails, or the caller drops the  *)
(* run between two polls; the group is killed on the way out.               *)
Drop ==
    /\ phase # "returned" /\ phase' = "returned" /\ result' \in {"Wait", "Dropped"}
    /\ leader' = IF leader = "running" THEN "failure" ELSE leader
    /\ holder' = FALSE
    /\ UNCHANGED <<read, done, status, clock, cancelled, wrote>>

Run == Interrupted \/ Read \/ ReadEnd \/ Wait \/ Finish \/ TerminateGroup
Next == WriteOut \/ Fork \/ Exit \/ Cancel \/ Tick \/ Run \/ Drop

Spec == Init /\ [][Next]_vars
FairSpec == Spec /\ WF_vars(Tick) /\ WF_vars(Run)

(* Every variable keeps its shape, and no output outgrows its bound.        *)
TypeOK ==
    /\ phase \in {"running", "grace", "killed", "returned"}
    /\ read \in [Streams -> 0..MaxOutput] /\ done \subseteq Streams
    /\ result \in {"none", "Ok", "NonZero", "Cancelled", "Timeout", "Wait", "Dropped"} \cup Streams

(* run's Ok: the program succeeded, and what is returned is everything that *)
(* was ever written to the pipes, by it or by a descendant.                 *)
CompleteOutput ==
    phase = "returned" /\ result = "Ok" => leader = "success" /\ read = wrote /\ ~holder

(* No way out of run leaves the program, or a descendant that holds its     *)
(* pipes, running.                                                          *)
NoOrphans == phase = "returned" => leader # "running" /\ ~holder

(* The inductive invariant. The end of a stream and an exit status are      *)
(* final: once a reader has seen the end nobody is left to write, and what  *)
(* the wait returned is how the program ended.                              *)
OutputsEnd ==
    /\ phase \in {"running", "grace", "killed", "returned"} /\ done \subseteq Streams
    /\ read \in [Streams -> 0..MaxOutput] /\ wrote \in [Streams -> Nat]
    /\ done # {} => leader # "running" /\ ~holder
    /\ \A s \in done : read[s] = wrote[s]
    /\ status # "none" => status = leader /\ leader # "running"
    /\ result = "Ok" => phase = "returned" /\ status = "success" /\ done = Streams
    /\ NoOrphans

=============================================================================
