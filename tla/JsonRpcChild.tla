------------------------------- MODULE JsonRpcChild -------------------------------
(****************************************************************************)
(* A provider's own program spoken to over JSON-RPC lines on its standard   *)
(* streams (providers/json_rpc_child.rs): numbered requests, notifications, *)
(* frames of other traffic skipped, a task that drains standard error, and  *)
(* the child's process group ended on every failure, shutdown or drop.      *)
(* The child and what it starts are the environment.                        *)
(****************************************************************************)
EXTENDS Naturals, Sequences

CONSTANTS
    MaxRequests,   \* requests made of one child
    MaxSkipped,    \* MAX_SKIPPED_FRAMES
    MaxPipe,       \* frames the pipe holds
    MaxStderr      \* max_stderr_bytes

JsonRpcAssumption ==
    {MaxRequests, MaxSkipped, MaxPipe, MaxStderr} \subseteq Nat \ {0}

(* What the child can write on one line; id 0 is a frame without an id.     *)
Frames == [kind : {"result", "error", "undecodable"}, id : 0..MaxRequests]
              \cup [kind : {"blank", "notjson", "toolong"}, id : {0}]

VARIABLES
    phase,     \* "idle", "writing", "reading", "stopping", "grace", "reaping"
    op,        \* the operation under way: "request", "notify", "shutdown"
    next,      \* next_id
    skipped,
    late,      \* the operation's deadline has passed
    cancelled,
    open,      \* stdin and stdout are still held
    last,      \* what the last operation returned
    pipe,      \* the child's frames not read yet
    leader,    \* the child: "running", "exited", "reaped"
    others,    \* a process it started in its group is running
    stderr,    \* bytes drained from standard error
    drain,     \* the drain task: "running", "failed", "aborted"
    answered   \* the ids the child has answered (what it really did)

vars == <<phase, op, next, skipped, late, cancelled, open, last, pipe, leader,
          others, stderr, drain, answered>>
child == <<pipe, leader, others, answered>>
client == <<phase, op, next, skipped, late, open, last>>

(* JsonRpcChildRequest::spawn.                                              *)
Init ==
    /\ phase = "idle" /\ op = "none" /\ next = 1 /\ skipped = 0 /\ late = FALSE
    /\ cancelled = FALSE /\ open = TRUE /\ last = [got |-> "none", id |-> 0, from |-> 0]
    /\ pipe = <<>> /\ leader = "running" /\ others = FALSE
    /\ stderr = 0 /\ drain = "running" /\ answered = {}

(* The child: it may write anything, whenever it likes, an answer to an     *)
(* earlier request again or to one not made yet included, start a process,  *)
(* or exit.                                                                 *)
Emit ==
    /\ leader = "running" /\ open /\ Len(pipe) < MaxPipe
    /\ \E f \in Frames :
         /\ pipe' = Append(pipe, f)
         /\ answered' = IF f.kind = "result" THEN answered \cup {f.id} ELSE answered
    /\ UNCHANGED <<client, cancelled, leader, others, stderr, drain>>
Fork ==
    /\ leader = "running" /\ ~others /\ others' = TRUE
    /\ UNCHANGED <<client, cancelled, pipe, leader, stderr, drain, answered>>
Exit ==
    /\ leader = "running" /\ leader' = "exited"
    /\ UNCHANGED <<client, cancelled, pipe, others, stderr, drain, answered>>
Cancel ==
    /\ ~cancelled /\ cancelled' = TRUE
    /\ UNCHANGED <<client, child, stderr, drain>>
(* The operation's deadline passes.                                         *)
Elapse ==
    /\ phase \in {"writing", "reading"} /\ ~late /\ late' = TRUE
    /\ UNCHANGED <<phase, op, next, skipped, open, last, cancelled, child, stderr, drain>>

(* drain_stderr: bytes within the limit are counted and dropped; one more,  *)
(* or a read error, kills the group and is reported.                        *)
Drain ==
    /\ drain = "running" /\ leader = "running"
    /\ IF stderr < MaxStderr
       THEN stderr' = stderr + 1 /\ UNCHANGED <<drain, leader, others>>
       ELSE drain' = "failed" /\ leader' = "exited" /\ others' = FALSE /\ UNCHANGED stderr
    /\ UNCHANGED <<client, cancelled, pipe, answered>>

(* request: the next id is taken before anything is written.                *)
Request ==
    /\ phase = "idle" /\ next <= MaxRequests
    /\ phase' = "writing" /\ op' = "request" /\ next' = next + 1
    /\ skipped' = 0 /\ late' = FALSE
    /\ UNCHANGED <<open, last, cancelled, child, stderr, drain>>
Notify ==
    /\ phase = "idle" /\ open
    /\ phase' = "writing" /\ op' = "notify" /\ late' = FALSE
    /\ UNCHANGED <<next, skipped, open, last, cancelled, child, stderr, drain>>
Shutdown ==
    /\ phase = "idle" /\ open /\ phase' = "stopping" /\ op' = "shutdown"
    /\ UNCHANGED <<next, skipped, late, open, last, cancelled, child, stderr, drain>>

Return(got, from) == last' = [got |-> got, id |-> IF op = "request" THEN next - 1 ELSE 0, from |-> from]

(* fail: every error of an operation ends the child first.                  *)
Fail(why) == Return(why, 0) /\ phase' = IF open THEN "stopping" ELSE "idle"

(* The biased select of write_frame and read_frame: cancellation, then the  *)
(* drain's failure, then the stream against the deadline.                   *)
Interruption ==
    IF cancelled THEN "Cancelled" ELSE IF drain = "failed" THEN "Stderr" ELSE "none"

(* write_frame: the pipe takes the frame, is found closed, or stays full    *)
(* until the deadline.                                                      *)
Write ==
    /\ phase = "writing"
    /\ \/ ~open /\ Fail("StdinClosed")
       \/ open /\ Interruption # "none" /\ Fail(Interruption)
       \/ open /\ Interruption = "none" /\ late /\ Fail("Timeout")
       \/ /\ open /\ Interruption = "none" /\ leader # "running" /\ Fail("StdinClosed")
       \/ /\ open /\ Interruption = "none" /\ leader = "running"
          /\ IF op = "request" THEN phase' = "reading" /\ UNCHANGED last
             ELSE phase' = "idle" /\ Return("Ok", 0)
    /\ UNCHANGED <<op, next, skipped, late, open, cancelled, child, stderr, drain>>

\* Mutant: the deadline covers the writing only.
ReadFailsUntimed ==
    /\ phase = "reading"
    /\ \/ Interruption # "none" /\ Fail(Interruption)
       \/ /\ Interruption = "none" /\ pipe = <<>> /\ leader # "running" /\ ~others
          /\ Fail("Closed")
    /\ UNCHANGED <<op, next, skipped, late, open, cancelled, child, stderr, drain>>

(* read_frame without a line: interrupted, too late, or at the end of the   *)
(* stream.                                                                  *)
ReadFails ==
    /\ phase = "reading"
    /\ \/ Interruption # "none" /\ Fail(Interruption)
       \/ Interruption = "none" /\ late /\ Fail("Timeout")
       \/ /\ Interruption = "none" /\ pipe = <<>> /\ leader # "running" /\ ~others
          /\ Fail("Closed")
    /\ UNCHANGED <<op, next, skipped, late, open, cancelled, child, stderr, drain>>

\* Mutant: any answer is taken for the one awaited.
MatchesAny(frame) == frame.id > 0

(* response_matches_id.                                                     *)
Matches(frame) == frame.id = next - 1

(* MAX_SKIPPED_FRAMES.                                                      *)
Skip ==
    IF skipped < MaxSkipped THEN skipped' = skipped + 1 /\ UNCHANGED <<phase, last>>
    ELSE Fail("Protocol") /\ UNCHANGED skipped

(* One line is read: a blank or foreign frame is skipped, a broken one ends *)
(* the child, the matching one is the operation's result; an error object   *)
(* of the peer is a result too, and leaves the child in use.                *)
ReadLine ==
    /\ phase = "reading" /\ Interruption = "none" /\ pipe # <<>>
    /\ LET f == Head(pipe) IN
         CASE f.kind \in {"notjson", "toolong"} -> Fail("Protocol") /\ UNCHANGED skipped
           [] f.kind = "blank" \/ (f.kind \notin {"notjson", "toolong"} /\ ~Matches(f)) -> Skip
           [] Matches(f) /\ f.kind = "undecodable" -> Fail("Protocol") /\ UNCHANGED skipped
           [] OTHER -> /\ Return(IF f.kind = "result" THEN "Ok" ELSE "Remote", f.id)
                       /\ phase' = "idle" /\ UNCHANGED skipped
    /\ pipe' = Tail(pipe)
    /\ UNCHANGED <<op, next, late, open, cancelled, leader, others, answered, stderr, drain>>

(* shutdown: the pipes are closed and the group is asked to end; what the   *)
(* processes do about it is theirs.                                         *)
Stop ==
    /\ phase = "stopping" /\ open' = FALSE /\ pipe' = <<>> /\ phase' = "grace"
    /\ \E dies, die \in BOOLEAN :
         /\ leader' = IF dies THEN "exited" ELSE leader
         /\ others' = (others /\ ~die)
    /\ UNCHANGED <<op, next, skipped, late, last, cancelled, answered, stderr, drain>>

(* The grace is over, or the child ended within it: the group is killed.    *)
Kill ==
    /\ phase = "grace" /\ phase' = "reaping" /\ leader' = "exited" /\ others' = FALSE
    /\ UNCHANGED <<op, next, skipped, late, open, last, cancelled, pipe, answered, stderr, drain>>

(* The child is reaped, the guard disarmed and the drain task aborted.      *)
Reap ==
    /\ phase = "reaping" /\ phase' = "idle" /\ leader' = "reaped" /\ drain' = "aborted"
    /\ IF op = "shutdown" THEN Return("Ok", 0) ELSE UNCHANGED last
    /\ UNCHANGED <<op, next, skipped, late, open, cancelled, pipe, others, answered, stderr>>

(* Drop: the owner is dropped between two polls of any operation.           *)
Drop ==
    /\ phase # "dropped" /\ phase' = "dropped" /\ open' = FALSE /\ pipe' = <<>>
    /\ drain' = "aborted"
    /\ leader' = IF leader = "running" THEN "exited" ELSE leader
    /\ others' = FALSE
    /\ UNCHANGED <<op, next, skipped, late, last, cancelled, answered, stderr>>

Client == Request \/ Notify \/ Shutdown \/ Write \/ ReadFails \/ ReadLine \/ Stop \/ Kill \/ Reap
Next == Emit \/ Fork \/ Exit \/ Cancel \/ Elapse \/ Drain \/ Client \/ Drop

Spec == Init /\ [][Next]_vars
(* The operation's future is polled and its timers fire.                    *)
FairSpec ==
    /\ Spec /\ WF_vars(Elapse) /\ WF_vars(Write) /\ WF_vars(ReadFails) /\ WF_vars(ReadLine)
    /\ WF_vars(Stop) /\ WF_vars(Kill) /\ WF_vars(Reap)

(* Every variable keeps its shape; stderr is counted up to its limit only.  *)
TypeOK ==
    /\ phase \in {"idle", "writing", "reading", "stopping", "grace", "reaping", "dropped"}
    /\ op \in {"none", "request", "notify", "shutdown"} /\ next \in 1..MaxRequests + 1
    /\ skipped \in 0..MaxSkipped /\ stderr \in 0..MaxStderr /\ pipe \in Seq(Frames)
    /\ leader \in {"running", "exited", "reaped"} /\ drain \in {"running", "failed", "aborted"}

(* request: a result is one the child gave under this very request's id,    *)
(* whatever duplicates, late answers to earlier requests and answers to     *)
(* later ones lie in the pipe around it. (That it was written after the     *)
(* request is the child's affair: response_matches_id asks for the id only.)*)
AnswersItsRequest ==
    last.got = "Ok" /\ last.id > 0 => last.from = last.id /\ last.id \in answered

(* After a failed operation the child is not spoken to again: nothing it    *)
(* had written, or writes late, reaches a later request.                    *)
NothingAfterFailure ==
    last.got \notin {"none", "Ok", "Remote"} /\ last' # last
          => last'.got \in {"StdinClosed", "Cancelled", "Stderr"}

(* Once an operation has failed, or the owner is gone, no process of the    *)
(* group is left (terminate_child, Drop).                                   *)
NoOrphans ==
    (phase = "idle" /\ ~open) \/ phase = "dropped" => leader # "running" /\ ~others

(* A failure of the drain is what the operation reports, not the closed     *)
(* pipe it caused by killing the group.                                     *)
DrainFailureReported ==
    drain = "failed" /\ phase \in {"writing", "reading"} /\ open /\ last' # last
          => last'.got \in {"Stderr", "Cancelled"}

(****************************************************************************)
(* The inductive invariant.                                                 *)
(****************************************************************************)
(* A child whose pipes were let go of is being killed or is gone, with the  *)
(* whole group.                                                             *)
GroupInHand ==
    /\ phase \in {"reading", "stopping"} => open
    /\ phase \in {"grace", "reaping", "dropped"} => ~open
    /\ ~open /\ phase # "grace" => leader # "running" /\ ~others

(* Only a request reads, and a result in the pipe is one the child gave.    *)
ResultsAreAnswers ==
    /\ phase = "reading" => op = "request"
    /\ \A k \in 1..Len(pipe) : pipe[k].kind = "result" => pipe[k].id \in answered

ChildInHand == TypeOK /\ GroupInHand /\ ResultsAreAnswers /\ AnswersItsRequest

(* And what NothingAfterFailure rests on: only a request or a notification  *)
(* writes, and a child whose operation failed is about to be stopped, or    *)
(* its pipes are gone.                                                      *)
FailureIsFinal ==
    /\ phase \in {"writing", "reading"} => op # "shutdown"
    /\ last.got \notin {"none", "Ok", "Remote"} => op # "shutdown" /\ (phase = "stopping" \/ ~open)

=============================================================================
