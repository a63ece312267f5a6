------------------------------- MODULE KiroReaper -------------------------------
(****************************************************************************)
(* The process supervision of the Kiro adapter (providers/kiro.rs): every   *)
(* kiro-cli it starts has a cleanup guard that owns the process group, the  *)
(* holders of its pipes and the descendants it remembers. The guard is      *)
(* disarmed only by a scan that proves nothing is left; what cannot be      *)
(* proved in time, or is dropped, is handed to a reaper thread that keeps   *)
(* killing. Slots bound what is outstanding. A job is one command: its root *)
(* and one descendant; either may close the pipes, the descendant may leave *)
(* the group. A spawn can fail, the root's identity can be unreadable, and  *)
(* no signal is sure to arrive before its deadline.                         *)
(****************************************************************************)
EXTENDS Naturals, Sequences, FiniteSets

CONSTANTS
    Jobs,
    MaxSlots   \* MAX_REAPER_RESPONSIBILITIES, also the channel's capacity

ReaperAssumption == IsFiniteSet(Jobs) /\ MaxSlots \in Nat

VARIABLES
    root, child,     \* "unborn", "alive" or "dead"
    grouped, holds,  \* the descendant is in the group, holds a pipe
    known,           \* it is in known_descendants
    blurred,         \* group_scan_indeterminate
    guard,           \* who is responsible
    step,            \* where its owner is
    fdsClean,        \* the scan in progress found no holder
    slots, queue,    \* ACTIVE_REAPER_RESPONSIBILITIES, the reaper's channel
    open, rooted     \* the root holds a pipe; its identity was read

vars == <<root, child, grouped, holds, known, blurred, guard, step, fdsClean, slots, queue,
          open, rooted>>
procs == <<root, child, grouped, holds, open>>

Init ==
    /\ root = [j \in Jobs |-> "unborn"] /\ child = [j \in Jobs |-> "unborn"]
    /\ grouped = [j \in Jobs |-> FALSE] /\ holds = [j \in Jobs |-> FALSE]
    /\ known = [j \in Jobs |-> FALSE] /\ blurred = [j \in Jobs |-> FALSE]
    /\ guard = [j \in Jobs |-> "none"] /\ step = [j \in Jobs |-> "idle"]
    /\ fdsClean = [j \in Jobs |-> FALSE] /\ slots = 0 /\ queue = <<>>
    /\ open = [j \in Jobs |-> FALSE] /\ rooted = [j \in Jobs |-> FALSE]

Armed(j) == guard[j] \in {"reserved", "caller", "queued", "reaper"}

(* ReaperSlot::reserve: without a slot the command is unavailable.          *)
Reserve(j) ==
    /\ step[j] = "idle"
    /\ IF slots < MaxSlots
       THEN /\ slots' = slots + 1 /\ guard' = [guard EXCEPT ![j] = "reserved"]
            /\ step' = [step EXCEPT ![j] = "spawn"]
       ELSE step' = [step EXCEPT ![j] = "refused"] /\ UNCHANGED <<slots, guard>>
    /\ UNCHANGED <<procs, known, blurred, fdsClean, queue, rooted>>

(* spawn_pipe_process, spawn_pty_process: the process and its guard, whose  *)
(* root is None if /proc could not be read; a spawn that fails drops its    *)
(* slot again.                                                              *)
Spawn(j) ==
    /\ step[j] = "spawn"
    /\ \/ /\ \E r \in BOOLEAN : rooted' = [rooted EXCEPT ![j] = r]
          /\ root' = [root EXCEPT ![j] = "alive"] /\ open' = [open EXCEPT ![j] = TRUE]
          /\ guard' = [guard EXCEPT ![j] = "caller"] /\ step' = [step EXCEPT ![j] = "run"]
          /\ UNCHANGED slots
       \/ /\ slots' = slots - 1 /\ guard' = [guard EXCEPT ![j] = "none"]
          /\ step' = [step EXCEPT ![j] = "refused"] /\ UNCHANGED <<root, open, rooted>>
    /\ UNCHANGED <<child, grouped, holds, known, blurred, fdsClean, queue>>

(* The processes, which do as they like.                                    *)
Fork(j) ==
    /\ root[j] = "alive" /\ child[j] = "unborn"
    /\ child' = [child EXCEPT ![j] = "alive"]
    /\ grouped' = [grouped EXCEPT ![j] = TRUE] /\ holds' = [holds EXCEPT ![j] = open[j]]
    /\ UNCHANGED <<root, known, blurred, guard, step, fdsClean, slots, queue, open, rooted>>
Detach(j) ==
    /\ \/ /\ child[j] = "alive" /\ grouped' = [grouped EXCEPT ![j] = FALSE]
          /\ UNCHANGED <<holds, open>>
       \/ /\ child[j] = "alive" /\ holds' = [holds EXCEPT ![j] = FALSE]
          /\ UNCHANGED <<grouped, open>>
       \/ /\ root[j] = "alive" /\ open' = [open EXCEPT ![j] = FALSE]
          /\ UNCHANGED <<grouped, holds>>
    /\ UNCHANGED <<root, child, known, blurred, guard, step, fdsClean, slots, queue, rooted>>
Exit(j) ==
    /\ \/ root[j] = "alive" /\ root' = [root EXCEPT ![j] = "dead"] /\ UNCHANGED child
       \/ child[j] = "alive" /\ child' = [child EXCEPT ![j] = "dead"] /\ UNCHANGED root
    /\ UNCHANGED <<grouped, holds, known, blurred, guard, step, fdsClean, slots, queue,
                   open, rooted>>

(* capture_group_members: a census of the group, only while the verified    *)
(* root leads it. A partial one finds what it finds; one that had to be     *)
(* complete, or has no root to start from, is remembered as indeterminate.  *)
Member(j) == rooted[j] /\ root[j] = "alive" /\ child[j] = "alive" /\ grouped[j]
Census(j, complete, required) ==
    /\ \E found \in BOOLEAN :
         known' = [known EXCEPT ![j] = @ \/ (Member(j) /\ (complete \/ found))]
    /\ blurred' = [blurred EXCEPT ![j] =
                     @ \/ ~rooted[j] \/ (root[j] = "alive" /\ required /\ ~complete)]

(* capture_group_after_read.                                                *)
Read(j) ==
    /\ step[j] = "run" /\ guard[j] = "caller" /\ \E c \in BOOLEAN : Census(j, c, FALSE)
    /\ UNCHANGED <<procs, guard, step, fdsClean, slots, queue, rooted>>

(* cleanup_process: the command ended, idled, timed out or was cancelled.   *)
(* A root that has exited is scanned first; else SIGTERM, with a census if  *)
(* there is a root to start from, and a grace.                              *)
Cleanup(j) ==
    /\ step[j] = "run" /\ guard[j] = "caller"
    /\ IF root[j] = "dead"
       THEN step' = [step EXCEPT ![j] = "scan"] /\ UNCHANGED <<known, blurred>>
       ELSE /\ step' = [step EXCEPT ![j] = "kill"]
            /\ IF rooted[j] THEN \E c \in BOOLEAN : Census(j, c, TRUE)
                            ELSE UNCHANGED <<known, blurred>>
    /\ UNCHANGED <<procs, guard, fdsClean, slots, queue, rooted>>

(* signal_all with SIGKILL: a census, then the group of a live root, the    *)
(* holders of a pipe and the remembered identities. What was seen is        *)
(* signalled unless the deadline comes first.                               *)
Strike(j) ==
    /\ IF rooted[j] THEN \E c \in BOOLEAN : Census(j, c, TRUE) ELSE UNCHANGED <<known, blurred>>
    /\ \/ /\ root[j] = "alive" /\ (rooted[j] \/ open[j])
          /\ root' = [root EXCEPT ![j] = "dead"]
       \/ UNCHANGED root
    /\ \/ /\ child[j] = "alive"
          /\ Member(j) \/ holds[j] \/ known'[j]
          /\ child' = [child EXCEPT ![j] = "dead"]
       \/ UNCHANGED child
    /\ UNCHANGED <<grouped, holds, open, rooted>>

(* The kill loop of cleanup_process and of cleanup_reaper_loop.             *)
Kill(j) ==
    /\ step[j] = "kill" /\ guard[j] \in {"caller", "reaper"}
    /\ Strike(j)
    /\ step' = [step EXCEPT ![j] = "scan"]
    /\ UNCHANGED <<guard, fdsClean, slots, queue>>

(* scan_fd_holders: proved only by a complete scan of /proc.                *)
Holder(j) == (child[j] = "alive" /\ holds[j]) \/ (root[j] = "alive" /\ open[j])
HoldersGone(j, complete) == complete /\ ~Holder(j)

(* scan_owned, first half: the census and the holders of the pipes.         *)
ScanHolders(j, complete) ==
    /\ step[j] = "scan" /\ guard[j] \in {"caller", "reaper"}
    /\ Census(j, complete, TRUE)
    /\ fdsClean' = [fdsClean EXCEPT ![j] = HoldersGone(j, complete)]
    /\ step' = [step EXCEPT ![j] = "known"]
    /\ UNCHANGED <<procs, guard, slots, queue, rooted>>

(* scan_known_descendants.                                                  *)
KnownGone(j) ==
    /\ ~blurred[j]
    /\ ~(rooted[j] /\ root[j] = "alive") /\ ~(known[j] /\ child[j] = "alive")

(* proved_clean disarms the guard and frees its slot; else the owner goes   *)
(* on, and the caller gives up at its deadline.                             *)
ScanKnown(j) ==
    /\ step[j] = "known" /\ guard[j] \in {"caller", "reaper"}
    /\ IF fdsClean[j] /\ KnownGone(j)
       THEN /\ guard' = [guard EXCEPT ![j] = "clean"] /\ slots' = slots - 1
            /\ step' = [step EXCEPT ![j] = "done"]
       ELSE /\ step' = [step EXCEPT ![j] = "kill"] /\ UNCHANGED <<guard, slots>>
    /\ UNCHANGED <<procs, known, blurred, fdsClean, queue, rooted>>

(* handoff_to_reaper: the slot goes along. A full channel would lose the    *)
(* guard with its slot.                                                     *)
SendToReaper(j) ==
    /\ IF Len(queue) < MaxSlots
       THEN /\ guard' = [guard EXCEPT ![j] = "queued"] /\ queue' = Append(queue, j)
            /\ step' = [step EXCEPT ![j] = "kill"] /\ UNCHANGED slots
       ELSE /\ guard' = [guard EXCEPT ![j] = "lost"] /\ slots' = slots - 1
            /\ step' = [step EXCEPT ![j] = "done"] /\ UNCHANGED queue
    /\ UNCHANGED fdsClean

(* The deadline of cleanup_process.                                         *)
Handoff(j) ==
    /\ guard[j] = "caller" /\ step[j] \in {"kill", "scan"} /\ SendToReaper(j)
    /\ UNCHANGED <<procs, known, blurred, rooted>>

(* Drop for ProcCleanupGuard, where its future is dropped: SIGKILL first.   *)
Drop(j) ==
    /\ guard[j] = "caller" /\ step[j] \in {"run", "kill", "scan"} /\ Strike(j) /\ SendToReaper(j)

(* cleanup_reaper_loop: every queued responsibility is taken.               *)
Receive ==
    /\ queue # <<>>
    /\ guard' = [guard EXCEPT ![Head(queue)] = "reaper"] /\ queue' = Tail(queue)
    /\ UNCHANGED <<procs, known, blurred, step, fdsClean, slots, rooted>>

Processes(j) == Fork(j) \/ Detach(j) \/ Exit(j)
ScanComplete(j) == ScanHolders(j, TRUE)
ScanPartial(j) == ScanHolders(j, FALSE)

Next ==
    \/ \E j \in Jobs : \/ Reserve(j) \/ Spawn(j) \/ Processes(j) \/ Read(j) \/ Cleanup(j)
                       \/ Kill(j) \/ ScanComplete(j) \/ ScanPartial(j) \/ ScanKnown(j)
                       \/ Handoff(j) \/ Drop(j)
    \/ Receive

Spec == Init /\ [][Next]_vars
(* The reaper thread runs, commands are awaited or dropped, and a scan of   *)
(* /proc completes and a signal arrives if it is tried again and again.     *)
FairSpec ==
    /\ Spec /\ WF_vars(Receive)
    /\ \A j \in Jobs : /\ WF_vars(Spawn(j)) /\ WF_vars(Cleanup(j)) /\ WF_vars(ScanKnown(j))
                       /\ WF_vars(Kill(j)) /\ SF_vars(ScanComplete(j))
                       /\ SF_vars(Kill(j) /\ root'[j] # "alive")
                       /\ SF_vars(Kill(j) /\ child'[j] # "alive")

(* Every variable keeps its shape.                                          *)
TypeOK ==
    /\ root \in [Jobs -> {"unborn", "alive", "dead"}]
    /\ child \in [Jobs -> {"unborn", "alive", "dead"}]
    /\ grouped \in [Jobs -> BOOLEAN] /\ holds \in [Jobs -> BOOLEAN]
    /\ known \in [Jobs -> BOOLEAN] /\ blurred \in [Jobs -> BOOLEAN]
    /\ guard \in [Jobs -> {"none", "reserved", "caller", "queued", "reaper", "clean", "lost"}]
    /\ step \in [Jobs -> {"idle", "spawn", "refused", "run", "kill", "scan", "known", "done"}]
    /\ fdsClean \in [Jobs -> BOOLEAN] /\ queue \in Seq(Jobs) /\ slots \in Nat
    /\ open \in [Jobs -> BOOLEAN] /\ rooted \in [Jobs -> BOOLEAN]

(* Outstanding responsibilities are the slots taken, and never more than    *)
(* the limit, so a supervisor that cannot prove its work done makes later   *)
(* commands unavailable (ReaperSlot).                                       *)
SlotsCountGuards ==
    /\ slots = Cardinality({j \in Jobs : Armed(j)})
    /\ slots <= MaxSlots /\ Len(queue) <= MaxSlots

(* No guard is ever lost to a full channel: whatever is dropped, and when,  *)
(* the reaper gets it (handoff_to_reaper).                                  *)
NothingLost == \A j \in Jobs : guard[j] # "lost"

(* A disarmed guard leaves no process behind that it could have known: the  *)
(* root is gone, and so is a descendant that holds a pipe or was counted    *)
(* in the group (proved_clean).                                             *)
CleanMeansGone ==
    \A j \in Jobs : guard[j] = "clean" =>
        root[j] = "dead" /\ ~(child[j] = "alive" /\ (holds[j] \/ known[j]))

(****************************************************************************)
(* The inductive invariant behind the supervision.                          *)
(****************************************************************************)
Held == {j \in Jobs : Armed(j)}
Queued == {j \in Jobs : guard[j] = "queued"}

(* The channel holds each queued responsibility once.                       *)
QueueIsGuards ==
    /\ \A k \in 1..Len(queue) : guard[queue[k]] = "queued"
    /\ \A k, m \in 1..Len(queue) : queue[k] = queue[m] => k = m
    /\ Len(queue) = Cardinality(Queued)

(* A command is watched from its start; a pipe that no scan found held is   *)
(* held by nobody later; a root that cannot be verified is never proved     *)
(* gone.                                                                    *)
ScansAreFinal ==
    \A j \in Jobs :
        /\ guard[j] = "none" <=> step[j] \in {"idle", "refused"}
        /\ guard[j] = "reserved" <=> step[j] = "spawn"
        /\ guard[j] = "clean" => step[j] = "done"
        /\ root[j] = "unborn" <=> guard[j] \in {"none", "reserved"}
        /\ root[j] = "unborn" => child[j] = "unborn" /\ ~known[j]
        /\ step[j] = "known" /\ fdsClean[j] => ~Holder(j)
        /\ step[j] = "known" /\ ~rooted[j] => blurred[j]

Supervised ==
    /\ TypeOK /\ SlotsCountGuards /\ NothingLost /\ QueueIsGuards /\ ScansAreFinal
    /\ CleanMeansGone

=============================================================================
