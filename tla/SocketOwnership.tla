---------------------------- MODULE SocketOwnership ----------------------------
(****************************************************************************)
(* Who owns the daemon's socket: DisplaySocket::bind and its inode-aware    *)
(* cleanup (ipc/socket.rs), the endpoint lock and the pinned runtime        *)
(* directory (ipc/permissions.rs), and the second start that forwards       *)
(* instead of replacing (app/single_instance.rs). Every system call another *)
(* process can observe is a step; a process may be killed between any two,  *)
(* and the kernel then closes its listener and releases its lock but leaves *)
(* the socket's name behind.                                                *)
(****************************************************************************)
EXTENDS Naturals, FiniteSets

CONSTANTS
    Procs,        \* processes of the same user
    Meddling,     \* what an outside process may do: subset of Tampering
    MaxInodes,    \* bound on sockets ever bound
    MaxStarts,    \* bound on starts
    MaxCrashes,   \* bound on killed processes
    MaxAttempts   \* forward attempts within FORWARD_RETRY_WINDOW

Tampering == {"socket", "dir"}

OwnershipAssumption ==
    /\ Meddling \subseteq Tampering /\ MaxAttempts \in Nat \ {0}
    /\ MaxInodes \in Nat /\ "none" \notin Procs

Inodes == 1..MaxInodes
Dirs == {1, 2}
None == 0

VARIABLES
    cur,       \* the directory the runtime path names now
    name,      \* name[d]: the socket inode named in directory d, or None
    lock,      \* lock[d]: the holders of the flock on d's lock file
    listener,  \* listener[i]: the process listening on inode i, or "none"
    private,   \* the inodes whose mode is 0600
    pc,        \* where each process is
    dir,       \* dir[p]: the directory p pinned
    ident,     \* ident[p]: the socket identity p captured
    bound,     \* bound[p]: the inode p's listener is bound to
    attempts,  \* forward attempts of the current start
    contended, \* another process held the endpoint during p's start
    used, starts, crashes, meddled   \* bounded counters

fs == <<cur, name, lock, listener, private>>
vars == <<cur, name, lock, listener, private, pc, dir, ident, bound, attempts,
          contended, used, starts, crashes, meddled>>
counters == <<used, starts, crashes, meddled>>

Init ==
    /\ cur = 1 /\ name = [d \in Dirs |-> None] /\ lock = [d \in Dirs |-> {}]
    /\ listener = [i \in Inodes |-> "none"] /\ private = {}
    /\ pc = [p \in Procs |-> "off"] /\ dir = [p \in Procs |-> 1]
    /\ ident = [p \in Procs |-> None] /\ bound = [p \in Procs |-> None]
    /\ attempts = [p \in Procs |-> 0] /\ contended = [p \in Procs |-> FALSE]
    /\ used = 0 /\ starts = 0 /\ crashes = 0 /\ meddled = {}

Off == {"off", "failed", "forwarded"}
Here(p) == name[dir[p]]
Goto(p, step) == pc' = [pc EXCEPT ![p] = step]
Keep(p) == UNCHANGED <<dir, attempts, contended, counters>>
Unlinked(d) == name' = [name EXCEPT ![d] = None]
Released(p) == lock' = [lock EXCEPT ![dir[p]] = @ \ {p}]

(* prepare_for_uid: the runtime directory is created, verified and pinned.  *)
(* Everything later goes through that descriptor.                           *)
Prepare(p) ==
    /\ pc[p] \in Off /\ starts < MaxStarts
    /\ starts' = starts + 1
    /\ dir' = [dir EXCEPT ![p] = cur]
    /\ ident' = [ident EXCEPT ![p] = None] /\ bound' = [bound EXCEPT ![p] = None]
    /\ attempts' = [attempts EXCEPT ![p] = 0]
    /\ contended' = [q \in Procs |-> IF q = p THEN \E r \in Procs \ {p} : pc[r] \notin Off
                                     ELSE contended[q] \/ pc[q] \notin Off]
    /\ Goto(p, "locking")
    /\ UNCHANGED <<fs, used, crashes, meddled>>

(* EndpointLock::acquire: a nonblocking exclusive flock; a busy lock means  *)
(* an owner exists and the start forwards.                                  *)
Acquire(p) ==
    /\ pc[p] = "locking"
    /\ IF lock[dir[p]] = {}
       THEN lock' = [lock EXCEPT ![dir[p]] = {p}] /\ Goto(p, "inspecting")
       ELSE UNCHANGED lock /\ Goto(p, "forwarding")
    /\ UNCHANGED <<cur, name, listener, private, ident, bound>> /\ Keep(p)

(* prepare_socket_path: socket_child_exists, owned_socket_identity_child.   *)
Inspect(p) ==
    /\ pc[p] = "inspecting"
    /\ ident' = [ident EXCEPT ![p] = Here(p)]
    /\ Goto(p, IF Here(p) = None THEN "binding" ELSE "probing")
    /\ UNCHANGED <<fs, bound>> /\ Keep(p)

(* probe_existing_socket: a connection answers Active, ECONNREFUSED Stale,  *)
(* ENOENT Missing. An active owner releases the lock and forwards.          *)
Probe(p) ==
    /\ pc[p] = "probing"
    /\ \/ /\ Here(p) = None /\ Goto(p, "binding") /\ UNCHANGED lock
       \/ /\ Here(p) # None /\ listener[Here(p)] # "none"
          /\ Released(p) /\ Goto(p, "forwarding")
       \/ /\ Here(p) # None /\ listener[Here(p)] = "none"
          /\ Goto(p, "comparing") /\ UNCHANGED lock
    /\ UNCHANGED <<cur, name, listener, private, ident, bound>> /\ Keep(p)

(* remove_socket_child_if_same, first half: a changed name fails the start. *)
Compare(p) ==
    /\ pc[p] = "comparing"
    /\ Goto(p, IF Here(p) = ident[p] THEN "unlinking" ELSE "releasing")
    /\ UNCHANGED <<fs, ident, bound>> /\ Keep(p)

(* ... and its second half, unlinkat: a name already gone is an error.      *)
UnlinkStale(p) ==
    /\ pc[p] = "unlinking"
    /\ Unlinked(dir[p])
    /\ Goto(p, IF Here(p) = None THEN "releasing" ELSE "binding")
    /\ UNCHANGED <<cur, lock, listener, private, ident, bound>> /\ Keep(p)

(* UnixListener::bind is bind, which fails on a taken name, ...             *)
Bind(p) ==
    /\ pc[p] = "binding"
    /\ \/ /\ Here(p) # None /\ Goto(p, "releasing")
          /\ UNCHANGED <<name, bound, used>>
       \/ /\ Here(p) = None /\ used < MaxInodes
          /\ used' = used + 1
          /\ bound' = [bound EXCEPT ![p] = used + 1]
          /\ name' = [name EXCEPT ![dir[p]] = used + 1]
          /\ Goto(p, "listening")
    /\ UNCHANGED <<cur, lock, listener, private, ident, dir, attempts, contended,
                   starts, crashes, meddled>>

(* ... and then listen.                                                     *)
Listen(p) ==
    /\ pc[p] = "listening"
    /\ listener' = [listener EXCEPT ![bound[p]] = p]
    /\ Goto(p, "capturing")
    /\ UNCHANGED <<cur, name, lock, private, ident, bound>> /\ Keep(p)

(* capture_bound_socket; a failed stat removes what carries the name        *)
(* (cleanup_socket_after_capture_failure), then the lock and listener drop. *)
Capture(p) ==
    /\ pc[p] = "capturing"
    /\ \/ /\ Here(p) # None
          /\ ident' = [ident EXCEPT ![p] = Here(p)]
          /\ Goto(p, "securing") /\ UNCHANGED name
       \/ /\ Unlinked(dir[p]) /\ Goto(p, "releasing") /\ UNCHANGED ident
    /\ UNCHANGED <<cur, lock, listener, private, bound>> /\ Keep(p)

(* secure_private_socket_child: chmod 0600 between two identity checks; a   *)
(* start that fails from here on drops its SocketCleanup.                   *)
Secure(p) ==
    /\ pc[p] = "securing"
    /\ IF Here(p) = ident[p]
       THEN private' = private \cup {Here(p)} /\ Goto(p, "verifying")
       ELSE UNCHANGED private /\ Goto(p, "dropping")
    /\ UNCHANGED <<cur, name, lock, listener, ident, bound>> /\ Keep(p)

(* validate_private_socket_child and is_same_socket: a look at the name.    *)
Verify(p) ==
    /\ pc[p] = "verifying"
    /\ Goto(p, IF Here(p) = ident[p] THEN "placing" ELSE "dropping")
    /\ UNCHANGED <<fs, ident, bound>> /\ Keep(p)

(* verify_original_path: then one at the path, which must still name the    *)
(* pinned directory.                                                        *)
VerifyPath(p) ==
    /\ pc[p] = "placing"
    /\ Goto(p, IF dir[p] = cur THEN "serving" ELSE "dropping")
    /\ UNCHANGED <<fs, ident, bound>> /\ Keep(p)

(* The daemon returns: DisplaySocket drops its listener first.              *)
Shutdown(p) ==
    /\ pc[p] = "serving"
    /\ listener' = [listener EXCEPT ![bound[p]] = "none"]
    /\ Goto(p, "dropping")
    /\ UNCHANGED <<cur, name, lock, private, ident, bound>> /\ Keep(p)

(* Drop for SocketCleanup: the name is removed only while it carries the    *)
(* captured inode, and the lock is held until after that.                   *)
Drop(p) ==
    /\ pc[p] = "dropping"
    /\ Goto(p, IF Here(p) = ident[p] THEN "removing" ELSE "releasing")
    /\ UNCHANGED <<fs, ident, bound>> /\ Keep(p)

Remove(p) ==
    /\ pc[p] = "removing"
    /\ Unlinked(dir[p]) /\ Goto(p, "releasing")
    /\ UNCHANGED <<cur, lock, listener, private, ident, bound>> /\ Keep(p)

(* The flock and, on the error paths, the listener are dropped last.        *)
Release(p) ==
    /\ pc[p] = "releasing"
    /\ Released(p)
    /\ listener' = [i \in Inodes |-> IF listener[i] = p THEN "none" ELSE listener[i]]
    /\ Goto(p, "failed")
    /\ UNCHANGED <<cur, name, private, ident, bound>> /\ Keep(p)

(* acquire_or_forward: NoDaemon (no name, or refused) is retried until the  *)
(* window closes; a connection is queued by the kernel for the listener.    *)
Forward(p) ==
    /\ pc[p] = "forwarding"
    /\ LET at == name[cur]
           live == at # None /\ listener[at] # "none"
       IN  \/ /\ live /\ ident' = [ident EXCEPT ![p] = at]
              /\ Goto(p, "exchanging") /\ UNCHANGED attempts
           \/ /\ ~live /\ attempts[p] < MaxAttempts
              /\ attempts' = [attempts EXCEPT ![p] = @ + 1]
              /\ UNCHANGED <<pc, ident>>
           \/ /\ ~live /\ attempts[p] = MaxAttempts /\ Goto(p, "failed")
              /\ UNCHANGED <<attempts, ident>>
    /\ UNCHANGED <<fs, bound, dir, contended, counters>>

(* forward: one frame each way within CONTROL_IO_TIMEOUT. The owner answers *)
(* once it serves; a closed listener or the timeout is an Exchange error.   *)
Exchange(p) ==
    /\ pc[p] = "exchanging"
    /\ LET owner == listener[ident[p]]
       IN  \/ /\ owner # "none" /\ pc[owner] = "serving" /\ Goto(p, "forwarded")
           \/ Goto(p, "failed")
    /\ UNCHANGED <<fs, ident, bound>> /\ Keep(p)

(* SIGKILL, at any step.                                                    *)
Crash(p) ==
    /\ pc[p] \notin Off /\ crashes < MaxCrashes
    /\ crashes' = crashes + 1
    /\ Released(p)
    /\ listener' = [i \in Inodes |-> IF listener[i] = p THEN "none" ELSE listener[i]]
    /\ Goto(p, "off")
    /\ UNCHANGED <<cur, name, private, dir, ident, bound, attempts, contended,
                   used, starts, meddled>>

(* An outside process removes the socket, or moves the runtime directory    *)
(* away and creates another.                                                *)
Meddle ==
    /\ \/ /\ "socket" \in Meddling \ meddled /\ name[cur] # None
          /\ Unlinked(cur) /\ meddled' = meddled \cup {"socket"} /\ UNCHANGED cur
       \/ /\ "dir" \in Meddling \ meddled
          /\ cur' = 2 /\ meddled' = meddled \cup {"dir"} /\ UNCHANGED name
    /\ UNCHANGED <<lock, listener, private, pc, dir, ident, bound, attempts,
                   contended, used, starts, crashes>>

BindSteps(p) ==
    \/ Acquire(p) \/ Inspect(p) \/ Probe(p) \/ Compare(p) \/ UnlinkStale(p)
    \/ Bind(p) \/ Listen(p) \/ Capture(p) \/ Secure(p) \/ Verify(p)
    \/ VerifyPath(p) \/ Drop(p) \/ Remove(p) \/ Release(p) \/ Forward(p) \/ Exchange(p)

Next ==
    \/ \E p \in Procs : Prepare(p) \/ BindSteps(p) \/ Shutdown(p) \/ Crash(p)
    \/ Meddle

Spec == Init /\ [][Next]_vars
FairSpec == Spec /\ \A p \in Procs : WF_vars(BindSteps(p))

Steps == Off \cup {"locking", "inspecting", "probing", "comparing", "unlinking",
    "binding", "listening", "capturing", "securing", "verifying", "placing", "serving",
    "dropping", "removing", "releasing", "forwarding", "exchanging"}

(* Every variable keeps its shape.                                          *)
TypeOK ==
    /\ cur \in Dirs /\ name \in [Dirs -> Inodes \cup {None}]
    /\ lock \in [Dirs -> SUBSET Procs]
    /\ listener \in [Inodes -> Procs \cup {"none"}] /\ private \subseteq Inodes
    /\ pc \in [Procs -> Steps] /\ dir \in [Procs -> Dirs]
    /\ ident \in [Procs -> Inodes \cup {None}] /\ bound \in [Procs -> Inodes \cup {None}]
    /\ attempts \in [Procs -> 0..MaxAttempts] /\ contended \in [Procs -> BOOLEAN]

(* No process removes the name of a socket another process has bound, while *)
(* it sets it up or serves on it: stale recovery, cleanup after an error    *)
(* and the drop of an old daemon all leave a successor's endpoint alone     *)
(* (prepare_socket_path, Drop for SocketCleanup).                           *)
LiveSocketKept ==
    \A d \in Dirs, p \in Procs :
         (name[d] # None /\ name'[d] = None /\ bound[p] = name[d]
          /\ pc[p] \notin Off \cup {"dropping", "removing", "releasing"}
          /\ meddled' = meddled)
         => (pc[p] = "capturing" /\ pc'[p] = "releasing")

(* A daemon that serves holds the endpoint alone, and unless an outside     *)
(* process removed the socket its name leads to its listener, of mode 0600  *)
(* (the post-conditions of bind_for_uid).                                   *)
ServingOwnsEndpoint ==
    \A p \in Procs : pc[p] = "serving" =>
        /\ lock[dir[p]] = {p}
        /\ ident[p] = bound[p] /\ listener[bound[p]] = p /\ bound[p] \in private
        /\ "socket" \notin meddled => Here(p) = bound[p]

(* A start that becomes the daemon does so at the path everyone connects to:*)
(* never in a directory that was moved away while it was binding, and under *)
(* its name, unless an outside process removed that between the start's     *)
(* last two looks (socket.rs:190, 193).                                     *)
ServesAtPublicPath ==
    \A p \in Procs : pc[p] # "serving" /\ pc'[p] = "serving" =>
        /\ dir[p] = cur
        /\ name[cur] = bound[p] \/ (name[cur] = None /\ "socket" \in meddled /\ pc[p] = "placing")

(* Whatever a crash left behind, a start with nobody else around does not   *)
(* fail for it: it fails only when another process was at the endpoint, or  *)
(* its own capture failed (the name is then gone).                          *)
LoneStartRecovers ==
    \A p \in Procs :
         (pc[p] # "failed" /\ pc'[p] = "failed" /\ ~contended[p] /\ bound[p] = None)
         => meddled # {}

(****************************************************************************)
(* The inductive invariant behind the ownership of the endpoint.            *)
(****************************************************************************)
Listening == {"capturing", "securing", "verifying", "placing", "serving"}
Bound == Listening \cup {"listening"}
Holding == Bound \cup {"inspecting", "probing", "comparing", "unlinking", "binding",
                       "dropping", "removing", "releasing"}

(* From the flock to its release a process holds its directory's lock, and  *)
(* alone; nobody else is in any lock.                                       *)
LockIsExclusive ==
    /\ \A p \in Procs : pc[p] \in Holding => lock[dir[p]] = {p}
    /\ \A d \in Dirs : \A p \in lock[d] : dir[p] = d /\ pc[p] \in Holding

(* An inode is bound once, by one process.                                  *)
InodesAreFresh ==
    /\ used \in 0..MaxInodes
    /\ \A d \in Dirs : name[d] <= used
    /\ \A p \in Procs : bound[p] <= used
    /\ \A p, q \in Procs : bound[p] # None /\ bound[p] = bound[q] => p = q

(* What a bound process has: its inode, which nobody else's name replaces   *)
(* in its directory, then its listener, its identity and its mode.          *)
BoundOwnsName ==
    \A p \in Procs :
        /\ pc[p] \in Bound => /\ bound[p] # None /\ Here(p) \in {bound[p], None}
                              /\ "socket" \notin meddled => Here(p) = bound[p]
        /\ pc[p] \in Listening => listener[bound[p]] = p
        /\ pc[p] \in Listening \ {"capturing"} => ident[p] = bound[p]
        /\ pc[p] \in {"verifying", "placing", "serving"} => bound[p] \in private

EndpointOwned == TypeOK /\ LockIsExclusive /\ InodesAreFresh /\ BoundOwnsName

(****************************************************************************)
(* And the one behind what a step never does: LiveSocketKept and            *)
(* LoneStartRecovers.                                                       *)
(****************************************************************************)
(* A name leads to a socket of the directory its process pinned; a process  *)
(* has bound none before it binds, and one that listens is still there.     *)
NamesLeadBack ==
    /\ \A p \in Procs, d \in Dirs : bound[p] # None /\ name[d] = bound[p] => dir[p] = d
    /\ \A p \in Procs : pc[p] \in Steps \ (Off \cup Bound \cup {"dropping", "removing", "releasing"})
                          => bound[p] = None
    /\ \A i \in Inodes : listener[i] # "none" =>
           pc[listener[i]] \in Listening \cup {"dropping", "removing", "releasing"}

(* An uncontended start is alone: what it inspected is still there, it has  *)
(* nobody to forward to, and only what it bound makes it give up.           *)
AloneRecovers ==
    \A p \in Procs : pc[p] \notin Off /\ ~contended[p] =>
        /\ \A q \in Procs \ {p} : pc[q] \in Off
        /\ meddled = {} =>
             /\ pc[p] \in {"probing", "comparing", "unlinking"} => Here(p) # None /\ Here(p) = ident[p]
             /\ pc[p] = "binding" => Here(p) = None
             /\ pc[p] \in {"dropping", "removing", "releasing"} => bound[p] # None
             /\ pc[p] \notin {"forwarding", "exchanging"}

StartKept == EndpointOwned /\ NamesLeadBack /\ AloneRecovers

=============================================================================
