------------------------------ MODULE MCServices ------------------------------
(****************************************************************************)
(* Small instances of the components that share no state: the private files,*)
(* the socket, the tray, the accounts, the credential receiver, the         *)
(* provider transports and their processes, the history database and the    *)
(* drain of the workers. One of them, the machine, is chosen in the initial *)
(* state and runs alone; the registers hold its variables, in the order in  *)
(* which its module declares them. The drain keeps its own variables.       *)
(****************************************************************************)
EXTENDS ShutdownDrain, Sequences

CONSTANTS
    Machines,   \* the machines of this run
    Absent, p1, p2

(* The parameters of the machines below that are not fixed there, under the *)
(* names of their modules: what is proved of these machines is proved for   *)
(* every value of them.                                                     *)
CONSTANTS
    Writers, Values, FileInodes, MaxWrites, MaxFailures, MaxEdits,  \* file, secret
    GracePeriod, MaxTime, MaxId,                                \* presence
    Procs, MaxInodes, MaxStarts, MaxCrashes, MaxAttempts,   \* socket
    Clients, Peers, MaxBytes, MaxDigits, Deadline, MaxSent,     \* credential
    Origins, Approved, Home, Methods, MaxRedirects, MaxBody, RequestTimeout,
    MaxRetries, BaseDelay, MaxDelay, MaxRetryAfter,             \* transport
    MaxRequests, MaxSkipped, MaxPipe, MaxStderr,                \* rpc
    MaxOutput, MaxWritten, RunTimeout,                          \* command
    Jobs, MaxSlots,                                             \* reaper
    Callers, Times, Retention, Capacity, MaxRows, MaxFiles,     \* history
    Accounts1, People1, Faults1, Commands1,                     \* account
    Accounts2, People2, Faults2, Commands2,                     \* accounts
    Commands, MaxInstances, MaxConfigBytes, MaxCommands         \* config

VARIABLES
    machine, r1, r2, r3, r4, r5, r6, r7, r8, r9, r10, r11, r12, r13, r14, r15

registers == <<r1, r2, r3, r4, r5, r6, r7, r8, r9, r10, r11, r12, r13, r14, r15>>
all == <<vars, machine, registers>>

File == INSTANCE AtomicFile WITH
    inode <- r1, dirs <- r2, lock <- r3, writer <- r4, reads <- r5, budget <- r6,
    Inodes <- FileInodes, Private <- FALSE

Secret == INSTANCE AtomicFile WITH
    inode <- r1, dirs <- r2, lock <- r3, writer <- r4, reads <- r5, budget <- r6,
    Inodes <- FileInodes, Private <- TRUE

Presence == INSTANCE FrontendPresence WITH
    now <- r1, observedAt <- r2, nextId <- r3, compatible <- r4, fallback <- r5,
    deadline <- r6, lastPresent <- r7, tasks <- r8, trayStatus <- r9, ticked <- r10,
    changedAt <- r11

Socket == INSTANCE SocketOwnership WITH
    cur <- r1, name <- r2, lock <- r3, listener <- r4, private <- r5, pc <- r6, dir
    <- r7, ident <- r8, bound <- r9, attempts <- r10, contended <- r11, used <- r12,
    starts <- r13, crashes <- r14, meddled <- r15, Meddling <- {}

Meddled == INSTANCE SocketOwnership WITH
    cur <- r1, name <- r2, lock <- r3, listener <- r4, private <- r5, pc <- r6, dir
    <- r7, ident <- r8, bound <- r9, attempts <- r10, contended <- r11, used <- r12,
    starts <- r13, crashes <- r14, meddled <- r15, Meddling <- {"socket", "dir"}

Account == INSTANCE CodexAccounts WITH
    config <- r1, holder <- r2, home <- r3, pc <- r4, draft <- r5, pending <- r6,
    account <- r7, stale <- r8, oldAuth <- r9, before <- r10, commands <- r11,
    renamed <- r12, unsynced <- r13, Procs <- {p1}, Ids <- Accounts1, People <- People1,
    Faults <- Faults1, MaxCommands <- Commands1

Accounts == INSTANCE CodexAccounts WITH
    config <- r1, holder <- r2, home <- r3, pc <- r4, draft <- r5, pending <- r6,
    account <- r7, stale <- r8, oldAuth <- r9, before <- r10, commands <- r11,
    renamed <- r12, unsynced <- r13, Procs <- {p1, p2}, Ids <- Accounts2, People <- People2,
    Faults <- Faults2, MaxCommands <- Commands2

Credential == INSTANCE CredentialReceiver WITH
    now <- r1, pc <- r2, named <- r3, queue <- r4, client <- r5, sent <- r6, closed
    <- r7, taken <- r8, digits <- r9, payload <- r10, result <- r11

Request == INSTANCE Transport WITH
    method <- r1, phase <- r2, retries <- r3, redirects <- r4, at <- r5, body <- r6,
    clock <- r7, delay <- r8, cancelled <- r9, outcome <- r10, sent <- r11, writes
    <- r12, total <- r13

Rpc == INSTANCE JsonRpcChild WITH
    phase <- r1, op <- r2, next <- r3, skipped <- r4, late <- r5, cancelled <- r6,
    open <- r7, last <- r8, pipe <- r9, leader <- r10, others <- r11, stderr <- r12,
    drain <- r13, answered <- r14

Command == INSTANCE Subprocess WITH
    phase <- r1, result <- r2, read <- r3, done <- r4, status <- r5, clock <- r6,
    cancelled <- r7, leader <- r8, holder <- r9, wrote <- r10

History == INSTANCE HistoryStore WITH
    files <- r1, handle <- r2, prepared <- r3, worker <- r4, current <- r5, stop <-
    r6, queue <- r7, waiting <- r8, path <- r9, acked <- r10, rows <- r11, conn
    <- r12

Reaper == INSTANCE KiroReaper WITH
    root <- r1, child <- r2, grouped <- r3, holds <- r4, known <- r5, blurred <- r6,
    guard <- r7, step <- r8, fdsClean <- r9, slots <- r10, queue <- r11,
    open <- r12, rooted <- r13

Config == INSTANCE Configuration WITH
    file <- r1, origin <- r2, pc <- r3, draft <- r4, reader <- r5, budget <- r6

OneRestart ==
    [restarts |-> 1, shells |-> 0, user |-> 1, refusals |-> 0,
     faults |-> 1, strangers |-> 0]

Display == INSTANCE DisplayServer WITH
    stream <- r1, up <- r2, published <- r3, popup <- r4, conn <- r5, attached <-
    r6, ui <- r7, applied <- r8, budget <- r9, MaxTracked <- 2, MaxRequestId <- 4,
    MaxPanelRetries <- 1, MaxConnections <- 3, MaxPublications <- 2,
    Budgets <- {OneRestart}

----------------------------------------------------------------------------
(* The registers a machine with n variables does not use.                   *)
Free(n) ==
    /\ IF n < 1 THEN r1 = "free" ELSE TRUE
    /\ IF n < 2 THEN r2 = "free" ELSE TRUE
    /\ IF n < 3 THEN r3 = "free" ELSE TRUE
    /\ IF n < 4 THEN r4 = "free" ELSE TRUE
    /\ IF n < 5 THEN r5 = "free" ELSE TRUE
    /\ IF n < 6 THEN r6 = "free" ELSE TRUE
    /\ IF n < 7 THEN r7 = "free" ELSE TRUE
    /\ IF n < 8 THEN r8 = "free" ELSE TRUE
    /\ IF n < 9 THEN r9 = "free" ELSE TRUE
    /\ IF n < 10 THEN r10 = "free" ELSE TRUE
    /\ IF n < 11 THEN r11 = "free" ELSE TRUE
    /\ IF n < 12 THEN r12 = "free" ELSE TRUE
    /\ IF n < 13 THEN r13 = "free" ELSE TRUE
    /\ IF n < 14 THEN r14 = "free" ELSE TRUE
    /\ IF n < 15 THEN r15 = "free" ELSE TRUE
Kept(n) ==
    /\ IF n < 1 THEN UNCHANGED r1 ELSE TRUE
    /\ IF n < 2 THEN UNCHANGED r2 ELSE TRUE
    /\ IF n < 3 THEN UNCHANGED r3 ELSE TRUE
    /\ IF n < 4 THEN UNCHANGED r4 ELSE TRUE
    /\ IF n < 5 THEN UNCHANGED r5 ELSE TRUE
    /\ IF n < 6 THEN UNCHANGED r6 ELSE TRUE
    /\ IF n < 7 THEN UNCHANGED r7 ELSE TRUE
    /\ IF n < 8 THEN UNCHANGED r8 ELSE TRUE
    /\ IF n < 9 THEN UNCHANGED r9 ELSE TRUE
    /\ IF n < 10 THEN UNCHANGED r10 ELSE TRUE
    /\ IF n < 11 THEN UNCHANGED r11 ELSE TRUE
    /\ IF n < 12 THEN UNCHANGED r12 ELSE TRUE
    /\ IF n < 13 THEN UNCHANGED r13 ELSE TRUE
    /\ IF n < 14 THEN UNCHANGED r14 ELSE TRUE
    /\ IF n < 15 THEN UNCHANGED r15 ELSE TRUE

Starts(m, init, n) == machine = m /\ m \in Machines /\ init /\ Free(n)
NoDrain == Init /\ superseded = {}

ServicesInit ==
    \/ Starts("drain", Init, 0)
    \/ NoDrain /\ Starts("file", File!Init, 6)
    \/ NoDrain /\ Starts("secret", Secret!Init, 6)
    \/ NoDrain /\ Starts("presence", Presence!Init, 11)
    \/ NoDrain /\ Starts("socket", Socket!Init, 15)
    \/ NoDrain /\ Starts("meddled", Meddled!Init, 15)
    \/ NoDrain /\ Starts("account", Account!Init, 13)
    \/ NoDrain /\ Starts("accounts", Accounts!Init, 13)
    \/ NoDrain /\ Starts("credential", Credential!Init, 11)
    \/ NoDrain /\ Starts("transport", Request!Init, 13)
    \/ NoDrain /\ Starts("rpc", Rpc!Init, 14)
    \/ NoDrain /\ Starts("command", Command!Init, 10)
    \/ NoDrain /\ Starts("history", History!Init, 12)
    \/ NoDrain /\ Starts("reaper", Reaper!Init, 13)
    \/ NoDrain /\ Starts("config", Config!Init, 6)
    \/ NoDrain /\ Starts("display", Display!Init, 9)

Runs(m, n) == machine = m /\ Kept(n) /\ UNCHANGED <<vars, machine>>

ServicesNext ==
    \/ machine = "drain" /\ Next /\ UNCHANGED <<machine, registers>>
    \/ Runs("file", 6) /\ File!Next
    \/ Runs("secret", 6) /\ Secret!Next
    \/ Runs("presence", 11) /\ Presence!Next
    \/ Runs("socket", 15) /\ Socket!Next
    \/ Runs("meddled", 15) /\ Meddled!Next
    \/ Runs("account", 13) /\ Account!Next
    \/ Runs("accounts", 13) /\ Accounts!Next
    \/ Runs("credential", 11) /\ Credential!Next
    \/ Runs("transport", 13) /\ Request!Next
    \/ Runs("rpc", 14) /\ Rpc!Next
    \/ Runs("command", 10) /\ Command!Next
    \/ Runs("history", 12) /\ History!Next
    \/ Runs("reaper", 13) /\ Reaper!Next
    \/ Runs("config", 6) /\ Config!Next
    \/ Runs("display", 9) /\ Display!Next

ServicesSpec == ServicesInit /\ [][ServicesNext]_all

ASSUME ServicesAssumption ==
    /\ File!FileAssumption /\ Secret!FileAssumption /\ Presence!PresenceAssumption
    /\ Socket!OwnershipAssumption /\ Meddled!OwnershipAssumption
    /\ Account!AccountsAssumption /\ Accounts!AccountsAssumption
    /\ Credential!ReceiverAssumption /\ Request!TransportAssumption
    /\ Rpc!JsonRpcAssumption /\ Command!SubprocessAssumption /\ History!HistoryAssumption
    /\ Reaper!ReaperAssumption /\ Config!ConfigurationAssumption
    /\ Display!ServerAssumption /\ Display!ClientAssumption

----------------------------------------------------------------------------
(* Fairness, as each component's module justifies it.                       *)
ServicesFairness ==
    /\ WF_vars(machine = "drain" /\ (Tick \/ GraceElapsed \/ Return))
    /\ \A t \in Tasks : WF_vars(machine = "drain" /\ (DropAborted(t) \/ Join(t)))
    /\ \A p \in {p1, p2} : WF_(Socket!vars)(machine = "socket" /\ Socket!BindSteps(p))
    /\ WF_(Credential!vars)(machine = "credential" /\ (Credential!Receiver \/ Credential!Tick))
    /\ WF_(Request!vars)(/\ machine = "transport"
                         /\ \/ Request!Tick \/ Request!Timeout \/ Request!Decide
                            \/ Request!Again \/ Request!Cancelled)
    /\ WF_(Rpc!vars)(/\ machine = "rpc"
                     /\ \/ Rpc!Elapse \/ Rpc!Write \/ Rpc!ReadFails \/ Rpc!ReadLine
                        \/ Rpc!Stop \/ Rpc!Kill \/ Rpc!Reap)
    /\ WF_(Command!vars)(machine = "command" /\ (Command!Tick \/ Command!Run))
    /\ WF_(History!vars)(/\ machine = "history"
                         /\ \/ History!Initialize \/ History!InitializeFails \/ History!CheckCreated
                            \/ History!Cleanup \/ History!Take \/ History!ExecuteInsert
                            \/ History!ExecuteQuery \/ History!WorkerEnd \/ History!Join)
    /\ WF_(Reaper!vars)(machine = "reaper" /\ Reaper!Receive)
    /\ WF_(Reaper!vars)(/\ machine = "reaper"
                        /\ \/ Reaper!Spawn(p1) \/ Reaper!Cleanup(p1) \/ Reaper!ScanKnown(p1)
                           \/ Reaper!Kill(p1))
    /\ SF_(Reaper!vars)(machine = "reaper" /\ Reaper!ScanComplete(p1))
    /\ SF_(Reaper!vars)(machine = "reaper" /\ Reaper!Kill(p1) /\ r1'[p1] # "alive")
    /\ SF_(Reaper!vars)(machine = "reaper" /\ Reaper!Kill(p1) /\ r2'[p1] # "alive")
    /\ \A k \in 1..3 : WF_(Display!vars)(machine = "display" /\ k \in DOMAIN r5 /\ Display!Serve(k))
    /\ WF_(Display!vars)(/\ machine = "display"
                         /\ \/ Display!StartConnection \/ Display!DaemonStart \/ Display!FrontendStart
                            \/ Display!BridgeExits /\ UNCHANGED r9)
    /\ WF_(Display!vars)(machine = "display" /\ Display!Deliver)
    /\ WF_(Display!vars)(machine = "display" /\ Display!PanelRetry)

ServicesFairSpec == ServicesSpec /\ ServicesFairness

----------------------------------------------------------------------------
(* Every variable of every machine but the display's, which has its type    *)
(* invariant in DisplayServer, keeps its shape, and what is buffered,       *)
(* counted or queued stays within its limit; a drain cuts nobody off inside *)
(* its grace period.                                                        *)
ServicesTypeOK ==
    CASE machine \in {"file", "secret"} -> File!TypeOK
      [] machine = "presence" -> Presence!TypeOK
      [] machine \in {"socket", "meddled"} -> Socket!TypeOK
      [] machine = "account" -> Account!TypeOK
      [] machine = "accounts" -> Accounts!TypeOK
      [] machine = "credential" -> Credential!TypeOK
      [] machine = "transport" -> Request!TypeOK
      [] machine = "rpc" -> Rpc!TypeOK
      [] machine = "command" -> Command!TypeOK
      [] machine = "history" -> History!TypeOK
      [] machine = "reaper" -> Reaper!TypeOK
      [] machine = "config" -> Config!TypeOK
      [] machine = "drain" -> DrainTypeOK /\ GraceIsGranted
      [] OTHER -> TRUE

(* Whatever crashes or fails in between: a write that returned is durable   *)
(* and its predecessor can be recovered, a replaced secret leaves no second *)
(* copy (atomic_file.rs); every history table holds exactly the newest rows *)
(* committed to it and a receipt is given for no other (history.rs); the    *)
(* active account is listed, also when commands write over each other, and  *)
(* a listed one has its CODEX_HOME, unless its first listing was a rename   *)
(* whose directory sync failed (codex_accounts.rs); what a command made of  *)
(* a configuration is valid and loads, but for the size of the file, which  *)
(* none checks, and the number of routes, which enable and disable do not   *)
(* check (wiring.rs), and the reloader keeps the last good one (watcher.rs).*)
StoredStateSurvives ==
    /\ machine = "file" => File!DurableWhenIdle /\ File!PredecessorKept
    /\ machine = "secret" => Secret!DurableWhenIdle /\ Secret!NoSecondCopy
    /\ machine = "history" => History!RetainsNewest /\ History!ReceiptsAreCommitted
    /\ machine = "account" => Account!ListedHasHome /\ Account!ActiveIsListed
    /\ machine = "accounts" => Accounts!ActiveIsListed
    /\ machine = "config" => Config!WrittenLoads /\ Config!ReaderHoldsGood

(* The document of the file transactions, of both kinds.                    *)
IsFile == machine \in {"file", "secret"}
Abstract == INSTANCE PrivateFile WITH
    current <- IF IsFile THEN File!Document(File!dir) ELSE Absent,
    possible <- IF IsFile THEN {File!Document(r2[k]) : k \in DOMAIN r2} ELSE {Absent}

(* Every behaviour of the transactions is one of the promised file: only    *)
(* whole documents appear, one step replaces one, a crash leaves one that   *)
(* was current since the last sync, never a torn or a missing file.         *)
ImplementsPrivateFile == Abstract!Spec

(* What a step may never do: a failed login leave more behind than what it  *)
(* had renamed before it failed, or a login unlist somebody; a start or a   *)
(* cleanup take a live socket's name away, go on to serve with another      *)
(* socket at its path than it bound, or fail for what a crash left; the     *)
(* history write a foreign database, remove one other than what it created  *)
(* except in the one window after its look, or write once it is closed; a   *)
(* permanent failure be retried; a child that failed be spoken to again, or *)
(* a failing drain be reported as the closed pipe it caused; a configuration*)
(* command change a provider that it does not name in what it read.         *)
NoForbiddenStep ==
    [][/\ machine = "account" => Account!FailedLoginConfined /\ Account!ReauthKeepsAccount
       /\ machine = "socket" => Socket!LiveSocketKept /\ Socket!LoneStartRecovers
       /\ machine = "meddled" => Meddled!LiveSocketKept /\ Meddled!ServesAtPublicPath
       /\ machine = "history" => History!ForeignUntouched /\ History!ClosedIsFinal
       /\ machine = "transport" => Request!RetriedOnlyTransient
       /\ machine = "config" => Config!OthersKept
       /\ machine = "rpc" => Rpc!NothingAfterFailure /\ Rpc!DrainFailureReported]_all

(* A daemon that serves holds the endpoint alone, under a name that leads   *)
(* to it (socket.rs). The daemon's tray icon is never shown before the      *)
(* start's grace is over, is hidden a tick after a frontend has come and    *)
(* shown a tick after the last has gone (daemon.rs). The policy meant for   *)
(* it, which only the tests use, suppresses the fallback exactly while a    *)
(* compatible frontend is left, and shows it after a whole grace period     *)
(* without one and no later (frontend_presence.rs).                         *)
EndpointAndFallback ==
    /\ machine = "socket" => Socket!ServingOwnsEndpoint
    /\ machine = "meddled" => Meddled!ServingOwnsEndpoint
    /\ machine = "presence" => /\ Presence!SuppressedIffPresent
                               /\ Presence!ActiveOnlyAfterGrace /\ Presence!DeadlineKept
                               /\ Presence!TrayFollowsTasks

(* What is handed to a caller is whole and its own: the one credential the  *)
(* accepted client framed, read only once nobody else can connect, an       *)
(* answer that bears this very request's id, all the output of a program    *)
(* that succeeded (credential.rs, json_rpc_child.rs, subprocess.rs).        *)
WholeAnswersOnly ==
    /\ machine = "credential" => Credential!DeliveredExactly /\ Credential!OneShot
    /\ machine = "rpc" => Rpc!AnswersItsRequest
    /\ machine = "command" => Command!CompleteOutput

(* Whatever servers answer, a request carries its authentication only to    *)
(* approved origins, its body once, and is back within its attempts'        *)
(* timeouts, with every retry the policy allows used (transport.rs,         *)
(* retry.rs).                                                               *)
RequestWithinPolicy ==
    machine = "transport" => /\ Request!CredentialsStayApproved /\ Request!PostSentOnce
                             /\ Request!TimeBounded /\ Request!RetriesUsedUp

(* No process outlives its command: not a child whose operation failed or   *)
(* whose owner is gone, not a descendant that holds the pipes, and no       *)
(* supervised command is forgotten when the reaper's queue is full          *)
(* (json_rpc_child.rs, subprocess.rs, kiro.rs).                             *)
NoOrphans ==
    /\ machine = "rpc" => Rpc!NoOrphans
    /\ machine = "command" => Command!NoOrphans
    /\ machine = "reaper" => Reaper!SlotsCountGuards /\ Reaper!NothingLost /\ Reaper!CleanMeansGone

(* An operation has been started and not returned.                          *)
Underway(p) ==
    CASE machine = "transport" -> r2 # "returned"
      [] machine = "rpc" -> r1 \notin {"idle", "dropped"}
      [] machine = "command" -> r1 # "returned"
      [] machine = "credential" -> r2 # "done"
      [] machine = "socket" -> r6[p] \notin Socket!Off \cup {"serving", "dropping", "removing"}
      [] machine = "history" -> r2 = "closing"
      [] machine = "drain" -> pc # "done"
      [] machine = "reaper" -> r7[p1] \notin {"none", "clean"} /\ ~r6[p1]
      [] OTHER -> FALSE

(* Every bounded operation returns, whatever the other side does: a request *)
(* whose servers stay silent, a child that talks on, a program whose        *)
(* descendant holds its pipes, a credential that trickles in, a start that  *)
(* waits for a lock, a shutdown with commands queued or tasks that do not   *)
(* react, and a supervised command, unless its census was cut short.        *)
OperationsReturn ==
    \A p \in {p1, p2} : Underway(p) ~> ~Underway(p)

(* The frontend ends up showing the daemon's last publication after any     *)
(* reconnects and a restart, and the runtime's popup flag ends up as the    *)
(* panel the user sees, or the frontend says that it gave up.               *)
DisplayConverges ==
    <>[](machine = "display" => Display!Converged /\ Display!PanelArrived)
================================================================================
