------------------------------- MODULE HistoryStore -------------------------------
(****************************************************************************)
(* The usage history (storage/history.rs): one worker thread owns the       *)
(* SQLite connection; callers send it commands over a bounded channel and   *)
(* wait for a reply with a deadline. Opening prepares the file, migrates    *)
(* and verifies the schema; shutting down abandons what is queued and       *)
(* checkpoints. The process may crash at any point, and other programs may  *)
(* lock or replace the file.                                                *)
(****************************************************************************)
EXTENDS Naturals, Sequences, FiniteSets

CONSTANTS Callers, Times, Retention, Capacity,
    MaxRows,     \* rows ever inserted
    MaxFiles     \* files ever put at the path

HistoryAssumption ==
    /\ Times \subseteq Nat /\ Retention \in Nat \ {0} /\ Capacity \in Nat \ {0}

VARIABLES
    files,    \* every database that was ever at the path: kind, table, rows committed
    handle,   \* "closed", "preparing", "opening", "open", "closing"
    prepared, \* PreparedDatabase: identity and whether open created it
    worker,   \* "none", a step of the startup, "ready", "busy", "ended"
    current,  \* the command the worker executes
    stop,     \* the out-of-band stop flag
    queue,    \* the command channel
    waiting,  \* the callers inside a request
    path,     \* the database at the path, 0 when there is none
    acked,    \* the row ids whose callers hold a receipt
    rows,     \* the rows given an id
    conn      \* the database the worker's connection has open

vars == <<files, handle, prepared, worker, current, stop, queue, waiting, path, acked, rows, conn>>

(* A database without a version, of this one, of a later one or another     *)
(* program's, or a path that is not safe to open.                           *)
Kinds == {"unversioned", "current", "unknown", "unsafe"}
Starting == {"starting", "checked", "connected", "confirmed", "migrated"}
Command == [by : Callers, op : {"insert", "latest"}, at : Times]
Nothing == [by |-> CHOOSE c \in Callers : TRUE, op |-> "none", at |-> 0]
Unprepared == [ident |-> 0, created |-> FALSE]
Empty(kind) == [kind |-> kind, rows |-> {}, inserted |-> {}]

Init ==
    /\ files \in {<<Empty(kind)>> : kind \in Kinds} /\ path \in {0, 1}
    /\ handle = "closed" /\ prepared = Unprepared /\ conn = 0
    /\ worker = "none" /\ current = Nothing /\ stop = FALSE /\ queue = <<>>
    /\ waiting = {} /\ acked = {} /\ rows = 0

Older(r, s) == r.at < s.at \/ (r.at = s.at /\ r.id < s.id)

(* prune_records: the first max_records by observation time, then by id.    *)
Prune(set) == {r \in set : Cardinality({s \in set : Older(r, s)}) < Retention}

(* prepare_database_path: an existing database must be safe; an absent one  *)
(* is created empty, its mode what the umask leaves of 0600. Its identity   *)
(* is kept.                                                                 *)
Prepare ==
    /\ handle = "closed" /\ handle' = "preparing"
    /\ \/ /\ path = 0 /\ Len(files) < MaxFiles
          /\ \E kind \in {"unversioned", "unsafe"} : files' = Append(files, Empty(kind))
          /\ path' = Len(files) + 1 /\ prepared' = [ident |-> Len(files) + 1, created |-> TRUE]
       \/ /\ path # 0 /\ files[path].kind # "unsafe"
          /\ prepared' = [ident |-> path, created |-> FALSE] /\ UNCHANGED <<files, path>>
    /\ UNCHANGED <<worker, current, stop, queue, waiting, acked, rows, conn>>

(* The handle is gone, and the worker's connection with it.                 *)
Closed == handle' = "closed" /\ worker' = "none" /\ prepared' = Unprepared /\ conn' = 0

(* create_private_database_file's chmod and sync, then the worker's thread. *)
(* One of them failing leaves the new file behind.                          *)
Spawn ==
    /\ handle = "preparing"
    /\ \/ /\ files' = IF prepared.created THEN [files EXCEPT ![prepared.ident].kind = "unversioned"]
                     ELSE files
          /\ handle' = "opening" /\ worker' = "starting" /\ stop' = FALSE /\ queue' = <<>>
          /\ UNCHANGED <<prepared, conn>>
       \/ Closed /\ UNCHANGED <<files, stop, queue>>
    /\ UNCHANGED <<current, waiting, path, acked, rows>>

(* validate_prepared_identity: the safe file at the path is the prepared    *)
(* one.                                                                     *)
SameFile == path = prepared.ident /\ path # 0 /\ files[path].kind # "unsafe"

(* initialize_connection, one step for each look at the path and each       *)
(* transaction: the identity and the sidecars, the open, which takes what   *)
(* is at the path by then, the identity again, the migration of an empty    *)
(* database and its verification, the retention.                            *)
Initialize ==
    /\ \/ worker = "starting" /\ SameFile /\ worker' = "checked" /\ UNCHANGED <<files, conn>>
       \/ worker = "checked" /\ path # 0 /\ worker' = "connected" /\ conn' = path /\ UNCHANGED files
       \/ worker = "connected" /\ SameFile /\ worker' = "confirmed" /\ UNCHANGED <<files, conn>>
       \/ /\ worker = "confirmed" /\ files[conn].kind \in {"unversioned", "current"}
          /\ files' = [files EXCEPT ![conn].kind = "current"] /\ worker' = "migrated" /\ UNCHANGED conn
       \/ /\ worker = "migrated" /\ files' = [files EXCEPT ![conn].rows = Prune(@)]
          /\ worker' = "ready" /\ UNCHANGED conn
    /\ UNCHANGED <<handle, prepared, current, stop, queue, waiting, path, acked, rows>>

(* Any of those steps refusing or failing (another program's lock) is the   *)
(* startup's error; a database this open created is to be removed.          *)
InitializeFails ==
    /\ worker \in Starting
    /\ worker' = IF prepared.created THEN "failed" ELSE "ended"
    /\ UNCHANGED <<files, handle, prepared, current, stop, queue, waiting, path, acked, rows, conn>>

(* cleanup_failed_new_database: only while the path still leads to the file *)
(* this open created, by a look at it ...                                   *)
CheckCreated ==
    /\ worker = "failed" /\ worker' = IF SameFile THEN "removing" ELSE "ended"
    /\ UNCHANGED <<files, handle, prepared, current, stop, queue, waiting, path, acked, rows, conn>>

(* ... and then remove_file, of whatever the path leads to by then.         *)
Cleanup ==
    /\ worker = "removing" /\ worker' = "ended" /\ path' \in {0, path}
    /\ UNCHANGED <<files, handle, prepared, current, stop, queue, waiting, acked, rows, conn>>

(* open_with_options: the startup's answer, or its deadline; a failed open  *)
(* sets the flag and joins the worker.                                      *)
Open ==
    /\ handle = "opening"
    /\ \/ worker \in {"ready", "busy"} /\ ~stop /\ handle' = "open" /\ UNCHANGED <<stop, worker, prepared, conn>>
       \/ ~stop /\ stop' = TRUE /\ UNCHANGED <<handle, worker, prepared, conn>>
       \/ worker = "ended" /\ Closed /\ UNCHANGED stop
    /\ UNCHANGED <<files, current, queue, waiting, path, acked, rows>>

(* request: try_send; a full channel refuses at once and changes nothing.   *)
Request(c) ==
    /\ handle = "open" /\ c \notin waiting /\ Len(queue) < Capacity
    /\ \E cmd \in Command : cmd.by = c /\ queue' = Append(queue, cmd)
    /\ waiting' = waiting \cup {c}
    /\ UNCHANGED <<files, handle, prepared, worker, current, stop, path, acked, rows, conn>>

(* receive_reply at its deadline: the command stays where it is.            *)
GiveUp(c) ==
    /\ c \in waiting /\ waiting' = waiting \ {c}
    /\ UNCHANGED <<files, handle, prepared, worker, current, stop, queue, path, acked, rows, conn>>

(* worker_main: the next command, unless the flag is set by then.           *)
Take ==
    /\ worker = "ready" /\ ~stop /\ queue # <<>>
    /\ current' = Head(queue) /\ queue' = Tail(queue) /\ worker' = "busy"
    /\ UNCHANGED <<files, handle, prepared, stop, waiting, path, acked, rows, conn>>

(* The caller still waits for this command, not for a later one of its own. *)
Heard ==
    current.by \in waiting /\ ~\E i \in DOMAIN queue : queue[i].by = current.by
Reply == waiting' = IF Heard THEN waiting \ {current.by} ELSE waiting

Row == [id |-> rows + 1, at |-> current.at]

(* WorkerState::insert: the row and the retention in one transaction, or an *)
(* SQLite error (a lock held too long) and neither.                         *)
ExecuteInsert ==
    /\ worker = "busy" /\ current.op = "insert"
    /\ worker' = "ready" /\ current' = Nothing
    /\ \/ /\ rows < MaxRows /\ rows' = rows + 1
          /\ files' = [files EXCEPT ![conn].inserted = @ \cup {Row}, ![conn].rows = Prune(@ \cup {Row})]
          /\ acked' = IF Heard THEN acked \cup {Row.id} ELSE acked
       \/ UNCHANGED <<rows, files, acked>>
    /\ Reply /\ UNCHANGED <<handle, prepared, stop, queue, path, conn>>

(* WorkerState::latest and status only read.                                *)
ExecuteQuery ==
    /\ worker = "busy" /\ current.op = "latest"
    /\ worker' = "ready" /\ current' = Nothing /\ Reply
    /\ UNCHANGED <<files, handle, prepared, stop, queue, path, acked, rows, conn>>

(* shutdown consumes the store, so no caller is inside it.                  *)
Shutdown ==
    /\ handle = "open" /\ waiting = {}
    /\ handle' = "closing" /\ stop' = TRUE
    /\ UNCHANGED <<files, prepared, worker, current, queue, waiting, path, acked, rows, conn>>

(* The flag is seen between two commands: the queue is abandoned and the    *)
(* log checkpointed.                                                        *)
WorkerEnd ==
    /\ worker = "ready" /\ stop /\ worker' = "ended" /\ queue' = <<>>
    /\ UNCHANGED <<files, handle, prepared, current, stop, waiting, path, acked, rows, conn>>

(* shutdown_inner joins the worker.                                         *)
Join ==
    /\ handle = "closing" /\ worker = "ended" /\ Closed
    /\ UNCHANGED <<files, current, stop, queue, waiting, path, acked, rows>>

Crash ==
    /\ handle # "closed"
    /\ Closed /\ current' = Nothing /\ stop' = FALSE /\ queue' = <<>> /\ waiting' = {}
    /\ UNCHANGED <<files, path, acked, rows>>

(* Another program removes what is at the path, or puts a database of its   *)
(* own there, at any time.                                                  *)
Replace ==
    /\ \/ path' = 0 /\ path # 0 /\ UNCHANGED files
       \/ /\ Len(files) < MaxFiles /\ path' = Len(files) + 1
          /\ \E kind \in {"unknown", "current"} : files' = Append(files, Empty(kind))
    /\ UNCHANGED <<handle, prepared, worker, current, stop, queue, waiting, acked, rows, conn>>

Next ==
    \/ Prepare \/ Spawn \/ Initialize \/ InitializeFails \/ CheckCreated \/ Cleanup
    \/ Open \/ Take \/ ExecuteInsert \/ ExecuteQuery
    \/ Shutdown \/ WorkerEnd \/ Join \/ Crash \/ Replace
    \/ \E c \in Callers : Request(c) \/ GiveUp(c)

Spec == Init /\ [][Next]_vars
FairSpec ==
    /\ Spec /\ WF_vars(Initialize \/ InitializeFails) /\ WF_vars(CheckCreated \/ Cleanup)
    /\ WF_vars(Take) /\ WF_vars(ExecuteInsert) /\ WF_vars(ExecuteQuery)
    /\ WF_vars(WorkerEnd) /\ WF_vars(Join)

(* Every variable keeps its shape; the channel keeps its capacity.          *)
TypeOK ==
    /\ rows \in Nat
    /\ files \in Seq([kind : Kinds, rows : SUBSET [id : 1 .. rows, at : Times],
                      inserted : SUBSET [id : 1 .. rows, at : Times]])
    /\ path \in 0 .. Len(files) /\ conn \in 0 .. Len(files)
    /\ prepared \in [ident : 0 .. Len(files), created : BOOLEAN]
    /\ handle \in {"closed", "preparing", "opening", "open", "closing"}
    /\ worker \in Starting \cup {"none", "ready", "busy", "failed", "removing", "ended"}
    /\ worker = "busy" => current \in Command
    /\ queue \in Seq(Command) /\ Len(queue) <= Capacity /\ stop \in BOOLEAN
    /\ waiting \subseteq Callers

(* insert with prune_records: after any sequence of inserts, failures,      *)
(* restarts and crashes the table holds exactly the newest rows committed,  *)
(* by observation time and not by arrival.                                  *)
RetainsNewest ==
    \A f \in DOMAIN files : files[f].rows = Prune(files[f].inserted)

(* A receipt is never given for a row that is not committed.                *)
ReceiptsAreCommitted ==
    \A id \in acked : \E f \in DOMAIN files : \E r \in files[f].inserted : r.id = id

(* What every step keeps, and those above rest on: what is at the path now  *)
(* came there after what was prepared; the worker has open the database     *)
(* that was prepared, one of this version once it is migrated; one that     *)
(* this very open created, and may remove again, holds no row and is no     *)
(* unknown database.                                                        *)
Ours == files[prepared.ident]
OpenedIsOurs ==
    /\ path # 0 => prepared.ident <= path
    /\ handle = "closed" => worker = "none"
    /\ handle = "preparing" => worker = "none" /\ prepared.ident # 0
    /\ worker # "none" => prepared.ident # 0
    /\ worker = "connected" => conn # 0 /\ (path = prepared.ident => conn = path)
    /\ worker \in {"failed", "removing"} => prepared.created
    /\ worker \in {"confirmed", "migrated", "ready", "busy"} => conn = prepared.ident
    /\ worker \in {"migrated", "ready", "busy"} => Ours.kind = "current"
    /\ prepared.created /\ prepared.ident # 0 => Ours.kind # "unknown"
    /\ prepared.created /\ (handle = "preparing" \/ worker \in Starting \cup {"failed", "removing"})
          => Ours.inserted = {}
HistoryKept ==
    /\ TypeOK /\ RetainsNewest /\ ReceiptsAreCommitted /\ OpenedIsOurs
    /\ \A f \in DOMAIN files : IsFiniteSet(files[f].inserted)

(* A database this version does not know, or one that another program put   *)
(* there at any time, is never written. What is removed is the file this    *)
(* open created, while it holds no row; only a database put at the path     *)
(* after the last look at it is lost with that removal (history.rs:1321).   *)
ForeignUntouched ==
    /\ \A f \in DOMAIN files : files'[f] # files[f] =>
          f = prepared.ident /\ files[f].kind # "unknown"
    /\ path' # path /\ path # 0 /\ ~UNCHANGED <<handle, worker>> =>
          /\ prepared.created /\ Ours.inserted = {}
          /\ path = prepared.ident \/ (worker = "removing" /\ path > prepared.ident)

(* A closed store writes nothing more, an insert that timed out and was     *)
(* still queued included.                                                   *)
ClosedIsFinal == handle = "closed" /\ handle' = "closed" => \A f \in DOMAIN files : files'[f] = files[f]

=============================================================================
