----------------------------- MODULE DisplayClient -----------------------------
(****************************************************************************)
(* The desktop frontend's side of the display protocol: the connection and  *)
(* panel state that Service.qml keeps, and the reducer of Protocol.js.      *)
(* Every operator maps a frontend record to the record after a QML function *)
(* ran; lines the function wrote to the bridge are appended to its field    *)
(* lines, which the caller hands to the connection in the same step.        *)
(****************************************************************************)
EXTENDS Naturals, Sequences, SequencesExt

CONSTANTS
    MaxTracked,      \* MAX_TRACKED_REQUESTS
    MaxRequestId,    \* MAX_EXACT_INTEGER: the last request id of a session
    MaxPanelRetries  \* maxPanelRetries

ClientAssumption ==
    /\ MaxTracked \in Nat \ {0}
    /\ MaxRequestId \in Nat \ {0}
    /\ MaxPanelRetries \in Nat

NoSnapshot == [stream |-> 0, sequence |-> 0]
Terminal == {"completed", "failed", "cancelled"}
ClientHello(u) == [type |-> "hello", session |-> u.session]
PanelAction(u, id) ==
    [type |-> "action", session |-> u.session, id |-> id,
     action |-> IF u.panelDesiredOpen THEN "open_panel" ELSE "close_panel"]
RefreshAction(u, id) ==
    [type |-> "action", session |-> u.session, id |-> id, action |-> "refresh_all"]
SnapshotAck(u, sequence) == [type |-> "snapshot_ack", sequence |-> sequence]

(* A freshly loaded service: Component.onCompleted calls startConnection.   *)
NewService(session) ==
    [alive |-> TRUE, session |-> session, nextRequestId |-> 1,
     phase |-> "awaiting_hello", streamId |-> 0, lastSequence |-> 0,
     snapshot |-> NoSnapshot, requestProgress |-> <<>>, requestOrder |-> <<>>,
     connectionWanted |-> FALSE, transportConnected |-> FALSE,
     bridge |-> "off", connectionError |-> "",
     handshakeTimer |-> FALSE, reconnectTimer |-> TRUE,
     panelStateKnown |-> FALSE, panelDesiredOpen |-> FALSE,
     panelStateRequestId |-> 0, panelRetryCount |-> 0, panelRetryTimer |-> FALSE,
     panelActionError |-> FALSE, lines |-> <<>>]

WriteLine(u, line) ==
    IF u.connectionWanted /\ u.transportConnected /\ u.bridge = "running"
    THEN [u EXCEPT !.lines = Append(@, line)]
    ELSE u

(* stopConnection only asks the bridge to stop; it exits in a later step.   *)
StopConnection(u) ==
    [u EXCEPT !.transportConnected = FALSE,
              !.handshakeTimer = FALSE,
              !.bridge = IF @ = "running" THEN "stopping" ELSE @]

ScheduleReconnect(u, reason) ==
    IF u.phase = "incompatible" THEN u
    ELSE [StopConnection(u) EXCEPT !.connectionError = reason,
                                   !.connectionWanted = FALSE,
                                   !.reconnectTimer = TRUE]

(****************************************************************************)
(* Tracked requests.                                                        *)
(****************************************************************************)
ProgressOf(u, id) ==
    IF id \in DOMAIN u.requestProgress THEN u.requestProgress[id] ELSE ""

WithProgress(u, id, state) ==
    [u EXCEPT !.requestProgress =
        [r \in DOMAIN @ \cup {id} |-> IF r = id THEN state ELSE @[r]]]

ForgetRequests(u) == [u EXCEPT !.requestProgress = <<>>, !.requestOrder = <<>>]

(* The oldest tracked request that has ended makes room for a new one.      *)
Evictable(u) ==
    {i \in DOMAIN u.requestOrder : u.requestProgress[u.requestOrder[i]] \in Terminal}

Evict(u, i) ==
    [u EXCEPT !.requestProgress = [r \in DOMAIN @ \ {u.requestOrder[i]} |-> @[r]],
              !.requestOrder = RemoveAt(@, i)]

RegisterRequest(u, id) ==
    LET full == Len(u.requestOrder) >= MaxTracked
        room == IF full THEN Evict(u, Min(Evictable(u))) ELSE u
    IN  IF id \in DOMAIN u.requestProgress \/ (full /\ Evictable(u) = {}) THEN u
        ELSE [WithProgress(room, id, "issued") EXCEPT !.requestOrder = Append(@, id)]

(* allocateRequestId; the id handed out is 0 when the session's ids are     *)
(* exhausted and the frontend reconnects under a new session.               *)
AllocatedId(u) == IF u.nextRequestId >= MaxRequestId THEN 0 ELSE u.nextRequestId

AllocateRequestId(u) ==
    IF u.nextRequestId >= MaxRequestId
    THEN ScheduleReconnect(
             [ForgetRequests(u) EXCEPT !.session = <<@[1], @[2] + 1>>,
                                       !.nextRequestId = 1,
                                       !.panelStateRequestId = 0],
             "request_id_space_exhausted")
    ELSE [u EXCEPT !.nextRequestId = @ + 1]

(****************************************************************************)
(* The panel state: at most one current request tells the daemon whether    *)
(* the panel is open; a failed one is retried a bounded number of times.    *)
(****************************************************************************)
EnsurePanelStateRequest(u) ==
    IF ~u.panelStateKnown \/ u.panelStateRequestId > 0 THEN u
    ELSE LET id == AllocatedId(u)
             a  == AllocateRequestId(u)
             r  == RegisterRequest(a, id)
         IN  CASE id = 0 -> a
               [] id # 0 /\ ProgressOf(r, id) = "" ->
                      [r EXCEPT !.connectionError = "too_many_actions"]
               [] OTHER -> [r EXCEPT !.panelStateRequestId = id,
                        !.connectionError = IF @ = "too_many_actions" THEN "" ELSE @]

(* Whether schedulePanelRetry retries, and the state it leaves.             *)
MayRetry(u) == u.panelRetryCount < MaxPanelRetries

SchedulePanelRetry(u) ==
    IF MayRetry(u)
    THEN [u EXCEPT !.panelRetryCount = @ + 1, !.panelStateRequestId = 0,
                   !.panelActionError = FALSE, !.panelRetryTimer = TRUE]
    ELSE [u EXCEPT !.panelActionError = TRUE, !.panelRetryTimer = FALSE]

(* A failed current request is replaced by a new one before it is sent.     *)
Replaced(u) ==
    IF ProgressOf(u, u.panelStateRequestId) \in {"failed", "cancelled"}
    THEN IF MayRetry(u)
         THEN EnsurePanelStateRequest(
                  [SchedulePanelRetry(u) EXCEPT !.panelRetryTimer = FALSE])
         ELSE SchedulePanelRetry(u)
    ELSE u

SyncPanelState(u) ==
    LET e == EnsurePanelStateRequest([u EXCEPT !.panelRetryTimer = FALSE])
        r == RegisterRequest(e, e.panelStateRequestId)
        s == Replaced(r)
        progress == ProgressOf(r, r.panelStateRequestId)
    IN  IF e.panelStateRequestId = 0 THEN e
        ELSE IF progress = "" THEN [r EXCEPT !.connectionError = "too_many_actions"]
        ELSE IF r.phase # "ready" \/ progress = "completed" THEN r
        ELSE IF s.panelActionError \/ s.panelStateRequestId = 0 THEN s
        ELSE WriteLine(s, PanelAction(s, s.panelStateRequestId))

RecordPanelState(u, open) ==
    SyncPanelState(
        IF ~u.panelStateKnown \/ u.panelDesiredOpen # open
        THEN [u EXCEPT !.panelStateKnown = TRUE, !.panelDesiredOpen = open,
                       !.panelStateRequestId = 0, !.panelRetryCount = 0,
                       !.panelActionError = FALSE, !.panelRetryTimer = FALSE]
        ELSE u)

(* refreshAll and refreshProvider: one tracked request, never repeated. One *)
(* that cannot be written stays tracked and is reported; without a bridge a *)
(* reconnect is scheduled.                                                  *)
RefreshAll(u) ==
    LET id == AllocatedId(u)
        a  == AllocateRequestId(u)
        r  == RegisterRequest(a, id)
        w  == WriteLine(r, RefreshAction(r, id))
    IN  CASE u.phase # "ready" -> [u EXCEPT !.connectionError = "backend_unavailable"]
          [] u.phase = "ready" /\ id = 0 -> a
          [] u.phase = "ready" /\ id # 0 /\ ProgressOf(r, id) = "" ->
                 [r EXCEPT !.connectionError = "too_many_actions"]
          [] u.phase = "ready" /\ id # 0 /\ ProgressOf(r, id) # "" /\ w = r ->
                 IF r.bridge = "off" THEN ScheduleReconnect(r, "backend_unavailable")
                 ELSE [r EXCEPT !.connectionError = "backend_unavailable"]
          [] OTHER -> w

(****************************************************************************)
(* Frames from the daemon (reduceMessage, handleProtocolLine).              *)
(****************************************************************************)
ReconnectingState(u) == [u EXCEPT !.phase = "awaiting_hello"]

BeginHandshake(u) ==
    LET v == [ReconnectingState(u) EXCEPT !.connectionError = "",
                                          !.transportConnected = TRUE,
                                          !.handshakeTimer = TRUE]
    IN  WriteLine(v, ClientHello(v))

\* Mutant: what the previous backend sent survives its restart.
AcceptHelloKeepingSnapshot(u, stream) ==
    SyncPanelState([u EXCEPT !.phase = "ready", !.streamId = stream,
                             !.handshakeTimer = FALSE])

\* Mutant: every hello starts the display again.
AcceptHelloForgetting(u, stream) ==
    SyncPanelState([ForgetRequests(u) EXCEPT !.phase = "ready", !.streamId = stream,
        !.handshakeTimer = FALSE, !.lastSequence = 0, !.snapshot = NoSnapshot])

(* A hello of another stream comes from a restarted daemon: its sequence,   *)
(* the snapshot and the tracked requests start again.                       *)
AcceptHello(u, stream) ==
    LET v == [u EXCEPT !.phase = "ready", !.streamId = stream, !.handshakeTimer = FALSE]
        w == [ForgetRequests(v) EXCEPT !.lastSequence = 0, !.snapshot = NoSnapshot,
                  !.panelRetryCount = 0, !.panelActionError = FALSE,
                  !.panelRetryTimer = FALSE]
    IN  SyncPanelState(IF u.streamId # 0 /\ u.streamId # stream THEN w ELSE v)

AcceptSnapshot(u, stream, sequence) ==
    CASE sequence < u.lastSequence -> u
      [] sequence = u.lastSequence -> WriteLine(u, SnapshotAck(u, sequence))
      [] OTHER ->
             WriteLine([u EXCEPT !.lastSequence = sequence,
                                 !.snapshot = [stream |-> stream, sequence |-> sequence]],
                       SnapshotAck(u, sequence))

ValidProgressTransition(previous, state) ==
    \/ previous = "issued"
    \/ previous = "queued"
    \/ previous = "running" /\ state # "queued"
    \/ previous \in Terminal /\ previous = state

AcceptActionProgress(u, id, state) ==
    LET v == WithProgress(u, id, state)
        current == id = u.panelStateRequestId
    IN  CASE current /\ state = "completed" ->
                 [v EXCEPT !.panelRetryCount = 0, !.panelActionError = FALSE,
                           !.panelRetryTimer = FALSE]
          [] current /\ state \in {"failed", "cancelled"} -> SchedulePanelRetry(v)
          [] ~current /\ state \in Terminal /\ v.panelStateKnown
                 /\ v.panelStateRequestId = 0 /\ ~v.panelRetryTimer -> SyncPanelState(v)
          [] OTHER -> v

(* A frame the reducer rejects is fatal to the connection.                  *)
Rejected(u, m) ==
    CASE u.phase = "awaiting_hello" -> m.type # "hello"
      [] u.phase = "incompatible" -> TRUE
      [] u.phase = "ready" ->
             \/ m.type = "hello"
             \/ /\ m.type = "action_progress"
                /\ \/ ProgressOf(u, m.id) = ""
                   \/ ~ValidProgressTransition(ProgressOf(u, m.id), m.state)

HandleProtocolLine(u, m) ==
    CASE Rejected(u, m) -> ScheduleReconnect(u, "protocol_error")
      [] ~Rejected(u, m) /\ m.type = "hello" -> AcceptHello(u, m.stream)
      [] ~Rejected(u, m) /\ m.type = "snapshot" -> AcceptSnapshot(u, m.stream, m.sequence)
      [] ~Rejected(u, m) /\ m.type = "action_progress" ->
             AcceptActionProgress(u, m.id, m.state)

(****************************************************************************)
(* What a frontend keeps.                                                   *)
(****************************************************************************)
(* A request whose end has not been reported.                               *)
Open(u, id) == id \in DOMAIN u.requestProgress /\ u.requestProgress[id] \notin Terminal

(* Tracked requests have ids that were handed out, each in the order once.  *)
RequestsKept(u) ==
    /\ u.nextRequestId \in 1..MaxRequestId
    /\ DOMAIN u.requestProgress \subseteq 1..(u.nextRequestId - 1)
    /\ \A id \in DOMAIN u.requestProgress :
           u.requestProgress[id] \in {"issued", "queued", "running"} \cup Terminal
    /\ u.requestOrder \in Seq(DOMAIN u.requestProgress)
    /\ \A i, j \in DOMAIN u.requestOrder : u.requestOrder[i] = u.requestOrder[j] => i = j
    /\ u.panelStateRequestId \in 0..(u.nextRequestId - 1)
    /\ u.panelRetryCount \in 0..MaxPanelRetries
    /\ u.panelRetryTimer => u.panelStateRequestId = 0
    /\ u.panelDesiredOpen \in BOOLEAN

(* What is shown is of the stream that is spoken to, and a bridge that runs *)
(* is not started again.                                                    *)
ServiceKept(u) ==
    /\ DOMAIN u = DOMAIN NewService(<<1, 1>>)
    /\ u.session \in (Nat \ {0}) \X Nat
    /\ u.phase \in {"awaiting_hello", "ready"}
    /\ u.bridge \in {"off", "running", "stopping"}
    /\ u.reconnectTimer => u.bridge # "running"
    /\ u.connectionError # "protocol_error"
    /\ u.streamId \in Nat
    /\ u.snapshot \in [stream : Nat \ {0}, sequence : Nat \ {0}] \cup {NoSnapshot}
    /\ u.snapshot # NoSnapshot => u.snapshot.stream = u.streamId
    /\ u.lastSequence = u.snapshot.sequence
=================================================================================
