----------------------------- MODULE DisplayServer -----------------------------
(****************************************************************************)
(* The daemon's display protocol: one task per accepted connection, the     *)
(* publication every task watches, and the desktop frontend at the far end  *)
(* of a bridge process. The daemon runs on one thread, so a task's code     *)
(* between two awaits is one step; the bridge, the frontend and every other *)
(* task interleave at the awaits. Faults: a bridge dies with lines it has   *)
(* not forwarded, the handshake times out, the runtime's command channel is *)
(* full, the daemon restarts, the frontend's shell restarts.                *)
(****************************************************************************)
EXTENDS DisplayClient, FiniteSets

CONSTANTS
    MaxConnections,   \* connections ever made
    MaxPublications,  \* publications of one daemon incarnation
    Budgets           \* what the environment may do, one for each scenario

(* How often the daemon restarts, the frontend's shell restarts, the user   *)
(* toggles the panel or clicks refresh, a full channel refuses a popup      *)
(* command, a bridge fails or a handshake times out, and another program of *)
(* the user connects.                                                       *)
Spendable == {"restarts", "shells", "user", "refusals", "faults", "strangers"}

ServerAssumption ==
    {MaxConnections, MaxPublications} \subseteq Nat \ {0} /\ Budgets \subseteq [Spendable -> Nat]

VARIABLES
    stream,     \* the daemon incarnation, the stream id of its hello
    up,         \* whether the daemon runs
    published,  \* the sequence of the publication in the watch channel
    popup,      \* the popup flag of the runtime
    conn,       \* the connections, in the order they were made
    attached,   \* the connection of the frontend's last bridge
    ui,         \* the frontend
    applied,    \* the request whose panel state the runtime took last
    budget      \* what the environment may still do

vars == <<stream, up, published, popup, conn, attached, ui, applied, budget>>

Hello == [type |-> "hello", stream |-> stream]
Snapshot == [type |-> "snapshot", stream |-> stream, sequence |-> published]
Progress(id, state) == [type |-> "action_progress", id |-> id, state |-> state]
NoReply == [id |-> 0, state |-> "none"]
NoRequest == [session |-> <<0, 0>>, id |-> 0]

(* A connection as the bridge of the shell's given incarnation (of none for *)
(* another program) opened it: the listener has not accepted it.            *)
NewConnection(shell) ==
    [task |-> "pending", seen |-> 0, reply |-> NoReply, peer |-> TRUE,
     shell |-> shell, inbox |-> <<>>, outbox |-> <<>>]

Init ==
    /\ stream = 1 /\ up = TRUE /\ published = 1 /\ popup = FALSE
    /\ conn = <<>> /\ attached = 0
    /\ ui = NewService(<<1, 1>>)
    /\ applied = NoRequest
    /\ budget \in Budgets

Spend(what) == budget[what] > 0 /\ budget' = [budget EXCEPT ![what] = @ - 1]

(****************************************************************************)
(* The client tasks of the daemon.                                          *)
(****************************************************************************)
Serving(k) == conn[k].task \in {"accepted", "ready"}
Closed(c) == [c EXCEPT !.task = "closed", !.inbox = <<>>, !.reply = NoReply]

(* The line at the head of the inbox is read.                               *)
Taken(c) == [c EXCEPT !.inbox = Tail(@)]

(* A write to a peer that has gone fails, and the task ends with it.        *)
Written(c, frames) ==
    IF c.peer THEN [c EXCEPT !.outbox = @ \o frames] ELSE Closed(c)

(* accept_ready_display_clients; the task subscribes when it starts.        *)
Accept(k) ==
    /\ up /\ conn[k].task = "pending"
    /\ conn' = [conn EXCEPT ![k].task = "accepted", ![k].seen = published]
    /\ UNCHANGED <<stream, up, published, popup, ui, applied, budget, attached>>

\* Mutant: the hello is answered without the current publication, which the
\* subscription has already marked as seen.
ServeHelloOnly(k) ==
    /\ conn' = [conn EXCEPT ![k] =
           Written([Taken(@) EXCEPT !.task = "ready"], <<Hello>>)]
    /\ UNCHANGED <<stream, up, published, popup, ui, applied, budget, attached>>

(* The hello completes the handshake: the answer is followed at once by the *)
(* current publication, which stays unseen if it is newer than the          *)
(* subscription.                                                            *)
ServeHello(k) ==
    /\ conn' = [conn EXCEPT ![k] =
           Written([Taken(@) EXCEPT !.task = "ready"],
                   <<Hello, Snapshot>>)]
    /\ UNCHANGED <<stream, up, published, popup, ui, applied, budget, attached>>

\* Mutant: the panel state is applied before the progress line is written.
ServePanelActionFirst(k, m) ==
    /\ popup' = (m.action = "open_panel")
    /\ applied' = [session |-> m.session, id |-> m.id]
    /\ conn' = [conn EXCEPT ![k] =
           Written([Taken(@) EXCEPT !.reply = Progress(m.id, "completed")],
                   <<Progress(m.id, "running")>>)]
    /\ UNCHANGED <<stream, up, published, ui, budget, attached>>

(* run_action for a panel action: the progress line is written first; a     *)
(* full command channel refuses the command.                                *)
ServePanelAction(k, m) ==
    LET running(state) ==
            Written([Taken(conn[k]) EXCEPT !.reply = Progress(m.id, state)],
                    <<Progress(m.id, "running")>>)
    IN  /\ \/ /\ conn[k].peer
              /\ popup' = (m.action = "open_panel")
              /\ applied' = [session |-> m.session, id |-> m.id]
              /\ conn' = [conn EXCEPT ![k] = running("completed")]
              /\ UNCHANGED budget
           \/ /\ conn[k].peer
              /\ Spend("refusals")
              /\ conn' = [conn EXCEPT ![k] = running("failed")]
              /\ UNCHANGED <<popup, applied>>
           \/ /\ ~conn[k].peer
              /\ conn' = [conn EXCEPT ![k] = Closed(@)]
              /\ UNCHANGED <<popup, applied, budget>>
        /\ UNCHANGED <<stream, up, published, ui, attached>>

(* run_action for a refresh: every scope is admitted or coalesced, or there *)
(* is none, or the runtime refuses one.                                     *)
ServeRefresh(k, m) ==
    /\ \E state \in {"completed", "failed"} :
           conn' = [conn EXCEPT ![k] =
               Written([Taken(@) EXCEPT !.reply = Progress(m.id, state)],
                       <<Progress(m.id, "running")>>)]
    /\ UNCHANGED <<stream, up, published, popup, ui, applied, budget, attached>>

ServeAck(k) ==
    /\ conn' = [conn EXCEPT ![k] = Taken(@)]
    /\ UNCHANGED <<stream, up, published, popup, ui, applied, budget, attached>>

(* HandshakeGuard rejects a second hello, and anything before the first.    *)
OutOfSequence(k, m) == (conn[k].task = "ready") = (m.type = "hello")

ServeFrame(k) ==
    /\ up /\ Serving(k) /\ conn[k].reply = NoReply /\ conn[k].inbox # <<>>
    /\ LET m == Head(conn[k].inbox)
       IN  \/ /\ OutOfSequence(k, m)
              /\ conn' = [conn EXCEPT ![k] = Closed(@)]
              /\ UNCHANGED <<stream, up, published, popup, ui, applied, budget, attached>>
           \/ ~OutOfSequence(k, m) /\ m.type = "hello" /\ ServeHello(k)
           \/ ~OutOfSequence(k, m) /\ m.type = "snapshot_ack" /\ ServeAck(k)
           \/ /\ ~OutOfSequence(k, m) /\ m.type = "action"
              /\ IF m.action = "refresh_all" THEN ServeRefresh(k, m)
                                             ELSE ServePanelAction(k, m)

(* The end of run_action: the second await of the handler.                  *)
ServeReply(k) ==
    /\ up /\ Serving(k) /\ conn[k].reply # NoReply
    /\ conn' = [conn EXCEPT ![k] =
           Written([@ EXCEPT !.reply = NoReply], <<conn[k].reply>>)]
    /\ UNCHANGED <<stream, up, published, popup, ui, applied, budget, attached>>

(* The watch branch of the select: only after the handshake.                *)
ServeChanged(k) ==
    /\ up /\ conn[k].task = "ready" /\ conn[k].reply = NoReply
    /\ conn[k].seen # published
    /\ conn' = [conn EXCEPT ![k] = Written([@ EXCEPT !.seen = published], <<Snapshot>>)]
    /\ UNCHANGED <<stream, up, published, popup, ui, applied, budget, attached>>

ServeEof(k) ==
    /\ up /\ Serving(k) /\ conn[k].reply = NoReply
    /\ conn[k].inbox = <<>> /\ ~conn[k].peer
    /\ conn' = [conn EXCEPT ![k] = Closed(@)]
    /\ UNCHANGED <<stream, up, published, popup, ui, applied, budget, attached>>

(* Another program of the same user connects and does not know the protocol, *)
(* or repeats its hello.                                                    *)
StrangerConnects ==
    /\ up /\ Spend("strangers") /\ Len(conn) < MaxConnections
    /\ \E first \in {"hello", "action"} :
           LET m == [type |-> first, session |-> <<0, 1>>, id |-> 1, action |-> "open_panel"]
           IN  conn' = Append(conn, [NewConnection(0) EXCEPT !.inbox = <<m, m>>])
    /\ UNCHANGED <<stream, up, published, popup, ui, applied, attached>>

(* It leaves, or the bridge of a shell that is gone exits at last, with     *)
(* lines it has not forwarded.                                              *)
Leave(k) ==
    /\ k # attached /\ conn[k].peer
    /\ \E n \in 0..Len(conn[k].inbox) :
           conn' = [conn EXCEPT ![k].peer = FALSE, ![k].outbox = <<>>,
                                ![k].inbox = SubSeq(@, 1, n)]
    /\ UNCHANGED <<stream, up, published, popup, ui, applied, budget, attached>>

(* The runtime publishes.                                                   *)
Publish ==
    /\ up /\ published < MaxPublications
    /\ published' = published + 1
    /\ UNCHANGED <<stream, up, popup, conn, ui, applied, budget, attached>>

(* The daemon stops: its tasks and the sockets they own go with it.         *)
DaemonStop ==
    /\ up /\ Spend("restarts")
    /\ up' = FALSE
    /\ conn' = [k \in DOMAIN conn |-> Closed(conn[k])]
    /\ UNCHANGED <<stream, published, popup, ui, applied, attached>>

DaemonStart ==
    /\ ~up
    /\ up' = TRUE /\ stream' = stream + 1 /\ published' = 1 /\ popup' = FALSE
    /\ UNCHANGED <<conn, ui, applied, budget, attached>>

(****************************************************************************)
(* The frontend and its bridge.                                             *)
(****************************************************************************)
(* The frontend after u: its new lines go to the bridge's connection.       *)
Frontend(u) ==
    /\ ui' = [u EXCEPT !.lines = <<>>]
    /\ conn' = IF u.lines = <<>> \/ attached = 0 \/ conn[attached].task = "closed" THEN conn
               ELSE [conn EXCEPT ![attached].inbox = @ \o u.lines]

(* reconnectTimer fires startConnection. A bridge that finds no daemon      *)
(* exits; one that is still stopping is not started again.                  *)
StartConnection ==
    /\ ui.alive /\ ui.reconnectTimer
    /\ LET wanted == [ui EXCEPT !.reconnectTimer = FALSE, !.connectionWanted = TRUE]
           started == BeginHandshake([wanted EXCEPT !.bridge = "running"])
       IN  \/ /\ ui.bridge # "off"
              /\ ui' = wanted /\ UNCHANGED <<conn, attached>>
           \/ /\ ui.bridge = "off" /\ up /\ Len(conn) < MaxConnections
              /\ ui' = [started EXCEPT !.lines = <<>>]
              /\ conn' = Append(conn, [NewConnection(ui.session[1]) EXCEPT !.inbox = started.lines])
              /\ attached' = Len(conn) + 1
           \/ /\ ui.bridge = "off" /\ ~up
              /\ ui' = [ScheduleReconnect([started EXCEPT !.bridge = "off"],
                                          "backend_unavailable") EXCEPT !.lines = <<>>]
              /\ UNCHANGED <<conn, attached>>
    /\ UNCHANGED <<stream, up, published, popup, applied, budget>>

(* The bridge process exits: it was told to stop, the daemon closed its     *)
(* socket, or it failed; lines it has not forwarded are lost.               *)
BridgeExits ==
    /\ ui.bridge # "off"
    /\ \/ ui.bridge = "stopping" /\ UNCHANGED budget
       \/ ui.bridge = "running" /\ conn[attached].task = "closed"
             /\ conn[attached].outbox = <<>> /\ UNCHANGED budget
       \/ ui.bridge = "running" /\ Spend("faults")
    /\ \E n \in 0..Len(conn[attached].inbox) :
           conn' = [conn EXCEPT ![attached].peer = FALSE, ![attached].outbox = <<>>,
                                ![attached].inbox = SubSeq(@, 1, n)]
    /\ LET off == [ui EXCEPT !.bridge = "off", !.transportConnected = FALSE]
       IN  ui' = IF off.alive /\ off.connectionWanted
                 THEN ScheduleReconnect(off, "backend_unavailable") ELSE off
    /\ UNCHANGED <<stream, up, published, popup, applied, attached>>

(* A line of the bridge's output reaches handleProtocolLine.                *)
Deliver ==
    /\ ui.alive /\ ui.bridge = "running" /\ conn[attached].outbox # <<>>
    /\ LET u == HandleProtocolLine(ui, Head(conn[attached].outbox))
           rest == [conn[attached] EXCEPT !.outbox = Tail(@)]
       IN  /\ ui' = [u EXCEPT !.lines = <<>>]
           /\ conn' = [conn EXCEPT ![attached] =
                  IF @.task = "closed" THEN rest
                  ELSE [rest EXCEPT !.inbox = @ \o u.lines]]
    /\ UNCHANGED <<stream, up, published, popup, applied, budget, attached>>

HandshakeTimeout ==
    /\ ui.alive /\ ui.handshakeTimer /\ Spend("faults")
    /\ Frontend(ScheduleReconnect([ui EXCEPT !.handshakeTimer = FALSE], "handshake_timeout"))
    /\ UNCHANGED <<stream, up, published, popup, applied, attached>>

PanelRetry ==
    /\ ui.alive /\ ui.panelRetryTimer
    /\ Frontend(SyncPanelState(ui))
    /\ UNCHANGED <<stream, up, published, popup, applied, budget, attached>>

UserPanel ==
    /\ ui.alive /\ Spend("user")
    /\ Frontend(RecordPanelState(ui, ~ui.panelDesiredOpen))
    /\ UNCHANGED <<stream, up, published, popup, applied, attached>>

UserRefresh ==
    /\ ui.alive /\ Spend("user")
    /\ Frontend(RefreshAll(ui))
    /\ UNCHANGED <<stream, up, published, popup, applied, attached>>

(* Component.onDestruction: every timer stops and the bridge is told to.    *)
FrontendExit ==
    /\ ui.alive /\ Spend("shells")
    /\ ui' = [StopConnection(ui) EXCEPT
                 !.alive = FALSE, !.connectionWanted = FALSE,
                 !.reconnectTimer = FALSE, !.panelRetryTimer = FALSE]
    /\ UNCHANGED <<stream, up, published, popup, conn, applied, attached>>

(* The shell loads the service again (Component.onCompleted). The old       *)
(* bridge was told to stop; it need not have exited.                        *)
FrontendStart ==
    /\ ~ui.alive
    /\ ui' = NewService(<<ui.session[1] + 1, 1>>) /\ attached' = 0
    /\ UNCHANGED <<stream, up, published, popup, conn, applied, budget>>

Serve(k) ==
    \/ Accept(k) \/ ServeFrame(k) \/ ServeReply(k) \/ ServeChanged(k) \/ ServeEof(k)

Next ==
    \/ \E k \in DOMAIN conn : Serve(k) \/ Leave(k)
    \/ StrangerConnects
    \/ Publish \/ DaemonStop \/ DaemonStart
    \/ StartConnection \/ BridgeExits \/ Deliver \/ HandshakeTimeout \/ PanelRetry
    \/ UserPanel \/ UserRefresh \/ FrontendExit \/ FrontendStart

Spec == Init /\ [][Next]_vars

(* The daemon's executor, the bridge and the shell's event loop all run;    *)
(* nothing makes the environment publish, restart, fail or click.           *)
Fairness ==
    /\ \A k \in 1..MaxConnections : WF_vars(k \in DOMAIN conn /\ Serve(k))
    /\ WF_vars(StartConnection) /\ WF_vars(BridgeExits /\ UNCHANGED budget)
    /\ WF_vars(Deliver) /\ WF_vars(PanelRetry) /\ WF_vars(DaemonStart)

FairSpec == Spec /\ Fairness

(****************************************************************************)
(* Properties.                                                              *)
(****************************************************************************)
(* Type correctness: counters within their bounds, tasks and bridges in a   *)
(* known state, at most one connection with an open bridge end.             *)
TypeOK ==
    /\ stream \in Nat \ {0} /\ published \in 1..MaxPublications
    /\ {up, popup} \subseteq BOOLEAN
    /\ budget \in [Spendable -> Nat] /\ Len(conn) <= MaxConnections
    /\ \A k \in DOMAIN conn :
           /\ conn[k].task \in {"pending", "accepted", "ready", "closed"}
           /\ k = attached /\ conn[k].peer => ui.bridge # "off"
    /\ ui.bridge \in {"off", "running", "stopping"}
    /\ ui.phase \in {"awaiting_hello", "ready"}
    /\ ui.nextRequestId \in 1..MaxRequestId
    /\ ui.panelRetryCount \in 0..MaxPanelRetries

(* The frontend's reducer never has to reject a frame: through reconnects,  *)
(* resends, evictions and daemon restarts, every progress line names a      *)
(* request the frontend still tracks and moves it forward.                  *)
NeverRejected == ui.connectionError # "protocol_error"

(* After a daemon restart the sequence starts again at one, and nothing of  *)
(* the old incarnation stays on display once the new one has said hello.    *)
FromBackend ==
    /\ ui.snapshot # NoSnapshot => ui.snapshot.stream = ui.streamId
    /\ ui.lastSequence = ui.snapshot.sequence

(* Nothing is applied for a client that has not completed the handshake.    *)
HandshakeFirst == applied.session # <<0, 1>>

(* The frontend's reducer never has to reject a frame, and what it shows    *)
(* came from the backend it is talking to, over reconnects, resends,        *)
(* evictions and daemon restarts, after which the sequence starts again;    *)
(* and nothing is applied for a client without a handshake.                 *)
ShownIsOfStream == TypeOK /\ NeverRejected /\ FromBackend /\ HandshakeFirst

(* While the frontend talks to one daemon incarnation, the display never    *)
(* goes back in time or blank, over any number of reconnects and duplicates.*)
KeepsUp ==
    ui'.streamId = ui.streamId /\ ui'.session[1] = ui.session[1]
          => ui'.snapshot.sequence >= ui.snapshot.sequence
ShownNeverRegresses == [][KeepsUp]_vars

(* The order of requests: by frontend incarnation, session, request id.     *)
NotEarlier(a, b) ==
    \/ a.session[1] > b.session[1]
    \/ a.session[1] = b.session[1] /\ a.session[2] > b.session[2]
    \/ a.session = b.session /\ a.id >= b.id

(* The runtime never takes a panel state that is older than one it took,    *)
(* over any reconnects: a task left over from a broken connection still has *)
(* unread lines, but its progress line fails before the command is          *)
(* submitted. Over a restart of the shell that holds once the old shell's   *)
(* bridge is gone: nothing makes the new shell wait for that                *)
(* (Service.qml:2884), and until then a line of the old one may come last.  *)
NeverBackwards ==
    \/ NotEarlier(applied', applied)
    \/ /\ applied'.session[1] < applied.session[1]
       /\ \E k \in DOMAIN conn : k # attached /\ conn[k].peer /\ conn[k].shell = applied'.session[1]
NoStaleAction == [][NeverBackwards]_vars

----------------------------------------------------------------------------
(* The invariant behind them. What crosses a connection, in both            *)
(* directions.                                                              *)
Sessions == Nat \X Nat
Lines ==
    [type : {"hello"}, session : Sessions]
    \cup [type : {"snapshot_ack"}, sequence : Nat]
    \cup [type : {"action", "hello"}, session : Sessions, id : Nat \ {0},
          action : {"open_panel", "close_panel", "refresh_all"}]
Reports == [type : {"action_progress"}, id : Nat \ {0}, state : {"running", "completed", "failed"}]
Frames ==
    [type : {"hello"}, stream : Nat \ {0}]
    \cup [type : {"snapshot"}, stream : Nat \ {0}, sequence : Nat \ {0}]
    \cup Reports
Connections ==
    [task : {"pending", "accepted", "ready", "closed"}, seen : Nat,
     reply : Reports \cup {NoReply}, peer : BOOLEAN, shell : Nat,
     inbox : Seq(Lines), outbox : Seq(Frames)]

IsPanel(m) == m.type = "action" /\ m.action # "refresh_all"

(* A client that is not the frontend has not said hello, or says it again.  *)
Stranger(c) ==
    \/ \A i \in DOMAIN c.inbox : c.inbox[i].type = "hello"
    \/ c.task # "ready" /\ \A i \in DOMAIN c.inbox : c.inbox[i].type = "action"

(* A daemon that is down has no task. A shell has at most one open bridge:  *)
(* another open connection is of an earlier shell or a stranger's.          *)
ConnectionsKept ==
    /\ conn \in Seq(Connections)
    /\ attached \in 0..Len(conn)
    /\ ui.bridge # "off" => attached # 0
    /\ ui.bridge = "running" => conn[attached].peer
    /\ ui.lines = <<>>
    /\ ~up => \A k \in DOMAIN conn : conn[k].task = "closed"
    /\ attached # 0 => conn[attached].shell = ui.session[1]
    /\ \A k \in DOMAIN conn :
           /\ conn[k].shell <= ui.session[1]
           /\ conn[k].peer /\ conn[k].shell = 0 => Stranger(conn[k])
           /\ conn[k].peer /\ conn[k].shell = ui.session[1] => k = attached
           /\ \A j \in DOMAIN conn :
                  conn[k].peer /\ conn[j].peer /\ conn[j].shell = conn[k].shell
                  /\ conn[k].shell # 0 => j = k

(* Before the frontend has taken the hello of a running bridge: it waits in *)
(* the inbox, or its answer leads the outbox, or the task ended without.    *)
AwaitsHello(c) ==
    \/ /\ c.task \in {"pending", "accepted"} /\ c.outbox = <<>> /\ c.reply = NoReply
       /\ Len(c.inbox) = 1 /\ c.inbox[1].type = "hello"
    \/ /\ c.task \in {"ready", "closed"} /\ c.reply = NoReply /\ c.inbox = <<>>
       /\ c.task = "ready" => c.outbox # <<>>
       /\ c.outbox # <<>> => c.outbox[1].type = "hello"
       /\ c.task = "ready" => c.outbox[1].stream = stream
       /\ \A i \in 2..Len(c.outbox) :
              c.outbox[i].type = "snapshot" /\ c.outbox[i].stream = c.outbox[1].stream

(* After it: no second hello either way, snapshots are of the stream.       *)
Greeted(u, c) ==
    /\ c.task \in {"ready", "closed"}
    /\ c.task = "ready" => u.streamId = stream
    /\ \A i \in DOMAIN c.inbox : c.inbox[i].type # "hello"
    /\ \A i \in DOMAIN c.outbox : /\ c.outbox[i].type # "hello"
                                  /\ c.outbox[i].type = "snapshot" => c.outbox[i].stream = u.streamId

(* Whatever is still to be reported is of a request the frontend tracks as  *)
(* open, and the end of a request is the last that is reported of it.       *)
ReportsInOrder(u, c) ==
    /\ \A i \in DOMAIN c.inbox : c.inbox[i].type = "action" =>
           /\ Open(u, c.inbox[i].id)
           /\ c.reply.id # c.inbox[i].id
           /\ \A j \in DOMAIN c.inbox :
                  c.inbox[j].type = "action" /\ c.inbox[j].id = c.inbox[i].id => i = j
           /\ \A j \in DOMAIN c.outbox :
                  c.outbox[j].type = "action_progress" => c.outbox[j].id # c.inbox[i].id
    /\ c.reply # NoReply => Open(u, c.reply.id) /\ c.reply.state \in Terminal
    /\ \A i \in DOMAIN c.outbox : c.outbox[i].type = "action_progress" =>
           /\ Open(u, c.outbox[i].id)
           /\ c.outbox[i].state \in Terminal =>
                  /\ c.reply.id # c.outbox[i].id
                  /\ \A j \in (i + 1)..Len(c.outbox) :
                         c.outbox[j].type = "action_progress" => c.outbox[j].id # c.outbox[i].id

Talks(u, c) ==
    /\ u.phase = "awaiting_hello" => AwaitsHello(c)
    /\ u.phase = "ready" => Greeted(u, c) /\ ReportsInOrder(u, c)

BridgeKept == ui.bridge = "running" => Talks(ui, conn[attached])

(* A panel request is none the frontend has yet to make: the current one is *)
(* the latest of its session.                                               *)
Made(u, a) ==
    \/ a.session[1] < u.session[1]
    \/ a.session[1] = u.session[1] /\ a.session[2] < u.session[2]
    \/ /\ a.session = u.session /\ a.id < u.nextRequestId
       /\ u.panelStateRequestId > 0 => a.id <= u.panelStateRequestId

(* Those that are to be read are in order, after the one applied last if    *)
(* that is not of a later shell.                                            *)
InOrder(u, shell, inbox, last) ==
    \A i \in DOMAIN inbox : IsPanel(inbox[i]) =>
        /\ inbox[i].session[1] = shell /\ Made(u, inbox[i])
        /\ NotEarlier(inbox[i], last) \/ last.session[1] > shell
        /\ \A j \in 1..(i - 1) : IsPanel(inbox[j]) => NotEarlier(inbox[i], inbox[j])

PanelsInOrder ==
    /\ applied \in [session : Sessions, id : Nat] /\ HandshakeFirst /\ Made(ui, applied)
    /\ \A k \in DOMAIN conn : conn[k].peer /\ conn[k].shell # 0 =>
           InOrder(ui, conn[k].shell, conn[k].inbox, applied)

DisplayKept ==
    /\ TypeOK /\ RequestsKept(ui) /\ ServiceKept(ui)
    /\ ConnectionsKept /\ BridgeKept /\ PanelsInOrder

(* When the user, the faults and the daemon come to rest, the popup flag of *)
(* the runtime is the panel the user sees, or the frontend says it gave up. *)
PanelArrived ==
    ui.panelStateKnown /\ ui.alive => \/ popup = ui.panelDesiredOpen
                                      \/ ui.panelActionError
                                      \/ ui.connectionError = "too_many_actions"

(* The frontend ends up showing the daemon's last publication, after any    *)
(* number of reconnects and a daemon restart.                               *)
Converged == ui.alive => ui.snapshot = [stream |-> stream, sequence |-> published]

================================================================================
