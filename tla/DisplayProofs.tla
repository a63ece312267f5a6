----------------------------- MODULE DisplayProofs -----------------------------
(****************************************************************************)
(* Proofs about the display protocol, for any number of connections,        *)
(* publications, tracked requests and retries and for every budget of the   *)
(* environment. The first half shows what every function of the frontend    *)
(* does to its record, the second that every step of the system keeps       *)
(* DisplayKept, from which the properties follow.                           *)
(****************************************************************************)
EXTENDS MCDisplay, TLAPS, SequenceTheorems, WellFoundedInduction

(****************************************************************************)
(* The frontend's functions.                                                *)
(****************************************************************************)
Kept(u) == RequestsKept(u) /\ ServiceKept(u)

(* v differs from u in the fields F only.                                   *)
Only(u, v, F) == DOMAIN v = DOMAIN u /\ \A f \in DOMAIN u \ F : v[f] = u[f]

(* The session goes on: no request is forgotten that is still open, and the *)
(* current panel request is the old one, none or a new one.                 *)
Stays(u, v) ==
    /\ v.session = u.session /\ v.bridge = u.bridge /\ v.nextRequestId >= u.nextRequestId
    /\ \A id : Open(u, id) => Open(v, id)
    /\ \/ v.panelStateRequestId = 0 \/ v.panelStateRequestId = u.panelStateRequestId
       \/ v.panelStateRequestId >= u.nextRequestId

(* Its ids are exhausted: the next one begins on another connection.        *)
Renewed(u, v) ==
    /\ v.session = <<u.session[1], u.session[2] + 1>> /\ v.panelStateRequestId = 0
    /\ v.bridge # "running" /\ (v.bridge = "off" <=> u.bridge = "off")

(* The fields that the requests and the panel state live in.                *)
Panel ==
    {"requestProgress", "requestOrder", "session", "nextRequestId", "panelStateRequestId",
     "panelStateKnown", "panelDesiredOpen", "panelRetryCount", "panelRetryTimer",
     "panelActionError", "connectionError", "connectionWanted", "transportConnected",
     "bridge", "handshakeTimer", "reconnectTimer"}

Moves(u, v) == Kept(v) /\ Only(u, v, Panel) /\ (Stays(u, v) \/ Renewed(u, v))

(* A set of naturals that is not empty has a least member.                  *)
LEMMA LeastNatural ==
    ASSUME NEW T \in SUBSET Nat, T # {}
    PROVE  \E n \in T : \A m \in T : n <= m
<1>1. PICK n \in T : \A m \in T : <<m, n>> \notin OpToRel(<, Nat)
  BY WFMin, NatLessThanWellFounded
<1>2. \A m \in T : n <= m
  <2>1. OpToRel(<, Nat) = {ss \in Nat \X Nat : ss[1] < ss[2]}
    BY Zenon DEF OpToRel
  <2>2. \A m \in T : <<m, n>> \notin {ss \in Nat \X Nat : ss[1] < ss[2]}
    BY <1>1, <2>1, Zenon
  <2>3. ASSUME NEW m \in T, m < n  PROVE FALSE
    <3>1. <<m, n>> \in Nat \X Nat /\ <<m, n>>[1] < <<m, n>>[2]
      BY <2>3
    <3> QED  BY <3>1, <2>2, Zenon
  <2> QED  BY <2>3
<1> QED  BY <1>2

(* RemoveAt takes one position out and keeps the order of the others.       *)
LEMMA Removal ==
  ASSUME NEW S, NEW s \in Seq(S), NEW i \in 1..Len(s)
  PROVE  /\ RemoveAt(s, i) \in Seq(S) /\ Len(RemoveAt(s, i)) = Len(s) - 1
         /\ \A j \in 1..(Len(s) - 1) : RemoveAt(s, i)[j] = IF j < i THEN s[j] ELSE s[j + 1]
<1> DEFINE a == SubSeq(s, 1, i - 1)
           b == SubSeq(s, i + 1, Len(s))
<1>1. \A j \in 1..Len(s) : s[j] \in S
  BY ElementOfSeq
<1>2. /\ a \in Seq(S) /\ Len(a) = i - 1 /\ \A j \in 1..(i - 1) : a[j] = s[j]
  <2>1. \A j \in 1..(i - 1) : s[j] \in S  BY <1>1
  <2>2. 1 \in Int /\ i - 1 \in Int  OBVIOUS
  <2>3. /\ a \in Seq(S) /\ Len(a) = IF 1 <= i - 1 THEN i - 1 - 1 + 1 ELSE 0
        /\ \A j \in 1..(i - 1 - 1 + 1) : a[j] = s[1 + j - 1]
    BY <2>1, <2>2, SubSeqProperties
  <2> QED  BY <2>3
<1>3. /\ b \in Seq(S) /\ Len(b) = Len(s) - i /\ \A j \in 1..(Len(s) - i) : b[j] = s[i + j]
  <2>1. \A j \in (i + 1)..Len(s) : s[j] \in S  BY <1>1
  <2>2. i + 1 \in Int /\ Len(s) \in Int  OBVIOUS
  <2>3. /\ b \in Seq(S) /\ Len(b) = IF i + 1 <= Len(s) THEN Len(s) - (i + 1) + 1 ELSE 0
        /\ \A j \in 1..(Len(s) - (i + 1) + 1) : b[j] = s[(i + 1) + j - 1]
    BY <2>1, <2>2, SubSeqProperties
  <2> QED  BY <2>3
<1> HIDE DEF a, b
<1>4. /\ a \o b \in Seq(S) /\ Len(a \o b) = Len(a) + Len(b)
      /\ \A j \in 1..(Len(a) + Len(b)) : (a \o b)[j] = IF j <= Len(a) THEN a[j] ELSE b[j - Len(a)]
  BY <1>2, <1>3, ConcatProperties
<1>5. RemoveAt(s, i) = a \o b  BY DEF RemoveAt, a, b
<1>6. \A j \in 1..(Len(s) - 1) : (a \o b)[j] = IF j < i THEN s[j] ELSE s[j + 1]
  BY <1>2, <1>3, <1>4
<1>7. Len(a \o b) = Len(s) - 1  BY <1>2, <1>3, <1>4
<1> QED  BY <1>4, <1>5, <1>6, <1>7, Zenon

(* The limits of the frontend.                                              *)
LEMMA ClientLimits ==
  MaxTracked \in Nat \ {0} /\ MaxRequestId \in Nat \ {0} /\ MaxPanelRetries \in Nat
BY DisplayAssumption DEF ClientAssumption

(* The fields of a frontend.                                                *)
Fields == DOMAIN NewService(<<1, 1>>)

(* The fields of a frontend record.                                         *)
LEMMA FieldsAre ==
  Fields = {"alive", "session", "nextRequestId", "phase", "streamId", "lastSequence",
     "snapshot", "requestProgress", "requestOrder", "connectionWanted",
     "transportConnected", "bridge", "connectionError", "handshakeTimer",
     "reconnectTimer", "panelStateKnown", "panelDesiredOpen", "panelStateRequestId",
     "panelRetryCount", "panelRetryTimer", "panelActionError", "lines"}
BY DEF Fields, NewService

(* The counters of a frontend.                                              *)
LEMMA Counters ==
  ASSUME NEW u, RequestsKept(u)
  PROVE  /\ u.nextRequestId \in Nat \ {0} /\ u.nextRequestId <= MaxRequestId
         /\ u.panelStateRequestId \in Nat /\ u.panelStateRequestId < u.nextRequestId
         /\ u.panelRetryCount \in Nat /\ u.panelRetryCount <= MaxPanelRetries
<1>1. u.nextRequestId \in 1..MaxRequestId  BY DEF RequestsKept
<1>2. u.nextRequestId \in Nat \ {0} /\ u.nextRequestId <= MaxRequestId  BY <1>1, ClientLimits
<1>3. u.panelStateRequestId \in 0..(u.nextRequestId - 1)  BY DEF RequestsKept
<1>4. u.panelStateRequestId \in Nat /\ u.panelStateRequestId < u.nextRequestId  BY <1>2, <1>3
<1>5. u.panelRetryCount \in 0..MaxPanelRetries  BY DEF RequestsKept
<1> QED  BY <1>2, <1>4, <1>5, ClientLimits

(* Two fields that are kept keep what is said of them.                      *)
LEMMA KeptByService ==
  ASSUME NEW u, NEW v, Kept(u), RequestsKept(v), Only(u, v, Panel), v.session = u.session,
         v.bridge = u.bridge, v.reconnectTimer = u.reconnectTimer,
         v.connectionError # "protocol_error"
  PROVE  Kept(v)
BY FieldsAre DEF Kept, ServiceKept, Only, Panel, Fields

(* registerRequest: an open request stays, and the new one is open.         *)
LEMMA Registering ==
  ASSUME NEW u, Kept(u), NEW id \in 1..(u.nextRequestId - 1)
  PROVE  LET v == RegisterRequest(u, id)
         IN  /\ Kept(v) /\ Only(u, v, {"requestProgress", "requestOrder"})
             /\ \A r : Open(u, r) => Open(v, r)
             /\ id \in DOMAIN v.requestProgress =>
                    v.requestProgress[id] = IF id \in DOMAIN u.requestProgress
                                            THEN u.requestProgress[id] ELSE "issued"
<1> DEFINE v == RegisterRequest(u, id)
           full == Len(u.requestOrder) >= MaxTracked
           room == IF full THEN Evict(u, Min(Evictable(u))) ELSE u
           added == [WithProgress(room, id, "issued") EXCEPT !.requestOrder = Append(@, id)]
<1>1. CASE id \in DOMAIN u.requestProgress \/ (full /\ Evictable(u) = {})
  <2>1. v = u  BY <1>1 DEF RegisterRequest
  <2> QED  BY <1>1, <2>1 DEF Only, Evictable
<1>2. CASE ~(id \in DOMAIN u.requestProgress \/ (full /\ Evictable(u) = {}))
  <2>1. v = added  BY <1>2 DEF RegisterRequest
  <2>2. /\ DOMAIN room = DOMAIN u /\ \A f \in Fields \ {"requestProgress", "requestOrder"} : room[f] = u[f]
        /\ DOMAIN room.requestProgress \subseteq DOMAIN u.requestProgress
        /\ \A r \in DOMAIN room.requestProgress : room.requestProgress[r] = u.requestProgress[r]
        /\ \A r : Open(u, r) => r \in DOMAIN room.requestProgress
        /\ room.requestOrder \in Seq(DOMAIN room.requestProgress)
        /\ \A i, j \in DOMAIN room.requestOrder : room.requestOrder[i] = room.requestOrder[j] => i = j
    <3>1. CASE ~full
      BY <3>1 DEF Kept, RequestsKept, ServiceKept, Fields, Open
    <3>2. CASE full
      <4> DEFINE order == u.requestOrder
                 n == Min(Evictable(u))
                 gone == order[n]
                 left == DOMAIN u.requestProgress \ {gone}
      <4>1. Evictable(u) # {} /\ Evictable(u) \subseteq 1..Len(order) /\ order \in Seq(DOMAIN u.requestProgress)
        BY <1>2, <3>2 DEF Evictable, Kept, RequestsKept
      <4>2. n \in Evictable(u)
        <5>1. Evictable(u) \in SUBSET Nat  BY <4>1
        <5>2. \E x \in Evictable(u) : \A y \in Evictable(u) : x <= y
          BY <4>1, <5>1, LeastNatural
        <5> QED  BY <5>2, Zenon DEF Min
      <4>3. n \in 1..Len(order) /\ gone \in DOMAIN u.requestProgress /\ u.requestProgress[gone] \in Terminal
        BY <4>1, <4>2, ElementOfSeq DEF Evictable
      <4>4. /\ RemoveAt(order, n) \in Seq(DOMAIN u.requestProgress)
            /\ Len(RemoveAt(order, n)) = Len(order) - 1
            /\ \A j \in 1..(Len(order) - 1) : RemoveAt(order, n)[j] = IF j < n THEN order[j] ELSE order[j + 1]
        BY <4>1, <4>3, Removal
      <4>5. \A i, j \in 1..Len(order) : order[i] = order[j] => i = j
        BY <4>1 DEF Kept, RequestsKept
      <4>6. room = Evict(u, n)  BY <3>2
      <4>7. /\ DOMAIN room = DOMAIN u /\ \A f \in Fields \ {"requestProgress", "requestOrder"} : room[f] = u[f]
            /\ room.requestProgress = [r \in left |-> u.requestProgress[r]]
            /\ room.requestOrder = RemoveAt(order, n)
        BY <4>6, FieldsAre DEF Evict, Kept, ServiceKept, Fields
      <4> HIDE DEF order, n, room
      <4>8. DOMAIN room.requestOrder = 1..(Len(order) - 1)
        BY <4>4, <4>7
      <4>9. \A j \in 1..(Len(order) - 1) : room.requestOrder[j] \in left
        BY <4>1, <4>3, <4>4, <4>5, <4>7, ElementOfSeq
      <4>10. room.requestOrder \in Seq(left)
        <5>1. Len(order) - 1 \in Nat  BY <4>1, <4>3
        <5>2. room.requestOrder = [j \in 1..(Len(order) - 1) |-> room.requestOrder[j]]
          BY <4>4, <4>7, <4>8
        <5> QED  BY <4>9, <5>1, <5>2, IsASeq
      <4>11. \A i, j \in 1..(Len(order) - 1) : room.requestOrder[i] = room.requestOrder[j] => i = j
        BY <4>1, <4>3, <4>4, <4>5, <4>7
      <4> QED  BY <4>3, <4>7, <4>8, <4>10, <4>11 DEF Open
    <3> QED  BY <3>1, <3>2
  <2> HIDE DEF room
  <2>3. /\ DOMAIN v = Fields /\ \A f \in Fields \ {"requestProgress", "requestOrder"} : v[f] = room[f]
        /\ v.requestProgress = [r \in DOMAIN room.requestProgress \cup {id} |->
                                   IF r = id THEN "issued" ELSE room.requestProgress[r]]
        /\ v.requestOrder = Append(room.requestOrder, id)
    BY <2>1, <2>2, FieldsAre DEF WithProgress, Kept, ServiceKept, Fields
  <2> HIDE DEF v
  <2>4. id \notin DOMAIN room.requestProgress  BY <1>2, <2>2
  <2>5. /\ v.requestOrder \in Seq(DOMAIN v.requestProgress)
        /\ \A i, j \in DOMAIN v.requestOrder : v.requestOrder[i] = v.requestOrder[j] => i = j
    <3> DEFINE s == room.requestOrder
               D == DOMAIN room.requestProgress \cup {id}
    <3>1. s \in Seq(DOMAIN room.requestProgress) /\ s \in Seq(D) /\ id \in D /\ DOMAIN v.requestProgress = D
      BY <2>2, <2>3, SeqMonotonic
    <3>2. /\ v.requestOrder \in Seq(D) /\ DOMAIN v.requestOrder = 1..(Len(s) + 1)
          /\ v.requestOrder[Len(s) + 1] = id
          /\ \A i \in 1..Len(s) : v.requestOrder[i] = s[i]
      BY <2>3, <3>1
    <3>3. \A i \in 1..Len(s) : s[i] # id
      BY <2>4, <3>1, ElementOfSeq
    <3>4. \A i, j \in 1..Len(s) : s[i] = s[j] => i = j
      BY <2>2, <3>1
    <3>5. Len(s) \in Nat  BY <3>1
    <3> HIDE DEF s, D
    <3> QED  BY <3>1, <3>2, <3>3, <3>4, <3>5
  <2>6. Only(u, v, {"requestProgress", "requestOrder"})
    BY <2>2, <2>3 DEF Only, Kept, ServiceKept, Fields
  <2>7. RequestsKept(v)
    <3>1. \A r \in DOMAIN v.requestProgress :
              v.requestProgress[r] \in {"issued", "queued", "running"} \cup Terminal
      BY <2>2, <2>3 DEF Kept, RequestsKept
    <3> QED  BY <2>2, <2>3, <2>5, <2>6, <3>1, FieldsAre DEF Only, Kept, RequestsKept, ServiceKept, Fields
  <2>8. Kept(v)
    <3>1. Only(u, v, Panel)
      BY <2>6 DEF Only, Panel
    <3>2. DOMAIN u = Fields  BY DEF Kept, ServiceKept, Fields
    <3>3. /\ v.session = u.session /\ v.bridge = u.bridge
          /\ v.reconnectTimer = u.reconnectTimer /\ v.connectionError = u.connectionError
          /\ u.connectionError # "protocol_error"
      BY <2>6, <3>2, FieldsAre DEF Only, Kept, ServiceKept
    <3> QED  BY <2>7, <3>1, <3>3, KeptByService
  <2>9. \A r : Open(u, r) => Open(v, r)
    BY <1>2, <2>2, <2>3 DEF Open
  <2> QED  BY <1>2, <2>3, <2>6, <2>8, <2>9 DEF v
<1> QED  BY <1>1, <1>2

(* scheduleReconnect, of a frontend that can go on.                         *)
LEMMA Reconnecting ==
  ASSUME NEW u, Kept(u), NEW reason, reason # "protocol_error"
  PROVE  LET v == ScheduleReconnect(u, reason)
         IN  /\ Kept(v) /\ v.bridge # "running" /\ (v.bridge = "off" <=> u.bridge = "off")
             /\ Only(u, v, {"transportConnected", "handshakeTimer", "bridge", "connectionError",
                            "connectionWanted", "reconnectTimer"})
<1> DEFINE v == ScheduleReconnect(u, reason)
<1>1. DOMAIN u = Fields  BY DEF Kept, ServiceKept, Fields
<1>2. v = [StopConnection(u) EXCEPT !.connectionError = reason,
                                    !.connectionWanted = FALSE, !.reconnectTimer = TRUE]
  BY DEF ScheduleReconnect, Kept, ServiceKept
<1>3. /\ Only(u, v, {"transportConnected", "handshakeTimer", "bridge", "connectionError",
                     "connectionWanted", "reconnectTimer"})
      /\ v.connectionError = reason /\ v.bridge = IF u.bridge = "running" THEN "stopping" ELSE u.bridge
  BY <1>1, <1>2, FieldsAre DEF StopConnection, Only
<1> HIDE DEF v
<1>4. /\ v.requestProgress = u.requestProgress /\ v.requestOrder = u.requestOrder
      /\ v.nextRequestId = u.nextRequestId /\ v.panelStateRequestId = u.panelStateRequestId
      /\ v.panelRetryCount = u.panelRetryCount /\ v.panelRetryTimer = u.panelRetryTimer
      /\ v.panelDesiredOpen = u.panelDesiredOpen
  BY <1>1, <1>3, FieldsAre DEF Only
<1>5. RequestsKept(v)  BY <1>4 DEF Kept, RequestsKept
<1>6. ServiceKept(v)
  BY <1>1, <1>3, FieldsAre DEF Only, Kept, ServiceKept, Fields
<1> QED  BY <1>3, <1>5, <1>6 DEF Kept, ServiceKept, v

(* allocateRequestId: the next id, or the next session.                     *)
LEMMA Allocating ==
  ASSUME NEW u, Kept(u)
  PROVE  LET v == AllocateRequestId(u)
         IN  \/ /\ AllocatedId(u) = 0
                /\ Kept(v) /\ Only(u, v, Panel) /\ Renewed(u, v)
             \/ /\ AllocatedId(u) = u.nextRequestId /\ AllocatedId(u) # 0
                /\ Kept(v) /\ Only(u, v, {"nextRequestId"}) /\ v.nextRequestId = u.nextRequestId + 1
<1> DEFINE v == AllocateRequestId(u)
<1>1. DOMAIN u = Fields /\ u.nextRequestId \in 1..MaxRequestId /\ MaxRequestId \in Nat \ {0}
  BY ClientLimits DEF Kept, RequestsKept, ServiceKept, Fields
<1>2. CASE u.nextRequestId >= MaxRequestId
  <2> DEFINE w == [ForgetRequests(u) EXCEPT !.session = <<@[1], @[2] + 1>>,
                                       !.nextRequestId = 1, !.panelStateRequestId = 0]
  <2>1. v = ScheduleReconnect(w, "request_id_space_exhausted") /\ AllocatedId(u) = 0
    BY <1>2 DEF AllocateRequestId, AllocatedId
  <2>2. /\ Only(u, w, {"session", "nextRequestId", "panelStateRequestId", "requestProgress", "requestOrder"})
        /\ w.session = <<u.session[1], u.session[2] + 1>> /\ w.nextRequestId = 1
        /\ w.panelStateRequestId = 0 /\ w.requestProgress = <<>> /\ w.requestOrder = <<>>
    BY <1>1, FieldsAre DEF ForgetRequests, Only
  <2> HIDE DEF w
  <2>3. RequestsKept(w)
    BY <1>1, <2>2, FieldsAre DEF Only, Kept, RequestsKept
  <2>4. ServiceKept(w)
    BY <1>1, <2>2, FieldsAre DEF Only, Kept, ServiceKept, Fields
  <2>5. Kept(w)  BY <2>3, <2>4 DEF Kept
  <2>6. /\ Kept(v) /\ v.bridge # "running" /\ (v.bridge = "off" <=> w.bridge = "off")
        /\ Only(w, v, {"transportConnected", "handshakeTimer", "bridge", "connectionError",
                       "connectionWanted", "reconnectTimer"})
    BY <2>1, <2>5, Reconnecting
  <2> HIDE DEF v
  <2>7. Only(u, v, Panel)
    BY <1>1, <2>2, <2>6, FieldsAre DEF Only, Panel
  <2>8. Renewed(u, v)
    BY <1>1, <2>2, <2>6, FieldsAre DEF Only, Renewed
  <2> QED  BY <2>1, <2>6, <2>7, <2>8 DEF v
<1>3. CASE ~(u.nextRequestId >= MaxRequestId)
  <2>1. v = [u EXCEPT !.nextRequestId = @ + 1] /\ AllocatedId(u) = u.nextRequestId
    BY <1>3 DEF AllocateRequestId, AllocatedId
  <2>2. Only(u, v, {"nextRequestId"}) /\ v.nextRequestId = u.nextRequestId + 1
    BY <1>1, <2>1, FieldsAre DEF Only
  <2> HIDE DEF v
  <2>3. RequestsKept(v)
    <3>1. /\ v.requestProgress = u.requestProgress /\ v.requestOrder = u.requestOrder
          /\ v.panelStateRequestId = u.panelStateRequestId /\ v.panelRetryCount = u.panelRetryCount
          /\ v.panelRetryTimer = u.panelRetryTimer /\ v.panelDesiredOpen = u.panelDesiredOpen
      BY <1>1, <2>2, FieldsAre DEF Only
    <3>2. /\ u.nextRequestId \in Nat \ {0} /\ u.panelStateRequestId \in Nat
          /\ u.panelStateRequestId < u.nextRequestId
      BY Counters DEF Kept
    <3>3. /\ v.nextRequestId \in 1..MaxRequestId /\ v.panelStateRequestId \in 0..(v.nextRequestId - 1)
          /\ 1..(u.nextRequestId - 1) \subseteq 1..(v.nextRequestId - 1)
      BY <1>1, <1>3, <2>2, <3>1, <3>2
    <3> QED  BY <3>1, <3>3 DEF Kept, RequestsKept
  <2>4. ServiceKept(v)
    BY <1>1, <2>2, FieldsAre DEF Only, Kept, ServiceKept, Fields
  <2> QED  BY <1>1, <2>1, <2>2, <2>3, <2>4 DEF v, Kept
<1> QED  BY <1>2, <1>3

(* What only some fields differ in, after what only others do.              *)
LEMMA OnlyAlso ==
  ASSUME NEW u, NEW v, NEW w, NEW F, NEW G, NEW H, Only(u, v, F), Only(v, w, G),
         F \subseteq H, G \subseteq H
  PROVE  Only(u, w, H)
BY DEF Only

(* One move after another is a move.                                        *)
LEMMA Chained ==
  ASSUME NEW u, NEW v, NEW w, Kept(u), Moves(u, v), Stays(u, v), Moves(v, w)
  PROVE  Moves(u, w) /\ (Stays(v, w) => Stays(u, w)) /\ (Renewed(v, w) => Renewed(u, w))
<1>1. /\ u.nextRequestId \in Nat /\ v.nextRequestId \in Nat /\ w.nextRequestId \in Nat
      /\ u.panelStateRequestId \in Nat /\ v.panelStateRequestId \in Nat /\ w.panelStateRequestId \in Nat
  BY Counters DEF Moves, Kept
<1>2. Only(u, w, Panel)
  <2>1. Only(u, v, Panel) /\ Only(v, w, Panel)  BY DEF Moves
  <2> QED  BY <2>1, OnlyAlso
<1>3. Stays(v, w) => Stays(u, w)  BY <1>1 DEF Stays
<1>4. Renewed(v, w) => Renewed(u, w)  BY DEF Stays, Renewed
<1>5. Kept(w) /\ (Stays(v, w) \/ Renewed(v, w))  BY DEF Moves
<1> QED  BY <1>2, <1>3, <1>4, <1>5 DEF Moves

(* A change of the panel's own fields.                                      *)
LEMMA PanelChange ==
  ASSUME NEW u, NEW v, Kept(u),
         Only(u, v, {"panelStateRequestId", "panelStateKnown", "panelDesiredOpen", "panelRetryCount",
                     "panelRetryTimer", "panelActionError", "connectionError"}),
         v.panelStateRequestId = 0 \/ v.panelStateRequestId = u.panelStateRequestId,
         v.panelRetryCount \in 0..MaxPanelRetries,
         v.panelRetryTimer => v.panelStateRequestId = 0, v.panelDesiredOpen \in BOOLEAN,
         v.connectionError # "protocol_error"
  PROVE  Moves(u, v) /\ Stays(u, v)
<1>1. DOMAIN u = Fields  BY DEF Kept, ServiceKept, Fields
<1>2. /\ v.requestProgress = u.requestProgress /\ v.requestOrder = u.requestOrder
      /\ v.nextRequestId = u.nextRequestId /\ v.session = u.session /\ v.bridge = u.bridge
      /\ v.reconnectTimer = u.reconnectTimer
  BY <1>1, FieldsAre DEF Only
<1>3. RequestsKept(v)
  <2>1. v.nextRequestId \in 1..MaxRequestId /\ v.panelStateRequestId \in 0..(v.nextRequestId - 1)
    <3>1. /\ u.nextRequestId \in Nat \ {0} /\ u.nextRequestId <= MaxRequestId
          /\ u.panelStateRequestId \in Nat /\ u.panelStateRequestId < u.nextRequestId
      BY Counters DEF Kept
    <3> QED  BY <1>2, <3>1, ClientLimits
  <2>2. /\ DOMAIN v.requestProgress \subseteq 1..(v.nextRequestId - 1)
        /\ \A id \in DOMAIN v.requestProgress :
               v.requestProgress[id] \in {"issued", "queued", "running"} \cup Terminal
    BY <1>2 DEF Kept, RequestsKept
  <2>3. v.requestOrder \in Seq(DOMAIN v.requestProgress)
    BY <1>2 DEF Kept, RequestsKept
  <2>4. \A i, j \in DOMAIN v.requestOrder : v.requestOrder[i] = v.requestOrder[j] => i = j
    BY <1>2 DEF Kept, RequestsKept
  <2> QED  BY <2>1, <2>2, <2>3, <2>4 DEF RequestsKept
<1>4. Only(u, v, Panel)  BY DEF Only, Panel
<1>5. Kept(v)  BY <1>2, <1>3, <1>4, KeptByService
<1>6. Stays(u, v)
  <2>1. u.nextRequestId \in Nat  BY Counters DEF Kept
  <2> QED  BY <1>2, <2>1 DEF Stays, Open
<1> QED  BY <1>4, <1>5, <1>6 DEF Moves

(* ensurePanelStateRequest: a request it makes is open.                     *)
LEMMA Ensuring ==
  ASSUME NEW u, Kept(u), ~u.panelRetryTimer
  PROVE  LET v == EnsurePanelStateRequest(u)
         IN  /\ Moves(u, v)
             /\ u.panelStateRequestId # 0 => v = u
             /\ u.panelStateRequestId = 0 /\ v.panelStateRequestId # 0 =>
                    Stays(u, v) /\ Open(v, v.panelStateRequestId)
<1> DEFINE v == EnsurePanelStateRequest(u)
           id == AllocatedId(u)
           a == AllocateRequestId(u)
           r == RegisterRequest(a, id)
<1>1. DOMAIN u = Fields /\ u.nextRequestId \in Nat \ {0} /\ u.panelStateRequestId \in Nat
  BY ClientLimits DEF Kept, RequestsKept, ServiceKept, Fields
<1>2. CASE ~u.panelStateKnown \/ u.panelStateRequestId > 0
  <2>1. v = u  BY <1>2 DEF EnsurePanelStateRequest
  <2>2. Stays(u, u)  BY <1>1 DEF Stays
  <2> QED  BY <1>1, <2>1, <2>2 DEF Moves, Only
<1>3. CASE u.panelStateKnown /\ ~(u.panelStateRequestId > 0)
  <2>1. u.panelStateRequestId = 0  BY <1>1, <1>3
  <2>2. v = CASE id = 0 -> a
              [] id # 0 /\ ProgressOf(r, id) = "" -> [r EXCEPT !.connectionError = "too_many_actions"]
              [] OTHER -> [r EXCEPT !.panelStateRequestId = id,
                        !.connectionError = IF @ = "too_many_actions" THEN "" ELSE @]
    BY <1>3 DEF EnsurePanelStateRequest
  <2>3. \/ id = 0 /\ Kept(a) /\ Only(u, a, Panel) /\ Renewed(u, a)
        \/ /\ id = u.nextRequestId /\ id # 0
           /\ Kept(a) /\ Only(u, a, {"nextRequestId"}) /\ a.nextRequestId = u.nextRequestId + 1
    BY Allocating
  <2>4. CASE id = 0
    <3>1. v = a  BY <2>2, <2>4
    <3> QED  BY <1>1, <2>1, <2>3, <2>4, <3>1 DEF Moves, Renewed
  <2>5. CASE id # 0
    <3>1. id \in 1..(a.nextRequestId - 1)  BY <1>1, <2>3, <2>5
    <3> HIDE DEF a, id, v
    <3>2. /\ Kept(r) /\ Only(a, r, {"requestProgress", "requestOrder"})
          /\ \A x : Open(a, x) => Open(r, x)
          /\ id \in DOMAIN r.requestProgress =>
                 r.requestProgress[id] = IF id \in DOMAIN a.requestProgress
                                         THEN a.requestProgress[id] ELSE "issued"
      BY <2>3, <2>5, <3>1, Registering
    <3> HIDE DEF r
    <3>3. a.requestProgress = u.requestProgress /\ DOMAIN a = Fields
      BY <1>1, <2>3, <2>5, FieldsAre DEF Only
    <3>4. id \notin DOMAIN a.requestProgress
      BY <1>1, <2>3, <2>5, <3>3 DEF Kept, RequestsKept
    <3>5. /\ DOMAIN r = Fields /\ Only(u, r, {"nextRequestId", "requestProgress", "requestOrder"})
          /\ r.nextRequestId = u.nextRequestId + 1
      BY <1>1, <2>3, <2>5, <3>2, <3>3, FieldsAre DEF Only
    <3>6. \A x : Open(u, x) => Open(r, x)
      BY <3>2, <3>3 DEF Open
    <3>7. Moves(u, r) /\ Stays(u, r)
      BY <1>1, <3>2, <3>5, <3>6, FieldsAre DEF Moves, Stays, Only, Panel
    <3>8. CASE ProgressOf(r, id) = ""
      <4>1. v = [r EXCEPT !.connectionError = "too_many_actions"]  BY <2>2, <2>5, <3>8
      <4>2. Only(r, v, {"connectionError"}) /\ v.connectionError = "too_many_actions"
        BY <3>5, <4>1, FieldsAre DEF Only
      <4>3. /\ v.panelStateRequestId = r.panelStateRequestId /\ v.panelRetryCount = r.panelRetryCount
            /\ v.panelRetryTimer = r.panelRetryTimer /\ r.panelStateRequestId = 0
            /\ v.panelDesiredOpen = r.panelDesiredOpen
        BY <1>1, <2>1, <3>5, <4>2, FieldsAre DEF Only
      <4>4. Moves(r, v) /\ Stays(r, v)
        BY <3>2, <4>2, <4>3, PanelChange DEF Only, Kept, RequestsKept
      <4> QED  BY <2>1, <3>7, <4>3, <4>4, Chained DEF v
    <3>9. CASE ProgressOf(r, id) # ""
      <4>1. v = [r EXCEPT !.panelStateRequestId = id,
                        !.connectionError = IF @ = "too_many_actions" THEN "" ELSE @]
        BY <2>2, <2>5, <3>9
      <4>2. id \in DOMAIN r.requestProgress /\ r.requestProgress[id] = "issued"
        BY <3>2, <3>4, <3>9 DEF ProgressOf
      <4>3. /\ Only(r, v, {"panelStateRequestId", "connectionError"}) /\ v.panelStateRequestId = id
            /\ v.connectionError # "protocol_error"
        BY <3>2, <3>5, <4>1, FieldsAre DEF Only, Kept, ServiceKept
      <4>4. /\ v.requestProgress = r.requestProgress /\ v.requestOrder = r.requestOrder
            /\ v.nextRequestId = r.nextRequestId /\ v.session = r.session /\ v.bridge = r.bridge
            /\ v.reconnectTimer = r.reconnectTimer /\ v.panelRetryCount = r.panelRetryCount
            /\ v.panelRetryTimer = r.panelRetryTimer /\ v.panelDesiredOpen = r.panelDesiredOpen
        BY <3>5, <4>3, FieldsAre DEF Only
      <4>5. RequestsKept(v)
        <5>1. v.panelStateRequestId \in 0..(v.nextRequestId - 1)
          BY <1>1, <2>3, <2>5, <3>5, <4>3, <4>4
        <5>2. r.panelRetryTimer = u.panelRetryTimer
          BY <1>1, <3>5, FieldsAre DEF Only
        <5> QED  BY <3>2, <4>4, <5>1, <5>2 DEF Kept, RequestsKept
      <4>6. Only(r, v, Panel)  BY <4>3 DEF Only, Panel
      <4>7. Kept(v)  BY <3>2, <4>3, <4>4, <4>5, <4>6, KeptByService
      <4>8. Open(v, id)  BY <4>2, <4>4 DEF Open, Terminal
      <4>9. Stays(u, v)
        BY <1>1, <2>3, <2>5, <3>5, <3>7, <4>3, <4>4 DEF Stays, Open
      <4>10. Only(u, v, Panel)
        <5>1. Only(u, r, Panel)  BY <3>7 DEF Moves
        <5> QED  BY <4>6, <5>1, OnlyAlso
      <4> QED  BY <2>1, <4>3, <4>7, <4>8, <4>9, <4>10 DEF Moves, v
    <3> QED  BY <3>8, <3>9
  <2> QED  BY <2>4, <2>5
<1> QED  BY <1>2, <1>3

(* schedulePanelRetry.                                                      *)
LEMMA Retrying ==
  ASSUME NEW u, Kept(u)
  PROVE  LET v == SchedulePanelRetry(u)
         IN  /\ Moves(u, v) /\ Stays(u, v) /\ DOMAIN v = Fields
             /\ Only(u, v, {"panelRetryCount", "panelStateRequestId", "panelActionError", "panelRetryTimer"})
             /\ IF MayRetry(u) THEN v.panelStateRequestId = 0 ELSE v.panelActionError
<1> DEFINE v == SchedulePanelRetry(u)
<1>1. DOMAIN u = Fields  BY DEF Kept, ServiceKept, Fields
<1>2. /\ u.panelRetryCount \in Nat /\ u.panelRetryCount <= MaxPanelRetries /\ MaxPanelRetries \in Nat
      /\ u.connectionError # "protocol_error"
  BY Counters, ClientLimits DEF Kept, ServiceKept
<1>3. /\ Only(u, v, {"panelRetryCount", "panelStateRequestId", "panelActionError", "panelRetryTimer"})
      /\ IF MayRetry(u) THEN v.panelRetryCount = u.panelRetryCount + 1 /\ v.panelStateRequestId = 0
         ELSE /\ v.panelRetryCount = u.panelRetryCount /\ v.panelActionError /\ ~v.panelRetryTimer
              /\ v.panelStateRequestId = u.panelStateRequestId
  BY <1>1, FieldsAre DEF SchedulePanelRetry, Only
<1> HIDE DEF v
<1>4. v.panelRetryCount \in 0..MaxPanelRetries
  BY <1>2, <1>3 DEF MayRetry
<1>5. /\ v.connectionError = u.connectionError /\ DOMAIN v = Fields
      /\ v.panelDesiredOpen = u.panelDesiredOpen /\ u.panelDesiredOpen \in BOOLEAN
  BY <1>1, <1>3, FieldsAre DEF Only, Kept, RequestsKept
<1>6. Only(u, v, {"panelStateRequestId", "panelStateKnown", "panelDesiredOpen", "panelRetryCount",
                  "panelRetryTimer", "panelActionError", "connectionError"})
  BY <1>3 DEF Only
<1>7. Moves(u, v) /\ Stays(u, v)
  BY <1>2, <1>3, <1>4, <1>5, <1>6, PanelChange
<1> QED  BY <1>3, <1>5, <1>7 DEF v

(* A failed panel request is replaced by one that is open, if any is.       *)
LEMMA Replacing ==
  ASSUME NEW u, Kept(u), ~u.panelRetryTimer, u.panelStateRequestId # 0,
         u.panelStateRequestId \in DOMAIN u.requestProgress,
         u.requestProgress[u.panelStateRequestId] # "completed"
  PROVE  LET v == Replaced(u)
         IN  /\ Moves(u, v)
             /\ ~v.panelActionError /\ v.panelStateRequestId # 0 =>
                    Stays(u, v) /\ Open(v, v.panelStateRequestId)
<1> DEFINE v == Replaced(u)
           t == SchedulePanelRetry(u)
           w == [t EXCEPT !.panelRetryTimer = FALSE]
<1>1. DOMAIN u = Fields  BY DEF Kept, ServiceKept, Fields
<1>2. CASE ProgressOf(u, u.panelStateRequestId) \notin {"failed", "cancelled"}
  <2>1. v = u  BY <1>2 DEF Replaced
  <2>2. Stays(u, u) /\ Only(u, u, Panel)
    BY Counters DEF Stays, Only, Kept
  <2> QED  BY <1>2, <2>1, <2>2 DEF Moves, Open, Terminal, ProgressOf
<1>3. CASE ProgressOf(u, u.panelStateRequestId) \in {"failed", "cancelled"} /\ ~MayRetry(u)
  <2>1. v = t  BY <1>3 DEF Replaced
  <2> QED  BY <1>3, <2>1, Retrying
<1>4. CASE ProgressOf(u, u.panelStateRequestId) \in {"failed", "cancelled"} /\ MayRetry(u)
  <2>1. v = EnsurePanelStateRequest(w)  BY <1>4 DEF Replaced
  <2>2. Moves(u, t) /\ Stays(u, t) /\ DOMAIN t = Fields /\ t.panelStateRequestId = 0
    BY <1>4, Retrying
  <2> HIDE DEF t
  <2>3. /\ Only(t, w, {"panelRetryTimer"}) /\ ~w.panelRetryTimer /\ w.panelStateRequestId = 0
        /\ w.panelRetryCount = t.panelRetryCount /\ w.connectionError = t.connectionError
        /\ w.panelDesiredOpen = t.panelDesiredOpen
    BY <2>2, FieldsAre DEF Only
  <2> HIDE DEF w
  <2>4. /\ Kept(t) /\ t.panelRetryCount \in 0..MaxPanelRetries /\ t.connectionError # "protocol_error"
        /\ t.panelDesiredOpen \in BOOLEAN
    BY <2>2 DEF Moves, Kept, RequestsKept, ServiceKept
  <2>5. Only(t, w, {"panelStateRequestId", "panelStateKnown", "panelDesiredOpen", "panelRetryCount",
                    "panelRetryTimer", "panelActionError", "connectionError"})
    BY <2>3 DEF Only
  <2>6. Moves(t, w) /\ Stays(t, w)
    BY <2>3, <2>4, <2>5, PanelChange
  <2>7. Moves(u, w) /\ Stays(u, w)  BY <2>2, <2>6, Chained
  <2>8. Kept(w)  BY <2>6 DEF Moves
  <2>9. /\ Moves(w, EnsurePanelStateRequest(w))
        /\ EnsurePanelStateRequest(w).panelStateRequestId # 0 =>
              /\ Stays(w, EnsurePanelStateRequest(w))
              /\ Open(EnsurePanelStateRequest(w), EnsurePanelStateRequest(w).panelStateRequestId)
    BY <2>3, <2>8, Ensuring
  <2> HIDE DEF v
  <2>10. Moves(w, v) /\ (v.panelStateRequestId # 0 => Stays(w, v) /\ Open(v, v.panelStateRequestId))
    BY <2>1, <2>9
  <2>11. Moves(u, v) /\ (Stays(w, v) => Stays(u, v))
    BY <2>7, <2>10, Chained
  <2> QED  BY <2>10, <2>11 DEF v
<1> QED  BY <1>2, <1>3, <1>4

(* writeLine: the line goes out on a bridge that runs, or not at all.       *)
LEMMA Writing ==
  ASSUME NEW u, Kept(u), u.lines = <<>>, NEW line
  PROVE  LET v == WriteLine(u, line)
         IN  /\ Kept(v) /\ Stays(u, v) /\ Only(u, v, {"lines"})
             /\ v.lines = <<>> \/ (v.lines = <<line>> /\ v.bridge = "running")
<1> DEFINE v == WriteLine(u, line)
<1>1. DOMAIN u = Fields  BY DEF Kept, ServiceKept, Fields
<1>2. /\ Only(u, v, {"lines"})
      /\ v.lines = <<>> \/ (v.lines = <<line>> /\ v.bridge = "running")
  BY <1>1, FieldsAre DEF WriteLine, Only
<1> HIDE DEF v
<1>3. /\ v.requestProgress = u.requestProgress /\ v.requestOrder = u.requestOrder
      /\ v.nextRequestId = u.nextRequestId /\ v.panelStateRequestId = u.panelStateRequestId
      /\ v.panelRetryCount = u.panelRetryCount /\ v.panelRetryTimer = u.panelRetryTimer
      /\ v.panelDesiredOpen = u.panelDesiredOpen
      /\ v.session = u.session /\ v.bridge = u.bridge
  BY <1>1, <1>2, FieldsAre DEF Only
<1>4. RequestsKept(v)  BY <1>3 DEF Kept, RequestsKept
<1>5. ServiceKept(v)  BY <1>1, <1>2, FieldsAre DEF Only, Kept, ServiceKept, Fields
<1>6. u.nextRequestId \in Nat  BY Counters DEF Kept
<1>7. Stays(u, v)  BY <1>3, <1>6 DEF Stays, Open
<1> QED  BY <1>2, <1>4, <1>5, <1>7 DEF Kept, v

(* The line that a function of the frontend writes asks for something under *)
(* an open request, the current panel request or a new one.                 *)
Said(u, v, l) ==
    /\ v.lines = <<l>> /\ v.bridge = "running" /\ v.phase = "ready" /\ Stays(u, v)
    /\ l \in [type : {"action"}, session : Sessions, id : Nat \ {0},
              action : {"open_panel", "close_panel", "refresh_all"}]
    /\ l.session = v.session /\ Open(v, l.id)
    /\ l.action # "refresh_all" => l.id = v.panelStateRequestId
    /\ l.id >= u.nextRequestId \/ l.id = u.panelStateRequestId

Spoke(u, v) ==
    /\ Kept(v) /\ Only(u, v, Panel \cup {"lines"})
    /\ \/ v.lines = <<>> /\ (Stays(u, v) \/ Renewed(u, v))
       \/ \E l : Said(u, v, l)

(* A move says nothing.                                                     *)
LEMMA MovesSilently ==
  ASSUME NEW u, NEW v, Kept(u), u.lines = <<>>, Moves(u, v)
  PROVE  Spoke(u, v) /\ v.lines = <<>>
<1>1. v.lines = u.lines
  BY FieldsAre DEF Moves, Only, Panel, Kept, ServiceKept, Fields
<1>2. Only(u, v, Panel)  BY DEF Moves
<1>3. Only(u, v, Panel \cup {"lines"})  BY <1>2 DEF Only
<1> QED  BY <1>1, <1>3 DEF Moves, Spoke

(* A line after a move.                                                     *)
LEMMA MovesAndSays ==
  ASSUME NEW u, NEW s, NEW l, Kept(u), u.lines = <<>>, Moves(u, s), Stays(u, s),
         l \in [type : {"action"}, session : Sessions, id : Nat \ {0},
               action : {"open_panel", "close_panel", "refresh_all"}],
         l.session = s.session, Open(s, l.id), s.phase = "ready",
         l.action # "refresh_all" => l.id = s.panelStateRequestId,
         l.id >= u.nextRequestId \/ l.id = u.panelStateRequestId
  PROVE  Spoke(u, WriteLine(s, l))
<1> DEFINE v == WriteLine(s, l)
<1>1. s.lines = <<>> /\ Kept(s) /\ DOMAIN s = Fields
  BY MovesSilently DEF Moves, Kept, ServiceKept, Fields
<1>2. /\ Kept(v) /\ Stays(s, v) /\ Only(s, v, {"lines"})
      /\ v.lines = <<>> \/ (v.lines = <<l>> /\ v.bridge = "running")
  BY <1>1, Writing
<1> HIDE DEF v
<1>3. /\ u.nextRequestId \in Nat /\ s.nextRequestId \in Nat /\ v.nextRequestId \in Nat
      /\ u.panelStateRequestId \in Nat /\ s.panelStateRequestId \in Nat /\ v.panelStateRequestId \in Nat
  BY <1>1, <1>2, Counters DEF Kept
<1>4. Stays(u, v)  BY <1>2, <1>3 DEF Stays
<1>5. Only(u, v, Panel \cup {"lines"})
  <2>1. Only(u, s, Panel)  BY DEF Moves
  <2> QED  BY <1>2, <2>1, OnlyAlso
<1>6. /\ v.session = s.session /\ v.requestProgress = s.requestProgress
      /\ v.panelStateRequestId = s.panelStateRequestId /\ v.phase = s.phase
  BY <1>1, <1>2, FieldsAre DEF Only
<1>7. Open(v, l.id)  BY <1>6 DEF Open
<1>8. v.lines = <<l>> /\ v.bridge = "running" => Said(u, v, l)
  BY <1>4, <1>6, <1>7 DEF Said
<1> QED  BY <1>2, <1>4, <1>5, <1>8 DEF Spoke, v

(* syncPanelState.                                                          *)
LEMMA Syncing ==
  ASSUME NEW u, Kept(u), u.lines = <<>>
  PROVE  Spoke(u, SyncPanelState(u))
<1> DEFINE q == [u EXCEPT !.panelRetryTimer = FALSE]
           e == EnsurePanelStateRequest(q)
           id == e.panelStateRequestId
           r == RegisterRequest(e, id)
           s == Replaced(r)
           progress == ProgressOf(r, r.panelStateRequestId)
           v == SyncPanelState(u)
<1>1. DOMAIN u = Fields  BY DEF Kept, ServiceKept, Fields
<1>2. v = IF e.panelStateRequestId = 0 THEN e
          ELSE IF progress = "" THEN [r EXCEPT !.connectionError = "too_many_actions"]
          ELSE IF r.phase # "ready" \/ progress = "completed" THEN r
          ELSE IF s.panelActionError \/ s.panelStateRequestId = 0 THEN s
          ELSE WriteLine(s, PanelAction(s, s.panelStateRequestId))
  BY DEF SyncPanelState
<1>3. /\ Only(u, q, {"panelRetryTimer"}) /\ ~q.panelRetryTimer
      /\ q.panelStateRequestId = u.panelStateRequestId /\ q.panelRetryCount = u.panelRetryCount
      /\ q.connectionError = u.connectionError /\ q.panelDesiredOpen = u.panelDesiredOpen
  BY <1>1, FieldsAre DEF Only
<1>4. Moves(u, q) /\ Stays(u, q)
  <2>1. Only(u, q, {"panelStateRequestId", "panelStateKnown", "panelDesiredOpen", "panelRetryCount",
                    "panelRetryTimer", "panelActionError", "connectionError"})
    BY <1>3 DEF Only
  <2>2. /\ u.panelRetryCount \in 0..MaxPanelRetries /\ u.connectionError # "protocol_error"
        /\ u.panelDesiredOpen \in BOOLEAN
    BY DEF Kept, RequestsKept, ServiceKept
  <2> HIDE DEF q
  <2> QED  BY <1>3, <2>1, <2>2, PanelChange
<1> HIDE DEF q
<1>5. Kept(q)  BY <1>4 DEF Moves
<1>6. /\ Moves(q, e)
      /\ q.panelStateRequestId # 0 => e = q
      /\ q.panelStateRequestId = 0 /\ e.panelStateRequestId # 0 => Stays(q, e)
  BY <1>3, <1>5, Ensuring
<1> HIDE DEF e
<1>7. Moves(u, e)  BY <1>4, <1>6, Chained
<1>8. CASE e.panelStateRequestId = 0
  <2>1. v = e  BY <1>2, <1>8
  <2> QED  BY <1>7, <2>1, MovesSilently
<1>9. CASE e.panelStateRequestId # 0
  <2>1. Stays(u, e)
    <3>1. Stays(q, e) \/ e = q  BY <1>6, <1>9
    <3> QED  BY <1>4, <1>6, <3>1, Chained
  <2>2. Kept(e) /\ id \in 1..(e.nextRequestId - 1) /\ ~e.panelRetryTimer /\ DOMAIN e = Fields
    <3>1. Kept(e) /\ DOMAIN e = Fields  BY <1>7 DEF Moves, Kept, ServiceKept, Fields
    <3>2. e.nextRequestId \in Nat /\ id \in Nat /\ id < e.nextRequestId
      BY <3>1, Counters DEF Kept
    <3>3. ~e.panelRetryTimer  BY <1>9, <3>1 DEF Kept, RequestsKept
    <3> QED  BY <1>9, <3>1, <3>2, <3>3
  <2>3. /\ Kept(r) /\ Only(e, r, {"requestProgress", "requestOrder"})
        /\ \A x : Open(e, x) => Open(r, x)
    BY <2>2, Registering
  <2> HIDE DEF r
  <2>4. /\ DOMAIN r = Fields /\ r.session = e.session /\ r.bridge = e.bridge
        /\ r.nextRequestId = e.nextRequestId /\ r.panelStateRequestId = e.panelStateRequestId
        /\ r.panelRetryTimer = e.panelRetryTimer
    BY <2>2, <2>3, FieldsAre DEF Only
  <2>5. Moves(e, r) /\ Stays(e, r)
    <3>1. e.nextRequestId \in Nat  BY <2>2, Counters DEF Kept
    <3>2. Stays(e, r)  BY <2>3, <2>4, <3>1 DEF Stays
    <3>3. Only(e, r, Panel)  BY <2>3 DEF Only, Panel
    <3> QED  BY <2>3, <3>2, <3>3 DEF Moves
  <2>6. Moves(u, r) /\ Stays(u, r)  BY <1>7, <2>1, <2>5, Chained
  <2>7. CASE progress = ""
    <3> DEFINE w == [r EXCEPT !.connectionError = "too_many_actions"]
    <3>1. v = w  BY <1>2, <1>9, <2>7
    <3>2. /\ Only(r, w, {"connectionError"}) /\ w.connectionError = "too_many_actions"
          /\ w.panelStateRequestId = r.panelStateRequestId /\ w.panelRetryCount = r.panelRetryCount
          /\ w.panelRetryTimer = r.panelRetryTimer /\ w.panelDesiredOpen = r.panelDesiredOpen
      BY <2>4, FieldsAre DEF Only
    <3> HIDE DEF w
    <3>3. Only(r, w, {"panelStateRequestId", "panelStateKnown", "panelDesiredOpen", "panelRetryCount",
                      "panelRetryTimer", "panelActionError", "connectionError"})
      BY <3>2 DEF Only
    <3>4. r.panelRetryCount \in 0..MaxPanelRetries /\ ~r.panelRetryTimer /\ r.panelDesiredOpen \in BOOLEAN
      BY <2>2, <2>3, <2>4 DEF Kept, RequestsKept
    <3>5. Moves(r, w)  BY <2>3, <3>2, <3>3, <3>4, PanelChange
    <3>6. Moves(u, w)  BY <2>6, <3>5, Chained
    <3> QED  BY <3>1, <3>6, MovesSilently
  <2>8. CASE progress # "" /\ (r.phase # "ready" \/ progress = "completed")
    <3>1. v = r  BY <1>2, <1>9, <2>8
    <3> QED  BY <2>6, <3>1, MovesSilently
  <2>9. CASE progress # "" /\ ~(r.phase # "ready" \/ progress = "completed")
    <3>1. /\ r.panelStateRequestId # 0 /\ ~r.panelRetryTimer
          /\ r.panelStateRequestId \in DOMAIN r.requestProgress
          /\ r.requestProgress[r.panelStateRequestId] # "completed"
      BY <1>9, <2>2, <2>4, <2>9 DEF ProgressOf
    <3>2. /\ Moves(r, s)
          /\ ~s.panelActionError /\ s.panelStateRequestId # 0 =>
                 Stays(r, s) /\ Open(s, s.panelStateRequestId)
      BY <2>3, <3>1, Replacing
    <3> HIDE DEF s
    <3>3. Moves(u, s) /\ (Stays(r, s) => Stays(u, s))  BY <2>6, <3>2, Chained
    <3>4. CASE s.panelActionError \/ s.panelStateRequestId = 0
      <4>1. v = s  BY <1>2, <1>9, <2>9, <3>4
      <4> QED  BY <3>3, <4>1, MovesSilently
    <3>5. CASE ~(s.panelActionError \/ s.panelStateRequestId = 0)
      <4> DEFINE l == PanelAction(s, s.panelStateRequestId)
      <4>1. v = WriteLine(s, l)  BY <1>2, <1>9, <2>9, <3>5
      <4>2. Stays(u, s) /\ Open(s, s.panelStateRequestId)  BY <3>2, <3>3, <3>5
      <4>3. /\ s.session \in Sessions /\ s.panelStateRequestId \in Nat \ {0}
            /\ u.panelStateRequestId \in Nat /\ u.nextRequestId \in Nat
        BY <3>3, <3>5, Counters DEF Moves, Kept, ServiceKept, Sessions
      <4>4. /\ l \in [type : {"action"}, session : Sessions, id : Nat \ {0},
                      action : {"open_panel", "close_panel", "refresh_all"}]
            /\ l.session = s.session /\ l.id = s.panelStateRequestId
        BY <4>3 DEF PanelAction
      <4> HIDE DEF l
      <4>5. l.id >= u.nextRequestId \/ l.id = u.panelStateRequestId
        BY <4>2, <4>3, <4>4 DEF Stays
      <4>6. Open(s, l.id) /\ s.phase = "ready"
        <5>1. s.phase = r.phase  BY <2>4, <3>2, FieldsAre DEF Moves, Only, Panel
        <5> QED  BY <2>9, <4>2, <4>4, <5>1
      <4>7. Spoke(u, WriteLine(s, l))
        BY <3>3, <4>2, <4>4, <4>5, <4>6, MovesAndSays
      <4> QED  BY <4>1, <4>7
    <3> QED  BY <3>4, <3>5
  <2> QED  BY <2>7, <2>8, <2>9
<1> QED  BY <1>8, <1>9

(* What is said after a move.                                               *)
LEMMA MovesThenSpeaks ==
  ASSUME NEW u, NEW w, NEW v, Kept(u), Moves(u, w), Stays(u, w), Spoke(w, v)
  PROVE  Spoke(u, v)
<1>1. Kept(w) /\ Kept(v)  BY DEF Moves, Spoke
<1>2. /\ u.nextRequestId \in Nat /\ w.nextRequestId \in Nat /\ v.nextRequestId \in Nat
      /\ u.panelStateRequestId \in Nat /\ w.panelStateRequestId \in Nat /\ v.panelStateRequestId \in Nat
  BY <1>1, Counters DEF Kept
<1>3. Only(u, v, Panel \cup {"lines"})
  <2>1. Only(u, w, Panel) /\ Only(w, v, Panel \cup {"lines"})  BY DEF Moves, Spoke
  <2> QED  BY <2>1, OnlyAlso
<1>4. Stays(w, v) => Stays(u, v)  BY <1>2 DEF Stays
<1>5. Renewed(w, v) => Renewed(u, v)  BY DEF Stays, Renewed
<1>6. ASSUME NEW l, Said(w, v, l)  PROVE Said(u, v, l)
  <2>1. l.id \in Nat \ {0}  BY <1>6 DEF Said
  <2>2. l.id >= w.nextRequestId \/ l.id = w.panelStateRequestId  BY <1>6 DEF Said
  <2>3. l.id >= u.nextRequestId \/ l.id = u.panelStateRequestId
    BY <1>2, <2>1, <2>2 DEF Stays
  <2> QED  BY <1>4, <1>6, <2>3 DEF Said
<1> QED  BY <1>1, <1>3, <1>4, <1>5, <1>6 DEF Spoke

(* recordPanelState, when the panel changes: a new request, if any.         *)
LEMMA Recording ==
  ASSUME NEW u, Kept(u), u.lines = <<>>
  PROVE  \E b : /\ Moves(u, b) /\ Stays(u, b) /\ b.panelStateRequestId = 0
                /\ b.nextRequestId = u.nextRequestId
                /\ Spoke(b, RecordPanelState(u, ~u.panelDesiredOpen))
<1> DEFINE b == [u EXCEPT !.panelStateKnown = TRUE, !.panelDesiredOpen = ~u.panelDesiredOpen,
                       !.panelStateRequestId = 0, !.panelRetryCount = 0,
                       !.panelActionError = FALSE, !.panelRetryTimer = FALSE]
<1>1. DOMAIN u = Fields  BY DEF Kept, ServiceKept, Fields
<1>2. u.panelDesiredOpen \in BOOLEAN /\ u.connectionError # "protocol_error" /\ MaxPanelRetries \in Nat
  BY ClientLimits DEF Kept, RequestsKept, ServiceKept
<1>3. u.panelDesiredOpen # ~u.panelDesiredOpen  BY <1>2
<1>4. RecordPanelState(u, ~u.panelDesiredOpen) = SyncPanelState(b)
  BY <1>3 DEF RecordPanelState
<1>5. /\ Only(u, b, {"panelStateRequestId", "panelStateKnown", "panelDesiredOpen", "panelRetryCount",
                     "panelRetryTimer", "panelActionError", "connectionError"})
      /\ b.panelStateRequestId = 0 /\ b.panelRetryCount = 0 /\ b.connectionError = u.connectionError
      /\ b.nextRequestId = u.nextRequestId /\ b.panelDesiredOpen \in BOOLEAN
  BY <1>1, <1>2, FieldsAre DEF Only
<1> HIDE DEF b
<1>6. b.panelRetryCount \in 0..MaxPanelRetries  BY <1>2, <1>5
<1>7. Moves(u, b) /\ Stays(u, b)  BY <1>2, <1>5, <1>6, PanelChange
<1>8. b.lines = <<>> /\ Kept(b)  BY <1>7, MovesSilently DEF Moves
<1>9. Spoke(b, SyncPanelState(b))  BY <1>8, Syncing
<1> QED  BY <1>4, <1>5, <1>7, <1>9

(* refreshAll: a new request, if any.                                       *)
LEMMA Refreshing ==
  ASSUME NEW u, Kept(u), u.lines = <<>>
  PROVE  /\ Spoke(u, RefreshAll(u))
         /\ \A l : Said(u, RefreshAll(u), l) => l.id >= u.nextRequestId /\ l.action = "refresh_all"
<1> DEFINE v == RefreshAll(u)
           id == AllocatedId(u)
           a == AllocateRequestId(u)
           r == RegisterRequest(a, id)
<1>1. DOMAIN u = Fields /\ u.nextRequestId \in Nat \ {0} /\ u.panelStateRequestId \in Nat
  BY Counters DEF Kept, ServiceKept, Fields
<1>2. v = CASE u.phase # "ready" -> [u EXCEPT !.connectionError = "backend_unavailable"]
            [] u.phase = "ready" /\ id = 0 -> a
            [] u.phase = "ready" /\ id # 0 /\ ProgressOf(r, id) = "" ->
                   [r EXCEPT !.connectionError = "too_many_actions"]
            [] u.phase = "ready" /\ id # 0 /\ ProgressOf(r, id) # ""
               /\ WriteLine(r, RefreshAction(r, id)) = r ->
                   IF r.bridge = "off" THEN ScheduleReconnect(r, "backend_unavailable")
                   ELSE [r EXCEPT !.connectionError = "backend_unavailable"]
            [] OTHER -> WriteLine(r, RefreshAction(r, id))
  BY DEF RefreshAll
<1>3. ASSUME NEW x  PROVE Moves(u, x) => /\ Spoke(u, x)
                                        /\ \A l : ~Said(u, x, l)
  <2>1. Moves(u, x) => Spoke(u, x) /\ x.lines = <<>>  BY MovesSilently
  <2>2. \A l : Said(u, x, l) => x.lines # <<>>  BY DEF Said
  <2> QED  BY <2>1, <2>2
<1>4. ASSUME NEW w, Kept(w), NEW reason, reason # "protocol_error"
      PROVE  Moves(w, [w EXCEPT !.connectionError = reason])
  <2> DEFINE x == [w EXCEPT !.connectionError = reason]
  <2>1. DOMAIN w = Fields  BY <1>4 DEF Kept, ServiceKept, Fields
  <2>2. /\ Only(w, x, {"connectionError"}) /\ x.connectionError = reason
        /\ x.panelStateRequestId = w.panelStateRequestId /\ x.panelRetryCount = w.panelRetryCount
        /\ x.panelRetryTimer = w.panelRetryTimer /\ x.panelDesiredOpen = w.panelDesiredOpen
    BY <2>1, FieldsAre DEF Only
  <2> HIDE DEF x
  <2>3. Only(w, x, {"panelStateRequestId", "panelStateKnown", "panelDesiredOpen", "panelRetryCount",
                    "panelRetryTimer", "panelActionError", "connectionError"})
    BY <2>2 DEF Only
  <2>4. /\ w.panelRetryCount \in 0..MaxPanelRetries /\ w.panelDesiredOpen \in BOOLEAN
        /\ w.panelRetryTimer => w.panelStateRequestId = 0
    BY <1>4 DEF Kept, RequestsKept
  <2>5. Moves(w, x)  BY <1>4, <2>2, <2>3, <2>4, PanelChange
  <2> QED  BY <2>5 DEF x
<1>5. \/ id = 0 /\ Kept(a) /\ Only(u, a, Panel) /\ Renewed(u, a)
      \/ /\ id = u.nextRequestId /\ id # 0
         /\ Kept(a) /\ Only(u, a, {"nextRequestId"}) /\ a.nextRequestId = u.nextRequestId + 1
  BY Allocating
<1>6. CASE u.phase # "ready"
  <2>1. v = [u EXCEPT !.connectionError = "backend_unavailable"]  BY <1>2, <1>6
  <2>2. "backend_unavailable" # "protocol_error"  OBVIOUS
  <2>3. Moves(u, [u EXCEPT !.connectionError = "backend_unavailable"])  BY <1>4, <2>2, Zenon
  <2>4. Moves(u, v)  BY <2>1, <2>3, Zenon
  <2> QED  BY <1>3, <2>4
<1>7. CASE u.phase = "ready" /\ id = 0
  <2>1. v = a  BY <1>2, <1>7
  <2>2. Moves(u, a)  BY <1>5, <1>7 DEF Moves
  <2> QED  BY <1>3, <2>1, <2>2
<1>8. CASE u.phase = "ready" /\ id # 0
  <2>1. id \in 1..(a.nextRequestId - 1)  BY <1>1, <1>5, <1>8
  <2> HIDE DEF a, id
  <2>2. /\ Kept(r) /\ Only(a, r, {"requestProgress", "requestOrder"})
        /\ \A x : Open(a, x) => Open(r, x)
        /\ id \in DOMAIN r.requestProgress =>
               r.requestProgress[id] = IF id \in DOMAIN a.requestProgress
                                       THEN a.requestProgress[id] ELSE "issued"
    BY <1>5, <1>8, <2>1, Registering
  <2> HIDE DEF r
  <2>3. a.requestProgress = u.requestProgress /\ DOMAIN a = Fields
    BY <1>1, <1>5, <1>8, FieldsAre DEF Only
  <2>4. id \notin DOMAIN a.requestProgress
    BY <1>1, <1>5, <1>8, <2>3 DEF Kept, RequestsKept
  <2>5. /\ DOMAIN r = Fields /\ Only(u, r, {"nextRequestId", "requestProgress", "requestOrder"})
        /\ r.nextRequestId = u.nextRequestId + 1
    BY <1>1, <1>5, <1>8, <2>2, <2>3, FieldsAre DEF Only
  <2>6. \A x : Open(u, x) => Open(r, x)  BY <2>2, <2>3 DEF Open
  <2>7. Moves(u, r) /\ Stays(u, r)
    BY <1>1, <2>2, <2>5, <2>6, FieldsAre DEF Moves, Stays, Only, Panel
  <2>8. CASE ProgressOf(r, id) = ""
    <3>1. v = [r EXCEPT !.connectionError = "too_many_actions"]  BY <1>2, <1>8, <2>8
    <3>2. Moves(r, v)  BY <1>4, <2>2, <3>1
    <3>3. Moves(u, v)  BY <2>7, <3>2, Chained
    <3> QED  BY <1>3, <3>3
  <2>10. CASE ProgressOf(r, id) # "" /\ WriteLine(r, RefreshAction(r, id)) = r
    <3> DEFINE s == ScheduleReconnect(r, "backend_unavailable")
               e == [r EXCEPT !.connectionError = "backend_unavailable"]
    <3>1. v = IF r.bridge = "off" THEN s ELSE e  BY <1>2, <1>8, <2>10
    <3>2. "backend_unavailable" # "protocol_error"  OBVIOUS
    <3>3. Moves(r, e)  BY <1>4, <2>2, <3>2, Zenon
    <3>4. r.bridge = "off" => Moves(r, s)
      <4>1. /\ Kept(s) /\ (s.bridge = "off" <=> r.bridge = "off") /\ s.bridge # "running"
            /\ Only(r, s, {"transportConnected", "handshakeTimer", "bridge", "connectionError",
                          "connectionWanted", "reconnectTimer"})
        BY <2>2, Reconnecting
      <4> HIDE DEF s
      <4>2. /\ s.requestProgress = r.requestProgress /\ s.session = r.session
            /\ s.nextRequestId = r.nextRequestId /\ s.panelStateRequestId = r.panelStateRequestId
        BY <2>5, <4>1, FieldsAre DEF Only
      <4>3. Only(r, s, Panel)  BY <4>1 DEF Only, Panel
      <4>4. \A x : Open(r, x) => Open(s, x)  BY <4>2 DEF Open
      <4>5. r.nextRequestId \in Nat  BY <2>2, Counters DEF Kept
      <4> QED  BY <4>1, <4>2, <4>3, <4>4, <4>5 DEF Moves, Stays
    <3>5. Moves(r, v)
      <4>1. CASE r.bridge = "off"  BY <3>1, <3>4, <4>1, Zenon
      <4>2. CASE r.bridge # "off"  BY <3>1, <3>3, <4>2, Zenon
      <4> QED  BY <4>1, <4>2
    <3>6. Moves(u, v)  BY <2>7, <3>5, Chained
    <3> QED  BY <1>3, <3>6
  <2>9. CASE ProgressOf(r, id) # "" /\ WriteLine(r, RefreshAction(r, id)) # r
    <3> DEFINE l == RefreshAction(r, id)
    <3>1. v = WriteLine(r, l)  BY <1>2, <1>8, <2>9
    <3>2. id \in DOMAIN r.requestProgress /\ r.requestProgress[id] = "issued"
      BY <2>2, <2>4, <2>9 DEF ProgressOf
    <3>3. r.session \in Sessions /\ id \in Nat \ {0} /\ id >= u.nextRequestId
      BY <1>1, <1>5, <1>8, <2>2 DEF Kept, ServiceKept, Sessions
    <3>4. /\ l \in [type : {"action"}, session : Sessions, id : Nat \ {0},
                    action : {"open_panel", "close_panel", "refresh_all"}]
          /\ l.session = r.session /\ l.id = id /\ l.action = "refresh_all"
      BY <3>3 DEF RefreshAction
    <3> HIDE DEF l
    <3>5. Open(r, l.id) /\ r.phase = "ready"
      <4>1. r.phase = u.phase  BY <1>1, <2>5, FieldsAre DEF Only
      <4> QED  BY <1>8, <3>2, <3>4, <4>1 DEF Open, Terminal
    <3>6. Spoke(u, WriteLine(r, l))
      BY <2>7, <3>3, <3>4, <3>5, MovesAndSays
    <3>7. r.lines = <<>>  BY <2>7, MovesSilently
    <3>8. v.lines = <<>> \/ v.lines = <<l>>
      BY <2>2, <3>1, <3>7, Writing
    <3>9. ASSUME NEW m, Said(u, v, m)  PROVE m = l
      <4>1. v.lines = <<m>>  BY <3>9 DEF Said
      <4> QED  BY <3>8, <4>1
    <3> QED  BY <3>1, <3>3, <3>4, <3>6, <3>9
  <2> QED  BY <2>8, <2>9, <2>10
<1> QED  BY <1>6, <1>7, <1>8

(****************************************************************************)
(* Lines and frames on a connection.                                        *)
(****************************************************************************)
(* A line that asks for something carries its session and its request.      *)
LEMMA LineParts ==
  ASSUME NEW m \in Lines
  PROVE  /\ m.type \in {"hello", "snapshot_ack", "action"}
         /\ m.type = "action" =>
                /\ m.session \in Sessions /\ m.id \in Nat \ {0}
                /\ m.action \in {"open_panel", "close_panel", "refresh_all"}
BY DEF Lines

(* A frame of the daemon has the parts of its type.                         *)
LEMMA FrameParts ==
  ASSUME NEW m \in Frames
  PROVE  /\ m.type \in {"hello", "snapshot", "action_progress"}
         /\ m.type = "hello" => m.stream \in Nat \ {0}
         /\ m.type = "snapshot" => m.stream \in Nat \ {0} /\ m.sequence \in Nat \ {0}
         /\ m.type = "action_progress" =>
                m.id \in Nat \ {0} /\ m.state \in {"running", "completed", "failed"} /\ m \in Reports
BY DEF Frames, Reports

(* A connection's parts.                                                    *)
LEMMA ConnectionParts ==
  ASSUME NEW c \in Connections
  PROVE  /\ DOMAIN c = {"task", "seen", "reply", "peer", "shell", "inbox", "outbox"} /\ c.shell \in Nat
         /\ c.task \in {"pending", "accepted", "ready", "closed"} /\ c.seen \in Nat
         /\ c.reply \in Reports \cup {NoReply} /\ c.peer \in BOOLEAN
         /\ c.inbox \in Seq(Lines) /\ c.outbox \in Seq(Frames)
         /\ Len(c.inbox) \in Nat /\ DOMAIN c.inbox = 1..Len(c.inbox)
         /\ Len(c.outbox) \in Nat /\ DOMAIN c.outbox = 1..Len(c.outbox)
         /\ \A i \in DOMAIN c.inbox : c.inbox[i] \in Lines
         /\ \A i \in DOMAIN c.outbox : c.outbox[i] \in Frames
<1>1. /\ DOMAIN c = {"task", "seen", "reply", "peer", "shell", "inbox", "outbox"} /\ c.shell \in Nat
      /\ c.task \in {"pending", "accepted", "ready", "closed"} /\ c.seen \in Nat
      /\ c.reply \in Reports \cup {NoReply} /\ c.peer \in BOOLEAN
      /\ c.inbox \in Seq(Lines) /\ c.outbox \in Seq(Frames)
  BY DEF Connections
<1>2. /\ Len(c.inbox) \in Nat /\ DOMAIN c.inbox = 1..Len(c.inbox)
      /\ \A i \in DOMAIN c.inbox : c.inbox[i] \in Lines
  BY <1>1, ElementOfSeq
<1>3. /\ Len(c.outbox) \in Nat /\ DOMAIN c.outbox = 1..Len(c.outbox)
      /\ \A i \in DOMAIN c.outbox : c.outbox[i] \in Frames
  BY <1>1, ElementOfSeq
<1> QED  BY <1>1, <1>2, <1>3

(* Another inbox leaves the rest of a connection as it is.                  *)
LEMMA OtherInbox ==
  ASSUME NEW c \in Connections, NEW x \in Seq(Lines)
  PROVE  LET d == [c EXCEPT !.inbox = x]
         IN  /\ d \in Connections /\ d.task = c.task /\ d.seen = c.seen /\ d.reply = c.reply
             /\ d.peer = c.peer /\ d.shell = c.shell /\ d.outbox = c.outbox /\ d.inbox = x
BY DEF Connections

(* And so does another outbox.                                              *)
LEMMA OtherOutbox ==
  ASSUME NEW c \in Connections, NEW y \in Seq(Frames)
  PROVE  LET d == [c EXCEPT !.outbox = y]
         IN  /\ d \in Connections /\ d.task = c.task /\ d.seen = c.seen /\ d.reply = c.reply
             /\ d.peer = c.peer /\ d.shell = c.shell /\ d.inbox = c.inbox /\ d.outbox = y
BY DEF Connections

(* A line more in the inbox.                                                *)
Told(c, l) == [c EXCEPT !.inbox = @ \o <<l>>]

(* It is the last, and the rest of the connection stays.                    *)
LEMMA Telling ==
  ASSUME NEW c \in Connections, NEW l \in Lines
  PROVE  LET d == Told(c, l)
         IN  /\ d \in Connections /\ d.task = c.task /\ d.seen = c.seen /\ d.reply = c.reply
             /\ d.peer = c.peer /\ d.shell = c.shell /\ d.outbox = c.outbox /\ DOMAIN d.inbox = 1..(Len(c.inbox) + 1)
             /\ Len(d.inbox) = Len(c.inbox) + 1 /\ d.inbox[Len(c.inbox) + 1] = l
             /\ \A i \in 1..Len(c.inbox) : d.inbox[i] = c.inbox[i]
<1> DEFINE d == Told(c, l)
           x == c.inbox \o <<l>>
<1>1. /\ DOMAIN c = {"task", "seen", "reply", "peer", "shell", "inbox", "outbox"} /\ c.shell \in Nat
      /\ c.task \in {"pending", "accepted", "ready", "closed"} /\ c.seen \in Nat
      /\ c.reply \in Reports \cup {NoReply} /\ c.peer \in BOOLEAN
      /\ c.inbox \in Seq(Lines) /\ c.outbox \in Seq(Frames)
  BY ConnectionParts
<1>2. /\ x \in Seq(Lines) /\ Len(x) = Len(c.inbox) + 1 /\ x[Len(c.inbox) + 1] = l
      /\ \A i \in 1..Len(c.inbox) : x[i] = c.inbox[i]
  BY <1>1
<1> HIDE DEF x
<1>3. d = [c EXCEPT !.inbox = x]  BY DEF Told, x
<1> HIDE DEF d
<1>4. /\ d \in Connections /\ d.task = c.task /\ d.seen = c.seen /\ d.reply = c.reply
      /\ d.peer = c.peer /\ d.shell = c.shell /\ d.outbox = c.outbox /\ d.inbox = x
  BY <1>2, <1>3, OtherInbox
<1>5. DOMAIN x = 1..Len(x)  BY <1>2
<1> QED  BY <1>2, <1>4, <1>5 DEF d

(* A frame less in the outbox.                                              *)
Read(c) == [c EXCEPT !.outbox = Tail(@)]

(* What is left is the rest of the outbox, and the first frame was one.     *)
LEMMA Reading ==
  ASSUME NEW c \in Connections, c.outbox # <<>>
  PROVE  LET d == Read(c)
         IN  /\ d \in Connections /\ d.task = c.task /\ d.seen = c.seen /\ d.reply = c.reply
             /\ d.peer = c.peer /\ d.shell = c.shell /\ d.inbox = c.inbox /\ DOMAIN d.outbox = 1..(Len(c.outbox) - 1)
             /\ Len(d.outbox) = Len(c.outbox) - 1 /\ Len(c.outbox) \in Nat \ {0}
             /\ Head(c.outbox) = c.outbox[1] /\ c.outbox[1] \in Frames
             /\ \A i \in 1..(Len(c.outbox) - 1) : d.outbox[i] = c.outbox[i + 1]
<1> DEFINE d == Read(c)
           y == Tail(c.outbox)
<1>1. /\ DOMAIN c = {"task", "seen", "reply", "peer", "shell", "inbox", "outbox"} /\ c.shell \in Nat
      /\ c.task \in {"pending", "accepted", "ready", "closed"} /\ c.seen \in Nat
      /\ c.reply \in Reports \cup {NoReply} /\ c.peer \in BOOLEAN
      /\ c.inbox \in Seq(Lines) /\ c.outbox \in Seq(Frames)
  BY ConnectionParts
<1>2. /\ y \in Seq(Frames) /\ Len(y) = Len(c.outbox) - 1 /\ Len(c.outbox) \in Nat \ {0}
      /\ \A i \in 1..(Len(c.outbox) - 1) : y[i] = c.outbox[i + 1]
      /\ DOMAIN y = 1..(Len(c.outbox) - 1)
  BY <1>1, HeadTailProperties
<1>3. Head(c.outbox) = c.outbox[1] /\ c.outbox[1] \in Frames
  BY <1>1, <1>2, ElementOfSeq
<1> HIDE DEF y
<1>4. d = [c EXCEPT !.outbox = y]  BY DEF Read, y
<1> HIDE DEF d
<1>5. /\ d \in Connections /\ d.task = c.task /\ d.seen = c.seen /\ d.reply = c.reply
      /\ d.peer = c.peer /\ d.shell = c.shell /\ d.inbox = c.inbox /\ d.outbox = y
  BY <1>2, <1>4, OtherOutbox
<1> QED  BY <1>2, <1>3, <1>5 DEF d

(****************************************************************************)
(* What a frontend that goes on still has made and still has open.          *)
(****************************************************************************)
Follows(u, v) ==
    \/ v.session = <<u.session[1], u.session[2] + 1>>
    \/ /\ v.session = u.session /\ v.nextRequestId >= u.nextRequestId
       /\ \/ v.panelStateRequestId = 0 \/ v.panelStateRequestId = u.panelStateRequestId
          \/ v.panelStateRequestId >= u.nextRequestId

(* A request that was made stays made.                                      *)
LEMMA StillMade ==
  ASSUME NEW u, NEW v, Kept(u), Kept(v), Follows(u, v),
         NEW a, a.session \in Sessions, a.id \in Nat, Made(u, a)
  PROVE  Made(v, a)
<1>1. /\ u.nextRequestId \in Nat /\ v.nextRequestId \in Nat
      /\ u.panelStateRequestId \in Nat /\ v.panelStateRequestId \in Nat
  BY Counters DEF Kept
<1>2. u.session \in Nat \X Nat /\ v.session \in Nat \X Nat /\ a.session \in Nat \X Nat
  BY DEF Kept, ServiceKept, Sessions
<1>3. /\ u.session[1] \in Nat /\ u.session[2] \in Nat /\ v.session[1] \in Nat /\ v.session[2] \in Nat
      /\ a.session[1] \in Nat /\ a.session[2] \in Nat
  BY <1>2
<1>4. CASE v.session = <<u.session[1], u.session[2] + 1>>
  <2>1. v.session[1] = u.session[1] /\ v.session[2] = u.session[2] + 1  BY <1>4
  <2> QED  BY <1>3, <2>1 DEF Made
<1>5. CASE v.session # <<u.session[1], u.session[2] + 1>>
  BY <1>1, <1>3, <1>5 DEF Made, Follows
<1> QED  BY <1>4, <1>5

(* The current panel request is not earlier than any that was made.         *)
LEMMA LatestOfAll ==
  ASSUME NEW v, Kept(v), NEW l, l.session = v.session, l.id = v.panelStateRequestId, l.id # 0,
         NEW a, a.session \in Sessions, a.id \in Nat, Made(v, a)
  PROVE  NotEarlier(l, a)
<1>1. v.nextRequestId \in Nat /\ v.panelStateRequestId \in Nat  BY Counters DEF Kept
<1>2. v.session \in Nat \X Nat /\ a.session \in Nat \X Nat  BY DEF Kept, ServiceKept, Sessions
<1>3. /\ v.session[1] \in Nat /\ v.session[2] \in Nat /\ a.session[1] \in Nat /\ a.session[2] \in Nat
  BY <1>2
<1> QED  BY <1>1, <1>3 DEF Made, NotEarlier

(* What is to be reported stays so while no request is forgotten.           *)
LEMMA StillReported ==
  ASSUME NEW u, NEW v, NEW c \in Connections, ReportsInOrder(u, c), \A id : Open(u, id) => Open(v, id)
  PROVE  ReportsInOrder(v, c)
BY DEF ReportsInOrder

(* An open request has an id that was handed out.                           *)
LEMMA OpenIsOld ==
  ASSUME NEW u, Kept(u), NEW id, Open(u, id)
  PROVE  id \in Nat \ {0} /\ id < u.nextRequestId
<1>1. u.nextRequestId \in Nat  BY Counters DEF Kept
<1>2. id \in 1..(u.nextRequestId - 1)  BY DEF Open, Kept, RequestsKept
<1> QED  BY <1>1, <1>2

(* Nothing is to be reported of a request.                                  *)
Unasked(c, id) ==
    /\ \A i \in DOMAIN c.inbox : c.inbox[i].type = "action" => c.inbox[i].id # id
    /\ c.reply.id # id
    /\ \A i \in DOMAIN c.outbox : c.outbox[i].type = "action_progress" => c.outbox[i].id # id

(* As nothing is of a new one.                                              *)
LEMMA NewIsUnasked ==
  ASSUME NEW u, NEW c \in Connections, Kept(u), ReportsInOrder(u, c),
         NEW id \in Nat \ {0}, id >= u.nextRequestId
  PROVE  Unasked(c, id)
<1>1. \A x : Open(u, x) => x # id
  <2>1. u.nextRequestId \in Nat  BY Counters DEF Kept
  <2> QED  BY <2>1, OpenIsOld
<1>2. c.reply.id # id
  <2>1. CASE c.reply = NoReply  BY <2>1 DEF NoReply
  <2>2. CASE c.reply # NoReply  BY <1>1, <2>2 DEF ReportsInOrder
  <2> QED  BY <2>1, <2>2
<1> QED  BY <1>1, <1>2 DEF ReportsInOrder, Unasked

(* A request is written after the others.                                   *)
LEMMA AskedLast ==
  ASSUME NEW u, NEW v, NEW c \in Connections, NEW l, Kept(u), Said(u, v, l),
         Unasked(c, l.id), ReportsInOrder(u, c)
  PROVE  ReportsInOrder(v, Told(c, l))
<1> DEFINE d == Told(c, l)
           n == Len(c.inbox)
<1>1. l \in Lines /\ l.type = "action" /\ l.id \in Nat \ {0} /\ Open(v, l.id)
      /\ \A id : Open(u, id) => Open(v, id)
  BY DEF Said, Lines, Stays
<1>2. /\ d.reply = c.reply /\ d.outbox = c.outbox /\ DOMAIN d.inbox = 1..(n + 1)
      /\ d.inbox[n + 1] = l /\ \A i \in 1..n : d.inbox[i] = c.inbox[i]
  BY <1>1, Telling
<1>3. n \in Nat /\ DOMAIN c.inbox = 1..n /\ DOMAIN c.outbox = 1..Len(c.outbox) /\ Len(c.outbox) \in Nat
  BY ConnectionParts
<1>4. ReportsInOrder(v, c)  BY <1>1, StillReported
<1> HIDE DEF d, n
<1>5. /\ \A i \in 1..n : c.inbox[i].type = "action" => c.inbox[i].id # l.id
      /\ c.reply.id # l.id
      /\ \A i \in DOMAIN c.outbox : c.outbox[i].type = "action_progress" => c.outbox[i].id # l.id
  BY <1>3 DEF Unasked
<1>6. \A i \in DOMAIN d.inbox : d.inbox[i].type = "action" =>
        /\ Open(v, d.inbox[i].id)
        /\ d.reply.id # d.inbox[i].id
        /\ \A j \in DOMAIN d.inbox :
               d.inbox[j].type = "action" /\ d.inbox[j].id = d.inbox[i].id => i = j
        /\ \A j \in DOMAIN d.outbox :
               d.outbox[j].type = "action_progress" => d.outbox[j].id # d.inbox[i].id
  <2> SUFFICES ASSUME NEW i \in 1..(n + 1), d.inbox[i].type = "action"
               PROVE  /\ Open(v, d.inbox[i].id)
                      /\ d.reply.id # d.inbox[i].id
                      /\ \A j \in 1..(n + 1) :
                             d.inbox[j].type = "action" /\ d.inbox[j].id = d.inbox[i].id => i = j
                      /\ \A j \in DOMAIN d.outbox :
                             d.outbox[j].type = "action_progress" => d.outbox[j].id # d.inbox[i].id
    BY <1>2
  <2>1. CASE i = n + 1
    <3>1. d.inbox[i] = l  BY <1>2, <2>1
    <3>2. \A j \in 1..(n + 1) : j = n + 1 \/ (j \in 1..n /\ d.inbox[j] = c.inbox[j])
      BY <1>2, <1>3
    <3> QED  BY <1>1, <1>2, <1>5, <2>1, <3>1, <3>2
  <2>2. CASE i # n + 1
    <3>1. i \in 1..n /\ i \in DOMAIN c.inbox /\ d.inbox[i] = c.inbox[i]  BY <1>2, <1>3, <2>2
    <3>2. \A j \in 1..(n + 1) : (j = n + 1 /\ d.inbox[j] = l) \/ (j \in DOMAIN c.inbox /\ d.inbox[j] = c.inbox[j])
      BY <1>2, <1>3
    <3>3. /\ Open(v, c.inbox[i].id) /\ c.reply.id # c.inbox[i].id
          /\ \A j \in DOMAIN c.inbox :
                 c.inbox[j].type = "action" /\ c.inbox[j].id = c.inbox[i].id => i = j
          /\ \A j \in DOMAIN c.outbox :
                 c.outbox[j].type = "action_progress" => c.outbox[j].id # c.inbox[i].id
      BY <1>4, <3>1 DEF ReportsInOrder
    <3> QED  BY <1>2, <1>5, <3>1, <3>2, <3>3
  <2> QED  BY <2>1, <2>2
<1>7. /\ d.reply # NoReply => Open(v, d.reply.id) /\ d.reply.state \in Terminal
      /\ \A i \in DOMAIN d.outbox : d.outbox[i].type = "action_progress" =>
              /\ Open(v, d.outbox[i].id)
              /\ d.outbox[i].state \in Terminal =>
                  /\ d.reply.id # d.outbox[i].id
                  /\ \A j \in (i + 1)..Len(d.outbox) :
                         d.outbox[j].type = "action_progress" => d.outbox[j].id # d.outbox[i].id
  BY <1>2, <1>4 DEF ReportsInOrder
<1> QED  BY <1>6, <1>7 DEF ReportsInOrder, d

(* A line that asks for nothing changes no report.                          *)
LEMMA AcknowledgedLast ==
  ASSUME NEW u, NEW c \in Connections, NEW l \in Lines, l.type # "action", ReportsInOrder(u, c)
  PROVE  ReportsInOrder(u, Told(c, l))
<1> DEFINE d == Told(c, l)
           n == Len(c.inbox)
<1>1. /\ d.reply = c.reply /\ d.outbox = c.outbox /\ DOMAIN d.inbox = 1..(n + 1)
      /\ d.inbox[n + 1] = l /\ \A i \in 1..n : d.inbox[i] = c.inbox[i]
  BY Telling
<1>2. n \in Nat /\ DOMAIN c.inbox = 1..n  BY ConnectionParts
<1> HIDE DEF d, n
<1>3. \A i \in DOMAIN d.inbox : d.inbox[i].type = "action" => i \in DOMAIN c.inbox /\ d.inbox[i] = c.inbox[i]
  BY <1>1, <1>2
<1> QED  BY <1>1, <1>3 DEF ReportsInOrder, d

(* The panel requests of the frontend's own shell.                          *)
Ordered(u, inbox, last) == InOrder(u, u.session[1], inbox, last)

(* Panel requests stay in order while the frontend goes on.                 *)
LEMMA StillInOrder ==
  ASSUME NEW u, NEW v, NEW c \in Connections, NEW last, Kept(u), Kept(v), Follows(u, v),
         Ordered(u, c.inbox, last)
  PROVE  Ordered(v, c.inbox, last)
<1>1. \A i \in DOMAIN c.inbox : IsPanel(c.inbox[i]) =>
          c.inbox[i].session \in Sessions /\ c.inbox[i].id \in Nat
  BY ConnectionParts, LineParts DEF IsPanel
<1>2. \A i \in DOMAIN c.inbox : IsPanel(c.inbox[i]) => Made(v, c.inbox[i])
  BY <1>1, StillMade DEF Ordered, InOrder
<1>3. v.session[1] = u.session[1]  BY DEF Follows
<1> QED  BY <1>2, <1>3 DEF Ordered, InOrder

(* A line that is none of them does not disturb it.                         *)
LEMMA InOrderBefore ==
  ASSUME NEW u, NEW c \in Connections, NEW last, NEW l \in Lines, Ordered(u, c.inbox, last), ~IsPanel(l)
  PROVE  Ordered(u, Told(c, l).inbox, last)
<1> DEFINE d == Told(c, l)
           n == Len(c.inbox)
<1>1. /\ DOMAIN d.inbox = 1..(n + 1)
      /\ d.inbox[n + 1] = l /\ \A i \in 1..n : d.inbox[i] = c.inbox[i]
  BY Telling
<1>2. n \in Nat /\ DOMAIN c.inbox = 1..n  BY ConnectionParts
<1> HIDE DEF d, n
<1>3. \A i \in DOMAIN d.inbox : IsPanel(d.inbox[i]) =>
          /\ i \in DOMAIN c.inbox /\ d.inbox[i] = c.inbox[i]
          /\ \A j \in 1..(i - 1) : d.inbox[j] = c.inbox[j]
  BY <1>1, <1>2
<1> QED  BY <1>3 DEF Ordered, InOrder, d

(* The current panel request is written after every other.                  *)
LEMMA InOrderAfter ==
  ASSUME NEW v, NEW c \in Connections, NEW last \in [session : Sessions, id : Nat],
         NEW l \in Lines, Kept(v), Ordered(v, c.inbox, last), Made(v, last),
         IsPanel(l), l.session = v.session, l.id = v.panelStateRequestId
  PROVE  Ordered(v, Told(c, l).inbox, last)
<1> DEFINE d == Told(c, l)
           n == Len(c.inbox)
<1>1. /\ DOMAIN d.inbox = 1..(n + 1)
      /\ d.inbox[n + 1] = l /\ \A i \in 1..n : d.inbox[i] = c.inbox[i]
  BY Telling
<1>2. n \in Nat /\ DOMAIN c.inbox = 1..n  BY ConnectionParts
<1>3. l.id \in Nat \ {0}  BY LineParts DEF IsPanel
<1>4. \A i \in 1..n : IsPanel(c.inbox[i]) =>
          c.inbox[i].session \in Sessions /\ c.inbox[i].id \in Nat /\ Made(v, c.inbox[i])
  BY <1>2, ConnectionParts, LineParts DEF IsPanel, Ordered, InOrder
<1>5. /\ NotEarlier(l, last)
      /\ \A i \in 1..n : IsPanel(c.inbox[i]) => NotEarlier(l, c.inbox[i])
  BY <1>3, <1>4, LatestOfAll
<1>6. l.session[1] = v.session[1]  OBVIOUS
<1>7. Made(v, l)
  <2>1. v.panelStateRequestId \in Nat /\ v.nextRequestId \in Nat /\ v.panelStateRequestId < v.nextRequestId
    BY Counters DEF Kept
  <2> QED  BY <2>1 DEF Made
<1> HIDE DEF d, n
<1>8. ASSUME NEW i \in DOMAIN d.inbox, IsPanel(d.inbox[i])
      PROVE  /\ d.inbox[i].session[1] = v.session[1] /\ Made(v, d.inbox[i])
             /\ NotEarlier(d.inbox[i], last) \/ last.session[1] > v.session[1]
             /\ \A j \in 1..(i - 1) : IsPanel(d.inbox[j]) => NotEarlier(d.inbox[i], d.inbox[j])
  <2>1. i \in 1..(n + 1) /\ \A j \in 1..(i - 1) : j \in 1..n /\ d.inbox[j] = c.inbox[j]
    BY <1>1, <1>2
  <2>2. CASE i = n + 1
    BY <1>1, <1>5, <1>6, <1>7, <2>1, <2>2
  <2>3. CASE i # n + 1
    <3>1. i \in DOMAIN c.inbox /\ d.inbox[i] = c.inbox[i]  BY <1>1, <1>2, <2>1, <2>3
    <3> QED  BY <1>8, <2>1, <3>1 DEF Ordered, InOrder
  <2> QED  BY <2>2, <2>3
<1> QED  BY <1>8 DEF Ordered, InOrder, d

(* What is read from the outbox: the reports after it are in order, and the *)
(* end of a request is the last that is heard of it.                        *)
LEMMA ReportRead ==
  ASSUME NEW u, NEW c \in Connections, c.outbox # <<>>, ReportsInOrder(u, c)
  PROVE  LET m == c.outbox[1]
         IN  /\ ReportsInOrder(u, Read(c))
             /\ m.type = "action_progress" =>
                    /\ Open(u, m.id)
                    /\ m.state \in Terminal =>
                           /\ \A i \in DOMAIN c.inbox : c.inbox[i].type = "action" => c.inbox[i].id # m.id
                           /\ c.reply.id # m.id
                           /\ \A i \in DOMAIN Read(c).outbox :
                                  Read(c).outbox[i].type = "action_progress" => Read(c).outbox[i].id # m.id
<1> DEFINE d == Read(c)
           n == Len(c.outbox)
           m == c.outbox[1]
<1>1. /\ d.reply = c.reply /\ d.inbox = c.inbox /\ DOMAIN d.outbox = 1..(n - 1) /\ n \in Nat \ {0}
      /\ Len(d.outbox) = n - 1 /\ \A i \in 1..(n - 1) : d.outbox[i] = c.outbox[i + 1]
  BY Reading
<1>2. DOMAIN c.outbox = 1..n  BY ConnectionParts
<1> HIDE DEF d, n
<1>3. \A i \in DOMAIN d.outbox : i + 1 \in DOMAIN c.outbox /\ d.outbox[i] = c.outbox[i + 1]
                                 /\ i + 1 \in (1 + 1)..n
  BY <1>1, <1>2
<1>4. \A i \in DOMAIN d.outbox : d.outbox[i].type = "action_progress" =>
           /\ Open(u, d.outbox[i].id)
           /\ d.outbox[i].state \in Terminal =>
                  /\ d.reply.id # d.outbox[i].id
                  /\ \A j \in (i + 1)..Len(d.outbox) :
                         d.outbox[j].type = "action_progress" => d.outbox[j].id # d.outbox[i].id
  <2> TAKE i \in DOMAIN d.outbox
  <2> HAVE d.outbox[i].type = "action_progress"
  <2>1. i + 1 \in DOMAIN c.outbox /\ d.outbox[i] = c.outbox[i + 1] /\ i \in Nat  BY <1>1, <1>3
  <2>2. /\ Open(u, c.outbox[i + 1].id)
        /\ c.outbox[i + 1].state \in Terminal =>
               /\ c.reply.id # c.outbox[i + 1].id
               /\ \A j \in ((i + 1) + 1)..n :
                      c.outbox[j].type = "action_progress" => c.outbox[j].id # c.outbox[i + 1].id
    BY <2>1 DEF ReportsInOrder, n
  <2>3. \A j \in (i + 1)..Len(d.outbox) : j + 1 \in ((i + 1) + 1)..n /\ d.outbox[j] = c.outbox[j + 1]
    BY <1>1, <2>1
  <2> QED  BY <1>1, <2>1, <2>2, <2>3
<1>5. ReportsInOrder(u, d)
  <2>1. \A i \in DOMAIN c.inbox : c.inbox[i].type = "action" =>
           \A j \in DOMAIN d.outbox : d.outbox[j].type = "action_progress" => d.outbox[j].id # c.inbox[i].id
    BY <1>3 DEF ReportsInOrder
  <2> QED  BY <1>1, <1>4, <2>1 DEF ReportsInOrder
<1>6. m.type = "action_progress" =>
          /\ Open(u, m.id)
          /\ m.state \in Terminal =>
                 /\ \A i \in DOMAIN c.inbox : c.inbox[i].type = "action" => c.inbox[i].id # m.id
                 /\ c.reply.id # m.id
                 /\ \A i \in (1 + 1)..n : c.outbox[i].type = "action_progress" => c.outbox[i].id # m.id
  <2>1. 1 \in DOMAIN c.outbox  BY <1>1, <1>2
  <2> QED  BY <2>1 DEF ReportsInOrder, n
<1>7. \A i \in DOMAIN d.outbox : m.type = "action_progress" /\ m.state \in Terminal =>
          (d.outbox[i].type = "action_progress" => d.outbox[i].id # m.id)
  BY <1>3, <1>6
<1> QED  BY <1>5, <1>6, <1>7 DEF d

(****************************************************************************)
(* A frame of the daemon in the frontend's reducer.                         *)
(****************************************************************************)
(* acceptActionProgress: the report is taken, and what follows from it is   *)
(* at most a new request.                                                   *)
LEMMA Progressing ==
  ASSUME NEW u, Kept(u), u.lines = <<>>, NEW id, Open(u, id),
         NEW state \in {"running", "completed", "failed"}
  PROVE  \E w : /\ Kept(w) /\ w.lines = <<>> /\ Only(u, w, {"requestProgress"})
                /\ \A x : Open(u, x) /\ (x # id \/ state \notin Terminal) => Open(w, x)
                /\ Spoke(w, AcceptActionProgress(u, id, state))
                /\ \A l : Said(w, AcceptActionProgress(u, id, state), l) => l.id >= w.nextRequestId
<1> DEFINE w == WithProgress(u, id, state)
           v == AcceptActionProgress(u, id, state)
           current == id = u.panelStateRequestId
<1>1. DOMAIN u = Fields  BY DEF Kept, ServiceKept, Fields
<1>2. /\ Only(u, w, {"requestProgress"})
      /\ w.requestProgress = [r \in DOMAIN u.requestProgress \cup {id} |->
                                 IF r = id THEN state ELSE u.requestProgress[r]]
  BY <1>1, FieldsAre DEF WithProgress, Only
<1>3. v = CASE current /\ state = "completed" ->
                   [w EXCEPT !.panelRetryCount = 0, !.panelActionError = FALSE,
                             !.panelRetryTimer = FALSE]
            [] current /\ state \in {"failed", "cancelled"} -> SchedulePanelRetry(w)
            [] ~current /\ state \in Terminal /\ w.panelStateKnown
                   /\ w.panelStateRequestId = 0 /\ ~w.panelRetryTimer -> SyncPanelState(w)
            [] OTHER -> w
  BY DEF AcceptActionProgress
<1> HIDE DEF w
<1>4. id \in DOMAIN u.requestProgress  BY DEF Open
<1>5. /\ DOMAIN w.requestProgress = DOMAIN u.requestProgress /\ DOMAIN w = Fields
      /\ w.requestOrder = u.requestOrder /\ w.lines = <<>>
      /\ w.nextRequestId = u.nextRequestId /\ w.panelStateRequestId = u.panelStateRequestId
      /\ w.panelRetryCount = u.panelRetryCount /\ w.panelRetryTimer = u.panelRetryTimer
      /\ w.panelDesiredOpen = u.panelDesiredOpen /\ w.session = u.session /\ w.bridge = u.bridge
      /\ w.reconnectTimer = u.reconnectTimer /\ w.connectionError = u.connectionError
  BY <1>1, <1>2, <1>4, FieldsAre DEF Only
<1>6. RequestsKept(w)
  <2>1. \A x \in DOMAIN w.requestProgress :
            w.requestProgress[x] \in {"issued", "queued", "running"} \cup Terminal
    BY <1>2, <1>5 DEF Kept, RequestsKept, Terminal
  <2> QED  BY <1>5, <2>1 DEF Kept, RequestsKept
<1>7. Kept(w)
  <2>1. Only(u, w, Panel)  BY <1>2 DEF Only, Panel
  <2>2. u.connectionError # "protocol_error"  BY DEF Kept, ServiceKept
  <2> QED  BY <1>5, <1>6, <2>1, <2>2, KeptByService
<1>8. \A x : Open(u, x) /\ (x # id \/ state \notin Terminal) => Open(w, x)
  BY <1>2, <1>5 DEF Open
<1>9. ASSUME NEW x, Moves(w, x)  PROVE Spoke(w, x) /\ \A l : ~Said(w, x, l)
  <2>1. Spoke(w, x) /\ x.lines = <<>>  BY <1>5, <1>7, <1>9, MovesSilently
  <2>2. \A l : Said(w, x, l) => x.lines # <<>>  BY DEF Said
  <2> QED  BY <2>1, <2>2
<1>10. /\ w.panelRetryCount \in Nat /\ MaxPanelRetries \in Nat /\ w.connectionError # "protocol_error"
       /\ w.panelDesiredOpen \in BOOLEAN /\ w.nextRequestId \in Nat
  BY <1>7, Counters, ClientLimits DEF Kept, RequestsKept, ServiceKept
<1>11. Spoke(w, v) /\ \A l : Said(w, v, l) => l.id >= w.nextRequestId
  <2>1. CASE current /\ state = "completed"
    <3> DEFINE x == [w EXCEPT !.panelRetryCount = 0, !.panelActionError = FALSE,
                              !.panelRetryTimer = FALSE]
    <3>1. v = x  BY <1>3, <2>1
    <3>2. /\ Only(w, x, {"panelRetryCount", "panelActionError", "panelRetryTimer"})
          /\ x.panelRetryCount = 0 /\ ~x.panelRetryTimer
          /\ x.panelStateRequestId = w.panelStateRequestId
          /\ x.panelDesiredOpen = w.panelDesiredOpen /\ x.connectionError = w.connectionError
      BY <1>5, FieldsAre DEF Only
    <3> HIDE DEF x
    <3>3. Only(w, x, {"panelStateRequestId", "panelStateKnown", "panelDesiredOpen", "panelRetryCount",
                      "panelRetryTimer", "panelActionError", "connectionError"})
      BY <3>2 DEF Only
    <3>4. x.panelRetryCount \in 0..MaxPanelRetries  BY <1>10, <3>2
    <3>5. Moves(w, x)  BY <1>7, <1>10, <3>2, <3>3, <3>4, PanelChange
    <3> QED  BY <1>9, <3>1, <3>5
  <2>2. CASE current /\ state \in {"failed", "cancelled"}
    <3>1. v = SchedulePanelRetry(w)  BY <1>3, <2>2
    <3>2. Moves(w, v)  BY <1>7, <3>1, Retrying
    <3> QED  BY <1>9, <3>2
  <2>3. CASE /\ ~current /\ state \in Terminal /\ w.panelStateKnown
             /\ w.panelStateRequestId = 0 /\ ~w.panelRetryTimer
    <3>1. v = SyncPanelState(w)  BY <1>3, <2>3
    <3>2. Spoke(w, v)  BY <1>5, <1>7, <3>1, Syncing
    <3>3. ASSUME NEW l, Said(w, v, l)  PROVE l.id >= w.nextRequestId
      <4>1. l.id \in Nat \ {0} /\ (l.id >= w.nextRequestId \/ l.id = w.panelStateRequestId)
        BY <3>3 DEF Said
      <4> QED  BY <2>3, <4>1
    <3> QED  BY <3>2, <3>3
  <2>4. CASE /\ ~(current /\ state = "completed") /\ ~(current /\ state \in {"failed", "cancelled"})
             /\ ~(/\ ~current /\ state \in Terminal /\ w.panelStateKnown
                  /\ w.panelStateRequestId = 0 /\ ~w.panelRetryTimer)
    <3>1. v = w  BY <1>3, <2>4
    <3>2. Stays(w, w) /\ Only(w, w, Panel)  BY <1>10 DEF Stays, Only
    <3>3. Moves(w, w)  BY <1>7, <3>2 DEF Moves
    <3> QED  BY <1>9, <3>1, <3>3
  <2> QED  BY <2>1, <2>2, <2>3, <2>4
<1> QED  BY <1>2, <1>5, <1>7, <1>8, <1>11

(* acceptHello: what another backend sent is gone before the panel state is *)
(* sent again.                                                              *)
LEMMA Greeting ==
  ASSUME NEW u, Kept(u), u.lines = <<>>, NEW s \in Nat \ {0}
  PROVE  \E q : /\ Kept(q) /\ q.lines = <<>> /\ q.phase = "ready" /\ q.streamId = s
                /\ q.session = u.session /\ q.bridge = u.bridge
                /\ q.nextRequestId = u.nextRequestId /\ q.panelStateRequestId = u.panelStateRequestId
                /\ s = u.streamId => q.snapshot = u.snapshot
                /\ Spoke(q, AcceptHello(u, s))
<1> DEFINE x == [u EXCEPT !.phase = "ready", !.streamId = s, !.handshakeTimer = FALSE]
           w == [ForgetRequests(x) EXCEPT !.lastSequence = 0, !.snapshot = NoSnapshot,
                  !.panelRetryCount = 0, !.panelActionError = FALSE,
                  !.panelRetryTimer = FALSE]
           q == IF u.streamId # 0 /\ u.streamId # s THEN w ELSE x
<1>1. DOMAIN u = Fields /\ MaxPanelRetries \in Nat
  BY ClientLimits DEF Kept, ServiceKept, Fields
<1>2. AcceptHello(u, s) = SyncPanelState(q)  BY DEF AcceptHello
<1>3. CASE u.streamId # 0 /\ u.streamId # s
  <2>1. q = w  BY <1>3
  <2>2. /\ Only(u, w, {"phase", "streamId", "handshakeTimer", "requestProgress", "requestOrder",
                       "lastSequence", "snapshot", "panelRetryCount", "panelActionError",
                       "panelRetryTimer"})
        /\ w.phase = "ready" /\ w.streamId = s /\ w.requestProgress = <<>> /\ w.requestOrder = <<>>
        /\ w.lastSequence = 0 /\ w.snapshot = NoSnapshot /\ w.panelRetryCount = 0 /\ ~w.panelRetryTimer
    BY <1>1, FieldsAre DEF ForgetRequests, Only
  <2> HIDE DEF w
  <2>3. /\ w.lines = <<>> /\ w.session = u.session /\ w.bridge = u.bridge
        /\ w.nextRequestId = u.nextRequestId /\ w.panelStateRequestId = u.panelStateRequestId
        /\ w.panelDesiredOpen = u.panelDesiredOpen
    BY <1>1, <2>2, FieldsAre DEF Only
  <2>4. RequestsKept(w)
    <3>1. /\ w.nextRequestId \in 1..MaxRequestId /\ w.panelStateRequestId \in 0..(w.nextRequestId - 1)
          /\ w.panelDesiredOpen \in BOOLEAN
      BY <2>3 DEF Kept, RequestsKept
    <3>2. w.panelRetryCount \in 0..MaxPanelRetries  BY <1>1, <2>2
    <3>3. /\ w.requestOrder \in Seq(DOMAIN w.requestProgress)
          /\ DOMAIN w.requestProgress \subseteq 1..(w.nextRequestId - 1)
          /\ \A i, j \in DOMAIN w.requestOrder : w.requestOrder[i] = w.requestOrder[j] => i = j
      BY <2>2
    <3> QED  BY <2>2, <3>1, <3>2, <3>3 DEF RequestsKept
  <2>5. ServiceKept(w)
    BY <1>1, <2>2, FieldsAre DEF Only, Kept, ServiceKept, Fields, NoSnapshot
  <2>6. Kept(w)  BY <2>4, <2>5 DEF Kept
  <2>7. Spoke(w, SyncPanelState(w))  BY <2>3, <2>6, Syncing
  <2> QED  BY <1>2, <1>3, <2>1, <2>2, <2>3, <2>6, <2>7
<1>4. CASE ~(u.streamId # 0 /\ u.streamId # s)
  <2>1. q = x  BY <1>4
  <2>2. /\ Only(u, x, {"phase", "streamId", "handshakeTimer"})
        /\ x.phase = "ready" /\ x.streamId = s
    BY <1>1, FieldsAre DEF Only
  <2> HIDE DEF x
  <2>3. /\ x.lines = <<>> /\ x.session = u.session /\ x.bridge = u.bridge
        /\ x.nextRequestId = u.nextRequestId /\ x.panelStateRequestId = u.panelStateRequestId
        /\ x.panelDesiredOpen = u.panelDesiredOpen /\ x.requestProgress = u.requestProgress
        /\ x.requestOrder = u.requestOrder /\ x.panelRetryCount = u.panelRetryCount
        /\ x.panelRetryTimer = u.panelRetryTimer /\ x.snapshot = u.snapshot
        /\ x.lastSequence = u.lastSequence
    BY <1>1, <2>2, FieldsAre DEF Only
  <2>4. RequestsKept(x)  BY <2>3 DEF Kept, RequestsKept
  <2>5. x.snapshot # NoSnapshot => x.snapshot.stream = x.streamId
    BY <1>4, <2>2, <2>3 DEF Kept, ServiceKept
  <2>6. ServiceKept(x)
    BY <1>1, <2>2, <2>3, <2>5, FieldsAre DEF Only, Kept, ServiceKept, Fields
  <2>7. Kept(x)  BY <2>4, <2>6 DEF Kept
  <2>8. Spoke(x, SyncPanelState(x))  BY <2>3, <2>7, Syncing
  <2> QED  BY <1>2, <1>4, <2>1, <2>2, <2>3, <2>7, <2>8
<1> QED  BY <1>3, <1>4

(* acceptSnapshot: what is shown is never replaced by something older.      *)
LEMMA Showing ==
  ASSUME NEW u, Kept(u), u.lines = <<>>, NEW n \in Nat \ {0}, u.streamId \in Nat \ {0}
  PROVE  LET v == AcceptSnapshot(u, u.streamId, n)
         IN  /\ Kept(v) /\ Only(u, v, {"lastSequence", "snapshot", "lines"})
             /\ v.snapshot.sequence >= u.snapshot.sequence
             /\ v.lines = <<>> \/ (v.lines = <<SnapshotAck(u, n)>> /\ v.bridge = "running")
<1> DEFINE v == AcceptSnapshot(u, u.streamId, n)
           ack == SnapshotAck(u, n)
           x == [u EXCEPT !.lastSequence = n, !.snapshot = [stream |-> u.streamId, sequence |-> n]]
<1>1. DOMAIN u = Fields /\ u.snapshot.sequence \in Nat /\ u.lastSequence = u.snapshot.sequence
  <2>1. u.snapshot \in [stream : Nat \ {0}, sequence : Nat \ {0}] \cup {NoSnapshot}
    BY DEF Kept, ServiceKept
  <2> QED  BY <2>1 DEF NoSnapshot, Kept, ServiceKept, Fields
<1>2. CASE n < u.lastSequence
  <2>1. v = u  BY <1>2 DEF AcceptSnapshot
  <2> QED  BY <1>1, <2>1 DEF Only
<1>3. CASE n = u.lastSequence
  <2>1. v = WriteLine(u, ack)  BY <1>1, <1>3 DEF AcceptSnapshot
  <2> HIDE DEF ack
  <2>2. /\ Kept(v) /\ Only(u, v, {"lines"})
        /\ v.lines = <<>> \/ (v.lines = <<ack>> /\ v.bridge = "running")
    BY <2>1, Writing
  <2> HIDE DEF v
  <2>3. v.snapshot = u.snapshot  BY <1>1, <2>2, FieldsAre DEF Only
  <2>4. Only(u, v, {"lastSequence", "snapshot", "lines"})  BY <2>2 DEF Only
  <2> QED  BY <1>1, <2>2, <2>3, <2>4 DEF v, ack
<1>4. CASE n > u.lastSequence
  <2>1. v = WriteLine(x, ack)  BY <1>1, <1>4 DEF AcceptSnapshot
  <2>2. /\ Only(u, x, {"lastSequence", "snapshot"})
        /\ x.lastSequence = n /\ x.snapshot = [stream |-> u.streamId, sequence |-> n]
    BY <1>1, FieldsAre DEF Only
  <2> HIDE DEF x, ack
  <2>3. /\ x.lines = <<>> /\ x.nextRequestId = u.nextRequestId /\ x.panelStateRequestId = u.panelStateRequestId
        /\ x.panelDesiredOpen = u.panelDesiredOpen /\ x.requestProgress = u.requestProgress
        /\ x.requestOrder = u.requestOrder /\ x.panelRetryCount = u.panelRetryCount
        /\ x.panelRetryTimer = u.panelRetryTimer /\ x.streamId = u.streamId /\ DOMAIN x = Fields
    BY <1>1, <2>2, FieldsAre DEF Only
  <2>4. RequestsKept(x)  BY <2>3 DEF Kept, RequestsKept
  <2>5. /\ x.snapshot \in [stream : Nat \ {0}, sequence : Nat \ {0}]
        /\ x.snapshot.stream = x.streamId /\ x.lastSequence = x.snapshot.sequence
        /\ x.snapshot.sequence = n
    BY <2>2, <2>3
  <2>6. ServiceKept(x)
    BY <1>1, <2>2, <2>3, <2>5, FieldsAre DEF Only, Kept, ServiceKept, Fields
  <2>7. Kept(x)  BY <2>4, <2>6 DEF Kept
  <2>8. /\ Kept(v) /\ Only(x, v, {"lines"})
        /\ v.lines = <<>> \/ (v.lines = <<ack>> /\ v.bridge = "running")
    BY <2>1, <2>3, <2>7, Writing
  <2> HIDE DEF v
  <2>9. v.snapshot = x.snapshot  BY <2>3, <2>8, FieldsAre DEF Only
  <2>10. Only(u, v, {"lastSequence", "snapshot", "lines"})  BY <2>2, <2>8, OnlyAlso
  <2> QED  BY <1>1, <1>4, <2>5, <2>8, <2>9, <2>10 DEF v, ack
<1> QED  BY <1>1, <1>2, <1>3, <1>4

(****************************************************************************)
(* What the frontend writes, on the connection of its bridge.               *)
(****************************************************************************)
Carry(c, lines) == IF c.task = "closed" \/ lines = <<>> THEN c ELSE [c EXCEPT !.inbox = @ \o lines]

(* v follows u: requests that were made stay made.                          *)
LEMMA SpokeFollows ==
  ASSUME NEW u, NEW v, Kept(u), Spoke(u, v)
  PROVE  Follows(u, v) /\ Kept(v) /\ v.phase = u.phase /\ v.streamId = u.streamId /\ v.snapshot = u.snapshot
         /\ DOMAIN v = Fields
<1>1. Stays(u, v) \/ Renewed(u, v)  BY DEF Spoke, Said
<1>2. DOMAIN u = Fields  BY DEF Kept, ServiceKept, Fields
<1>3. /\ v.phase = u.phase /\ v.streamId = u.streamId /\ v.snapshot = u.snapshot /\ DOMAIN v = Fields
  BY <1>2, FieldsAre DEF Spoke, Only, Panel
<1> QED  BY <1>1, <1>3 DEF Stays, Renewed, Follows, Spoke

(* The frontend speaks, or stays silent, on a connection whose talk is in   *)
(* order: it still is.                                                      *)
LEMMA Carried ==
  ASSUME NEW u, NEW v, NEW c \in Connections, NEW last \in [session : Sessions, id : Nat],
         Kept(u), u.lines = <<>>, Spoke(u, v), Made(u, last),
         c.peer => Ordered(u, c.inbox, last), u.bridge = "running" => Talks(u, c) /\ c.peer,
         \A l : Said(u, v, l) => Unasked(c, l.id)
  PROVE  LET d == Carry(c, v.lines)
         IN  /\ d \in Connections /\ d.task = c.task /\ d.peer = c.peer /\ d.shell = c.shell
             /\ Made(v, last) /\ (c.peer => Ordered(v, d.inbox, last))
             /\ v.bridge = "running" => Talks(v, d)
<1> DEFINE d == Carry(c, v.lines)
<1>1. /\ Follows(u, v) /\ Kept(v) /\ v.phase = u.phase /\ v.streamId = u.streamId
  BY SpokeFollows
<1>2. Made(v, last)  BY <1>1, StillMade
<1>3. c.peer => Ordered(v, c.inbox, last)  BY <1>1, StillInOrder
<1>4. v.bridge = "running" => Talks(v, c) /\ u.bridge = "running"
  <2>1. SUFFICES ASSUME v.bridge = "running"  PROVE Talks(v, c) /\ u.bridge = "running"
    OBVIOUS
  <2>2. Stays(u, v)  BY <2>1 DEF Spoke, Said, Renewed
  <2>3. u.bridge = "running" /\ Talks(u, c) /\ \A id : Open(u, id) => Open(v, id)
    BY <2>1, <2>2 DEF Stays
  <2>4. u.phase = "ready" => ReportsInOrder(v, c)
    BY <2>3, StillReported DEF Talks
  <2>5. u.phase = "ready" => Greeted(v, c)
    BY <1>1, <2>3 DEF Talks, Greeted
  <2> QED  BY <1>1, <2>3, <2>4, <2>5 DEF Talks
<1>5. CASE c.task = "closed" \/ v.lines = <<>>
  <2>1. d = c  BY <1>5 DEF Carry
  <2> QED  BY <1>2, <1>3, <1>4, <2>1
<1>6. CASE ~(c.task = "closed" \/ v.lines = <<>>)
  <2>1. PICK l : Said(u, v, l)  BY <1>6 DEF Spoke
  <2>2. /\ v.lines = <<l>> /\ v.bridge = "running" /\ v.phase = "ready" /\ l \in Lines
        /\ l.type = "action" /\ l.session = v.session
        /\ l.action # "refresh_all" => l.id = v.panelStateRequestId
    BY <2>1 DEF Said, Lines
  <2>3. d = Told(c, l)  BY <1>6, <2>2 DEF Carry, Told
  <2> HIDE DEF d
  <2>4. /\ d \in Connections /\ d.task = c.task /\ d.peer = c.peer /\ d.shell = c.shell /\ d.outbox = c.outbox
        /\ DOMAIN d.inbox = 1..(Len(c.inbox) + 1) /\ d.inbox[Len(c.inbox) + 1] = l
        /\ \A i \in 1..Len(c.inbox) : d.inbox[i] = c.inbox[i]
    BY <2>2, <2>3, Telling
  <2>5. Talks(u, c) /\ u.phase = "ready" /\ c.peer  BY <1>1, <1>4, <2>2
  <2>6. ReportsInOrder(v, d)
    BY <2>1, <2>3, <2>5, AskedLast DEF Talks
  <2>7. Greeted(v, d)
    <3>1. Greeted(v, c)  BY <1>4, <2>2 DEF Talks
    <3>2. \A i \in DOMAIN d.inbox : d.inbox[i] = l \/ (i \in DOMAIN c.inbox /\ d.inbox[i] = c.inbox[i])
      <4>1. Len(c.inbox) \in Nat /\ DOMAIN c.inbox = 1..Len(c.inbox)  BY ConnectionParts
      <4> QED  BY <2>4, <4>1
    <3> QED  BY <2>2, <2>4, <3>1, <3>2 DEF Greeted
  <2>8. Talks(v, d)  BY <2>2, <2>6, <2>7 DEF Talks
  <2>9. Ordered(v, d.inbox, last)
    <3>1. CASE IsPanel(l)
      BY <1>1, <1>2, <1>3, <2>2, <2>3, <2>5, <3>1, InOrderAfter DEF IsPanel
    <3>2. CASE ~IsPanel(l)
      BY <1>3, <2>2, <2>3, <2>5, <3>2, InOrderBefore
    <3> QED  BY <3>1, <3>2
  <2> QED  BY <1>2, <2>4, <2>8, <2>9 DEF d
<1> QED  BY <1>5, <1>6

(* A frame of the bridge's output, and what the frontend answers.           *)
Heard(c, v) == IF c.task = "closed" THEN Read(c) ELSE [Read(c) EXCEPT !.inbox = @ \o v.lines]

(* The two ways of writing an answer agree.                                 *)
LEMMA HeardIsCarried ==
  ASSUME NEW c \in Connections, c.outbox # <<>>, NEW v
  PROVE  Heard(c, v) = Carry(Read(c), v.lines)
<1> DEFINE r == Read(c)
<1>1. r \in Connections /\ r.task = c.task  BY Reading
<1>2. r.inbox \in Seq(Lines)  BY <1>1, ConnectionParts
<1>3. r.inbox \o <<>> = r.inbox  BY <1>2
<1> HIDE DEF r
<1>4. [r EXCEPT !.inbox = r.inbox] = r  BY <1>1 DEF Connections
<1> QED  BY <1>1, <1>3, <1>4 DEF Heard, Carry, r

(* The hello of the daemon: nothing else is said before.                    *)
LEMMA HearsHello ==
  ASSUME NEW u, NEW c \in Connections, NEW last \in [session : Sessions, id : Nat],
         Kept(u), u.lines = <<>>, u.bridge = "running", u.phase = "awaiting_hello",
         AwaitsHello(c), c.outbox # <<>>, c.peer, Made(u, last)
  PROVE  LET m == c.outbox[1]
             v == AcceptHello(u, m.stream)
             d == Carry(Read(c), v.lines)
         IN  /\ m.type = "hello" /\ m.stream \in Nat \ {0}
             /\ Kept(v) /\ v.bridge # "off"
             /\ d \in Connections /\ d.task = c.task /\ d.peer = c.peer /\ d.shell = c.shell
             /\ Made(v, last) /\ Ordered(v, d.inbox, last)
             /\ v.bridge = "running" => Talks(v, d)
             /\ v.session[1] = u.session[1]
             /\ v.streamId = u.streamId => v.snapshot = u.snapshot
<1> DEFINE m == c.outbox[1]
           s == m.stream
           v == AcceptHello(u, s)
           r == Read(c)
           d == Carry(r, v.lines)
<1>1. /\ r \in Connections /\ r.task = c.task /\ r.reply = c.reply /\ r.peer = c.peer /\ r.shell = c.shell /\ r.inbox = c.inbox
      /\ DOMAIN r.outbox = 1..(Len(c.outbox) - 1) /\ Len(c.outbox) \in Nat \ {0} /\ m \in Frames
      /\ \A i \in 1..(Len(c.outbox) - 1) : r.outbox[i] = c.outbox[i + 1]
  BY Reading
<1>2. /\ c.task \in {"ready", "closed"} /\ c.reply = NoReply /\ c.inbox = <<>>
      /\ m.type = "hello" /\ (c.task = "ready" => m.stream = stream)
      /\ \A i \in 2..Len(c.outbox) : c.outbox[i].type = "snapshot" /\ c.outbox[i].stream = m.stream
  BY DEF AwaitsHello
<1>3. s \in Nat \ {0}  BY <1>1, <1>2, FrameParts
<1>4. PICK q : /\ Kept(q) /\ q.lines = <<>> /\ q.phase = "ready" /\ q.streamId = s
               /\ q.session = u.session /\ q.bridge = u.bridge
               /\ q.nextRequestId = u.nextRequestId /\ q.panelStateRequestId = u.panelStateRequestId
               /\ s = u.streamId => q.snapshot = u.snapshot
               /\ Spoke(q, v)
  BY <1>3, Greeting
<1> HIDE DEF m, v, r
<1>5. \A i \in DOMAIN r.outbox : r.outbox[i].type = "snapshot" /\ r.outbox[i].stream = s
  <2>1. \A i \in DOMAIN r.outbox : i + 1 \in 2..Len(c.outbox) /\ r.outbox[i] = c.outbox[i + 1]
    BY <1>1
  <2> QED  BY <1>2, <2>1
<1>6. r.inbox = <<>> /\ DOMAIN r.inbox = {}  BY <1>1, <1>2
<1>7. Talks(q, r)
  <2>1. Greeted(q, r)  BY <1>1, <1>2, <1>4, <1>5, <1>6 DEF Greeted
  <2>2. ReportsInOrder(q, r)  BY <1>1, <1>2, <1>5, <1>6 DEF ReportsInOrder
  <2> QED  BY <1>4, <2>1, <2>2 DEF Talks
<1>8. \A l : Said(q, v, l) => Unasked(r, l.id)
  <2>1. \A l : Said(q, v, l) => l.id # 0  BY DEF Said
  <2> QED  BY <1>1, <1>2, <1>5, <1>6, <2>1 DEF Unasked, NoReply
<1>9. Ordered(q, r.inbox, last)  BY <1>6 DEF Ordered, InOrder
<1>10. Made(q, last)
  <2>1. q.nextRequestId \in Nat  BY <1>4, Counters DEF Kept
  <2>2. Follows(u, q)  BY <1>4, <2>1 DEF Follows
  <2> QED  BY <1>4, <2>2, StillMade
<1>11. /\ d \in Connections /\ d.task = r.task /\ d.peer = r.peer /\ d.shell = r.shell
       /\ Made(v, last) /\ (r.peer => Ordered(v, d.inbox, last))
       /\ v.bridge = "running" => Talks(v, d)
  BY <1>1, <1>4, <1>7, <1>8, <1>9, <1>10, Carried
<1>12. Follows(q, v) /\ Kept(v) /\ v.streamId = q.streamId /\ v.snapshot = q.snapshot
  BY <1>4, SpokeFollows
<1>13. v.bridge # "off"
  <2>1. Stays(q, v) \/ Renewed(q, v)  BY <1>4 DEF Spoke, Said
  <2> QED  BY <1>4, <2>1 DEF Stays, Renewed
<1>14. v.session[1] = u.session[1]  BY <1>4, <1>12 DEF Follows
<1> QED  BY <1>1, <1>2, <1>3, <1>4, <1>11, <1>12, <1>13, <1>14 DEF m, v, r

(* A snapshot: it is shown unless it is old, and acknowledged.              *)
LEMMA HearsSnapshot ==
  ASSUME NEW u, NEW c \in Connections, NEW last \in [session : Sessions, id : Nat],
         Kept(u), u.lines = <<>>, u.bridge = "running", u.phase = "ready",
         Talks(u, c), c.outbox # <<>>, c.outbox[1].type = "snapshot",
         Made(u, last), Ordered(u, c.inbox, last)
  PROVE  LET m == c.outbox[1]
             v == AcceptSnapshot(u, m.stream, m.sequence)
             d == Carry(Read(c), v.lines)
         IN  /\ Kept(v) /\ v.bridge # "off"
             /\ d \in Connections /\ d.task = c.task /\ d.peer = c.peer /\ d.shell = c.shell
             /\ Made(v, last) /\ Ordered(v, d.inbox, last)
             /\ v.bridge = "running" => Talks(v, d)
             /\ v.session[1] = u.session[1]
             /\ v.snapshot.sequence >= u.snapshot.sequence
<1> DEFINE m == c.outbox[1]
           n == m.sequence
           ack == SnapshotAck(u, n)
           v == AcceptSnapshot(u, u.streamId, n)
           r == Read(c)
           d == Carry(r, v.lines)
<1>1. /\ r \in Connections /\ r.task = c.task /\ r.reply = c.reply /\ r.peer = c.peer /\ r.shell = c.shell /\ r.inbox = c.inbox
      /\ DOMAIN r.outbox = 1..(Len(c.outbox) - 1) /\ Len(c.outbox) \in Nat \ {0} /\ m \in Frames
      /\ \A i \in 1..(Len(c.outbox) - 1) : r.outbox[i] = c.outbox[i + 1]
  BY Reading
<1>2. Greeted(u, c) /\ ReportsInOrder(u, c)  BY DEF Talks
<1>3. DOMAIN c.outbox = 1..Len(c.outbox)  BY ConnectionParts
<1>4. m.stream = u.streamId /\ n \in Nat \ {0} /\ u.streamId \in Nat \ {0}
  BY <1>1, <1>2, <1>3, FrameParts DEF Greeted
<1>5. /\ Kept(v) /\ Only(u, v, {"lastSequence", "snapshot", "lines"})
      /\ v.snapshot.sequence >= u.snapshot.sequence
      /\ v.lines = <<>> \/ (v.lines = <<ack>> /\ v.bridge = "running")
  BY <1>4, Showing
<1>6. ack \in Lines /\ ack.type = "snapshot_ack"  BY <1>4 DEF SnapshotAck, Lines
<1> HIDE DEF ack, v, r
<1>7. /\ v.phase = u.phase /\ v.streamId = u.streamId /\ v.session = u.session /\ v.bridge = u.bridge
      /\ v.requestProgress = u.requestProgress /\ v.nextRequestId = u.nextRequestId
      /\ v.panelStateRequestId = u.panelStateRequestId
  <2>1. DOMAIN u = Fields  BY DEF Kept, ServiceKept, Fields
  <2> QED  BY <1>5, <2>1, FieldsAre DEF Only
<1>8. ReportsInOrder(u, r)  BY <1>2, ReportRead DEF r
<1>9. ReportsInOrder(v, r)
  <2>1. \A id : Open(u, id) => Open(v, id)  BY <1>7 DEF Open
  <2> QED  BY <1>1, <1>8, <2>1, StillReported
<1>10. Greeted(v, r)
  <2>1. \A i \in DOMAIN r.outbox : i + 1 \in DOMAIN c.outbox /\ r.outbox[i] = c.outbox[i + 1]
    BY <1>1, <1>3
  <2> QED  BY <1>1, <1>2, <1>7, <2>1 DEF Greeted
<1>11. Follows(u, v)
  <2>1. u.nextRequestId \in Nat  BY Counters DEF Kept
  <2> QED  BY <1>7, <2>1 DEF Follows
<1>12. Made(v, last) /\ Ordered(v, r.inbox, last)
  BY <1>1, <1>5, <1>11, StillMade, StillInOrder
<1>13. /\ d \in Connections /\ d.task = c.task /\ d.peer = c.peer /\ d.shell = c.shell
       /\ Talks(v, d) /\ Ordered(v, d.inbox, last)
  <2>1. CASE r.task = "closed" \/ v.lines = <<>>
    <3>1. d = r  BY <2>1 DEF Carry
    <3> QED  BY <1>1, <1>7, <1>9, <1>10, <1>12, <3>1 DEF Talks
  <2>2. CASE ~(r.task = "closed" \/ v.lines = <<>>)
    <3>1. d = Told(r, ack)  BY <1>5, <2>2 DEF Carry, Told
    <3> HIDE DEF d
    <3>2. /\ d \in Connections /\ d.task = r.task /\ d.peer = r.peer /\ d.shell = r.shell /\ d.outbox = r.outbox
          /\ DOMAIN d.inbox = 1..(Len(r.inbox) + 1) /\ d.inbox[Len(r.inbox) + 1] = ack
          /\ \A i \in 1..Len(r.inbox) : d.inbox[i] = r.inbox[i]
      BY <1>1, <1>6, <3>1, Telling
    <3>3. ReportsInOrder(v, d)
      BY <1>1, <1>6, <1>9, <3>1, AcknowledgedLast
    <3>4. Greeted(v, d)
      <4>1. \A i \in DOMAIN d.inbox : d.inbox[i] = ack \/ (i \in DOMAIN r.inbox /\ d.inbox[i] = r.inbox[i])
        <5>1. Len(r.inbox) \in Nat /\ DOMAIN r.inbox = 1..Len(r.inbox)  BY <1>1, ConnectionParts
        <5> QED  BY <3>2, <5>1
      <4> QED  BY <1>6, <1>10, <3>2, <4>1 DEF Greeted
    <3>5. Ordered(v, d.inbox, last)
      BY <1>1, <1>6, <1>12, <3>1, InOrderBefore DEF IsPanel
    <3> QED  BY <1>1, <1>7, <3>2, <3>3, <3>4, <3>5 DEF Talks
  <2> QED  BY <2>1, <2>2
<1> QED  BY <1>4, <1>5, <1>7, <1>12, <1>13 DEF v, r

(* A report: it is of an open request.                                      *)
LEMMA HearsProgress ==
  ASSUME NEW u, NEW c \in Connections, NEW last \in [session : Sessions, id : Nat],
         Kept(u), u.lines = <<>>, u.bridge = "running", u.phase = "ready",
         Talks(u, c), c.outbox # <<>>, c.outbox[1].type = "action_progress", c.peer,
         Made(u, last), Ordered(u, c.inbox, last)
  PROVE  LET m == c.outbox[1]
             v == AcceptActionProgress(u, m.id, m.state)
             d == Carry(Read(c), v.lines)
         IN  /\ Kept(v) /\ v.bridge # "off"
             /\ d \in Connections /\ d.task = c.task /\ d.peer = c.peer /\ d.shell = c.shell
             /\ Made(v, last) /\ Ordered(v, d.inbox, last)
             /\ v.bridge = "running" => Talks(v, d)
             /\ v.session[1] = u.session[1]
             /\ v.snapshot = u.snapshot
<1> DEFINE m == c.outbox[1]
           v == AcceptActionProgress(u, m.id, m.state)
           r == Read(c)
           d == Carry(r, v.lines)
<1>1. /\ r \in Connections /\ r.task = c.task /\ r.reply = c.reply /\ r.peer = c.peer /\ r.shell = c.shell /\ r.inbox = c.inbox
      /\ DOMAIN r.outbox = 1..(Len(c.outbox) - 1) /\ Len(c.outbox) \in Nat \ {0} /\ m \in Frames
      /\ \A i \in 1..(Len(c.outbox) - 1) : r.outbox[i] = c.outbox[i + 1]
  BY Reading
<1>2. Greeted(u, c) /\ ReportsInOrder(u, c)  BY DEF Talks
<1>3. DOMAIN c.outbox = 1..Len(c.outbox)  BY ConnectionParts
<1>4. m.id \in Nat \ {0} /\ m.state \in {"running", "completed", "failed"}  BY <1>1, FrameParts
<1>5. /\ ReportsInOrder(u, r) /\ Open(u, m.id)
      /\ m.state \in Terminal =>
             /\ \A i \in DOMAIN r.inbox : r.inbox[i].type = "action" => r.inbox[i].id # m.id
             /\ r.reply.id # m.id
             /\ \A i \in DOMAIN r.outbox : r.outbox[i].type = "action_progress" => r.outbox[i].id # m.id
  <2>1. /\ ReportsInOrder(u, r) /\ Open(u, m.id)
        /\ m.state \in Terminal =>
               /\ \A i \in DOMAIN c.inbox : c.inbox[i].type = "action" => c.inbox[i].id # m.id
               /\ c.reply.id # m.id
               /\ \A i \in DOMAIN r.outbox : r.outbox[i].type = "action_progress" => r.outbox[i].id # m.id
    BY <1>2, ReportRead
  <2>2. r.inbox = c.inbox /\ r.reply = c.reply  BY <1>1
  <2> HIDE DEF m, r
  <2> QED  BY <2>1, <2>2
<1>6. PICK w : /\ Kept(w) /\ w.lines = <<>> /\ Only(u, w, {"requestProgress"})
               /\ \A x : Open(u, x) /\ (x # m.id \/ m.state \notin Terminal) => Open(w, x)
               /\ Spoke(w, v)
               /\ \A l : Said(w, v, l) => l.id >= w.nextRequestId
  BY <1>4, <1>5, Progressing
<1> HIDE DEF m, v, r
<1>7. /\ w.phase = u.phase /\ w.streamId = u.streamId /\ w.session = u.session /\ w.bridge = u.bridge
      /\ w.nextRequestId = u.nextRequestId /\ w.snapshot = u.snapshot
      /\ w.panelStateRequestId = u.panelStateRequestId
  <2>1. DOMAIN u = Fields  BY DEF Kept, ServiceKept, Fields
  <2> QED  BY <1>6, <2>1, FieldsAre DEF Only
<1>8. ReportsInOrder(w, r)
  <2>1. \A i \in DOMAIN r.inbox : r.inbox[i].type = "action" => Open(w, r.inbox[i].id)
    BY <1>5, <1>6 DEF ReportsInOrder
  <2>2. r.reply # NoReply => Open(w, r.reply.id)
    BY <1>5, <1>6 DEF ReportsInOrder
  <2>3. \A i \in DOMAIN r.outbox : r.outbox[i].type = "action_progress" => Open(w, r.outbox[i].id)
    BY <1>5, <1>6 DEF ReportsInOrder
  <2> QED  BY <1>5, <2>1, <2>2, <2>3 DEF ReportsInOrder
<1>9. Greeted(w, r)
  <2>1. \A i \in DOMAIN r.outbox : i + 1 \in DOMAIN c.outbox /\ r.outbox[i] = c.outbox[i + 1]
    BY <1>1, <1>3
  <2> QED  BY <1>1, <1>2, <1>7, <2>1 DEF Greeted
<1>10. Follows(u, w)
  <2>1. u.nextRequestId \in Nat  BY Counters DEF Kept
  <2> QED  BY <1>7, <2>1 DEF Follows
<1>11. Made(w, last) /\ Ordered(w, r.inbox, last)
  BY <1>1, <1>6, <1>10, StillMade, StillInOrder
<1>12. Talks(w, r)  BY <1>7, <1>8, <1>9 DEF Talks
<1>13. \A l : Said(w, v, l) => Unasked(r, l.id)
  <2>1. \A l : Said(w, v, l) => l.id \in Nat \ {0}  BY DEF Said
  <2> QED  BY <1>1, <1>6, <1>8, <2>1, NewIsUnasked
<1>14. /\ d \in Connections /\ d.task = r.task /\ d.peer = r.peer /\ d.shell = r.shell
       /\ Made(v, last) /\ (r.peer => Ordered(v, d.inbox, last))
       /\ v.bridge = "running" => Talks(v, d)
  BY <1>1, <1>6, <1>11, <1>12, <1>13, Carried
<1>15. Follows(w, v) /\ Kept(v) /\ v.snapshot = w.snapshot
  BY <1>6, SpokeFollows
<1>16. v.bridge # "off"
  <2>1. Stays(w, v) \/ Renewed(w, v)  BY <1>6 DEF Spoke, Said
  <2> QED  BY <1>7, <2>1 DEF Stays, Renewed
<1>17. v.session[1] = u.session[1]  BY <1>7, <1>15 DEF Follows
<1> QED  BY <1>1, <1>7, <1>14, <1>15, <1>16, <1>17 DEF m, v, r

(* handleProtocolLine: no frame is rejected, and the talk stays in order.   *)
LEMMA Hears ==
  ASSUME NEW u, NEW c \in Connections, NEW last \in [session : Sessions, id : Nat],
         Kept(u), u.lines = <<>>, u.bridge = "running", Talks(u, c), c.outbox # <<>>, c.peer,
         Made(u, last), Ordered(u, c.inbox, last)
  PROVE  LET v == HandleProtocolLine(u, Head(c.outbox))
             d == Heard(c, v)
         IN  /\ Kept(v) /\ v.bridge # "off"
             /\ d \in Connections /\ d.task = c.task /\ d.peer = c.peer /\ d.shell = c.shell
             /\ Made(v, last) /\ Ordered(v, d.inbox, last)
             /\ v.bridge = "running" => Talks(v, d)
             /\ v.session[1] = u.session[1]
             /\ v.streamId = u.streamId => v.snapshot.sequence >= u.snapshot.sequence
<1> DEFINE m == c.outbox[1]
           v == HandleProtocolLine(u, m)
           d == Carry(Read(c), v.lines)
<1>1. Head(c.outbox) = m /\ m \in Frames  BY Reading
<1>2. Heard(c, v) = d  BY HeardIsCarried
<1>3. u.phase \in {"awaiting_hello", "ready"} /\ u.snapshot.sequence \in Nat
  <2>1. u.snapshot \in [stream : Nat \ {0}, sequence : Nat \ {0}] \cup {NoSnapshot}
    BY DEF Kept, ServiceKept
  <2> QED  BY <2>1 DEF NoSnapshot, Kept, ServiceKept
<1>4. 1 \in DOMAIN c.outbox  BY Reading, ConnectionParts
<1>5. CASE u.phase = "awaiting_hello"
  <2> DEFINE w == AcceptHello(u, m.stream)
             e == Carry(Read(c), w.lines)
  <2>1. AwaitsHello(c)  BY <1>5 DEF Talks
  <2>2. /\ m.type = "hello" /\ m.stream \in Nat \ {0}
        /\ Kept(w) /\ w.bridge # "off"
        /\ e \in Connections /\ e.task = c.task /\ e.peer = c.peer /\ e.shell = c.shell
        /\ Made(w, last) /\ Ordered(w, e.inbox, last)
        /\ w.bridge = "running" => Talks(w, e)
        /\ w.session[1] = u.session[1]
        /\ w.streamId = u.streamId => w.snapshot = u.snapshot
    BY <1>5, <2>1, HearsHello, Zenon
  <2>3. ~Rejected(u, m)  BY <1>5, <2>2 DEF Rejected
  <2>4. v = w  BY <2>2, <2>3 DEF HandleProtocolLine
  <2> HIDE DEF w, v
  <2>5. v.streamId = u.streamId => v.snapshot.sequence >= u.snapshot.sequence
    BY <1>3, <2>2, <2>4
  <2>6. e = d  BY <2>4
  <2> HIDE DEF e, d
  <2> QED  BY <1>1, <1>2, <2>2, <2>4, <2>5, <2>6 DEF v
<1>6. CASE u.phase = "ready"
  <2>1. Greeted(u, c) /\ ReportsInOrder(u, c)  BY <1>6 DEF Talks
  <2>2. m.type # "hello" /\ m.type \in {"snapshot", "action_progress"}
    BY <1>1, <1>4, <2>1, FrameParts DEF Greeted
  <2>3. CASE m.type = "snapshot"
    <3> DEFINE w == AcceptSnapshot(u, m.stream, m.sequence)
               e == Carry(Read(c), w.lines)
    <3>1. /\ Kept(w) /\ w.bridge # "off"
          /\ e \in Connections /\ e.task = c.task /\ e.peer = c.peer /\ e.shell = c.shell
          /\ Made(w, last) /\ Ordered(w, e.inbox, last)
          /\ w.bridge = "running" => Talks(w, e)
          /\ w.session[1] = u.session[1]
          /\ w.snapshot.sequence >= u.snapshot.sequence
      BY <1>6, <2>3, HearsSnapshot
    <3>2. ~Rejected(u, m)  BY <1>6, <2>3 DEF Rejected
    <3>3. v = w  BY <2>3, <3>2 DEF HandleProtocolLine
    <3> HIDE DEF w, v
    <3>4. e = d  BY <3>3
    <3> HIDE DEF e, d
    <3> QED  BY <1>1, <1>2, <3>1, <3>3, <3>4 DEF v
  <2>4. CASE m.type = "action_progress"
    <3> DEFINE w == AcceptActionProgress(u, m.id, m.state)
               e == Carry(Read(c), w.lines)
    <3>1. /\ Kept(w) /\ w.bridge # "off"
          /\ e \in Connections /\ e.task = c.task /\ e.peer = c.peer /\ e.shell = c.shell
          /\ Made(w, last) /\ Ordered(w, e.inbox, last)
          /\ w.bridge = "running" => Talks(w, e)
          /\ w.session[1] = u.session[1]
          /\ w.snapshot = u.snapshot
      BY <1>6, <2>4, HearsProgress
    <3>2. ~Rejected(u, m)
      <4>1. Open(u, m.id) /\ m.state \in {"running", "completed", "failed"}
        BY <1>1, <1>4, <2>1, <2>4, FrameParts DEF ReportsInOrder
      <4>2. /\ m.id \in DOMAIN u.requestProgress
            /\ u.requestProgress[m.id] \in {"issued", "queued", "running"}
        BY <4>1 DEF Open, Kept, RequestsKept
      <4> QED  BY <1>6, <2>2, <2>4, <4>1, <4>2 DEF Rejected, ProgressOf, ValidProgressTransition
    <3>3. v = w  BY <2>4, <3>2 DEF HandleProtocolLine
    <3> HIDE DEF w, v
    <3>4. v.snapshot.sequence >= u.snapshot.sequence  BY <1>3, <3>1, <3>3
    <3>5. e = d  BY <3>3
    <3> HIDE DEF e, d
    <3> QED  BY <1>1, <1>2, <3>1, <3>3, <3>4, <3>5 DEF v
  <2> QED  BY <2>2, <2>3, <2>4
<1> QED  BY <1>3, <1>5, <1>6

(****************************************************************************)
(* The system.                                                              *)
(****************************************************************************)
(* The limits of the daemon's side.                                         *)
LEMMA ServerLimits ==
  /\ MaxConnections \in Nat \ {0} /\ MaxPublications \in Nat \ {0}
  /\ Budgets \subseteq [Spendable -> Nat]
BY DisplayAssumption DEF ServerAssumption

(* The lines of a step are handed to the connection; nothing else changes.  *)
LEMMA Silenced ==
  ASSUME NEW v, Kept(v)
  PROVE  LET w == [v EXCEPT !.lines = <<>>]
         IN  /\ Kept(w) /\ w.lines = <<>>
             /\ w.bridge = v.bridge /\ w.session = v.session /\ w.snapshot = v.snapshot
             /\ w.streamId = v.streamId
             /\ \A c : Talks(v, c) => Talks(w, c)
             /\ \A a : Made(v, a) => Made(w, a)
             /\ \A x, a : Ordered(v, x, a) => Ordered(w, x, a)
<1> DEFINE w == [v EXCEPT !.lines = <<>>]
<1>1. DOMAIN v = Fields  BY DEF Kept, ServiceKept, Fields
<1>2. Only(v, w, {"lines"}) /\ w.lines = <<>>
  BY <1>1, FieldsAre DEF Only
<1> HIDE DEF w
<1>3. /\ w.requestProgress = v.requestProgress /\ w.requestOrder = v.requestOrder
      /\ w.nextRequestId = v.nextRequestId /\ w.panelStateRequestId = v.panelStateRequestId
      /\ w.panelRetryCount = v.panelRetryCount /\ w.panelRetryTimer = v.panelRetryTimer
      /\ w.panelDesiredOpen = v.panelDesiredOpen /\ w.session = v.session /\ w.bridge = v.bridge
      /\ w.phase = v.phase /\ w.streamId = v.streamId /\ w.snapshot = v.snapshot
  BY <1>1, <1>2, FieldsAre DEF Only
<1>4. RequestsKept(w)  BY <1>3 DEF Kept, RequestsKept
<1>5. ServiceKept(w)  BY <1>1, <1>2, FieldsAre DEF Only, Kept, ServiceKept, Fields
<1>6. \A id : Open(v, id) => Open(w, id)  BY <1>3 DEF Open
<1>7. \A c : Talks(v, c) => Talks(w, c)
  <2>1. \A c : ReportsInOrder(v, c) => ReportsInOrder(w, c)  BY <1>6 DEF ReportsInOrder
  <2>2. \A c : Greeted(v, c) => Greeted(w, c)  BY <1>3 DEF Greeted
  <2> QED  BY <1>3, <2>1, <2>2 DEF Talks
<1>8. \A a : Made(v, a) => Made(w, a)  BY <1>3 DEF Made
<1>9. \A x, a : Ordered(v, x, a) => Ordered(w, x, a)  BY <1>3, <1>8 DEF Ordered, InOrder
<1> QED  BY <1>2, <1>3, <1>4, <1>5, <1>7, <1>8, <1>9 DEF Kept, w

(* A service that was just loaded.                                          *)
LEMMA Loading ==
  ASSUME NEW s \in (Nat \ {0}) \X Nat, NEW u, u = NewService(s)
  PROVE  Kept(u) /\ u.session = s /\ u.bridge = "off" /\ u.lines = <<>>
<1>1. /\ DOMAIN u = Fields /\ u.session = s /\ u.phase = "awaiting_hello" /\ u.bridge = "off"
      /\ u.connectionError = "" /\ u.lines = <<>>
  BY FieldsAre DEF NewService
<1>2. /\ u.nextRequestId = 1 /\ u.requestProgress = <<>> /\ u.requestOrder = <<>>
      /\ u.panelStateRequestId = 0 /\ u.panelRetryCount = 0 /\ ~u.panelRetryTimer
      /\ u.panelDesiredOpen \in BOOLEAN
  BY DEF NewService
<1>3. u.streamId = 0 /\ u.lastSequence = 0 /\ u.snapshot = NoSnapshot /\ u.snapshot.sequence = 0
  BY DEF NewService, NoSnapshot
<1>4. RequestsKept(u)
  <2>1. /\ u.nextRequestId \in 1..MaxRequestId /\ u.panelStateRequestId \in 0..(u.nextRequestId - 1)
        /\ u.panelRetryCount \in 0..MaxPanelRetries
    BY <1>2, ClientLimits
  <2>2. DOMAIN u.requestProgress = {} /\ u.requestOrder = <<>>  BY <1>2
  <2>3. u.requestOrder \in Seq(DOMAIN u.requestProgress) /\ DOMAIN u.requestOrder = {}  BY <2>2
  <2> QED  BY <1>2, <2>1, <2>2, <2>3 DEF RequestsKept
<1>5. ServiceKept(u)
  <2>1. /\ u.streamId \in Nat /\ u.lastSequence = u.snapshot.sequence
        /\ u.snapshot # NoSnapshot => u.snapshot.stream = u.streamId
        /\ u.snapshot \in [stream : Nat \ {0}, sequence : Nat \ {0}] \cup {NoSnapshot}
    BY <1>3
  <2>2. /\ u.session \in (Nat \ {0}) \X Nat /\ u.phase \in {"awaiting_hello", "ready"}
        /\ u.bridge \in {"off", "running", "stopping"} /\ (u.reconnectTimer => u.bridge # "running")
        /\ u.connectionError # "protocol_error"
    BY <1>1
  <2> QED  BY <1>1, <2>1, <2>2, Zenon DEF ServiceKept, Fields
<1> QED  BY <1>1, <1>4, <1>5 DEF Kept

(* The initial states.                                                      *)
LEMMA KeptAtFirst ==
  Init => DisplayKept
<1> SUFFICES ASSUME Init  PROVE DisplayKept
  OBVIOUS
<1> DEFINE s == <<1, 1>>
<1>1. ui = NewService(s) /\ conn = <<>> /\ attached = 0  BY DEF Init
<1>2. s \in (Nat \ {0}) \X Nat /\ s[1] = 1  OBVIOUS
<1>3. /\ stream = 1 /\ up \in BOOLEAN /\ published = 1 /\ popup \in BOOLEAN
      /\ applied = NoRequest /\ budget \in Budgets
  BY Zenon DEF Init
<1> HIDE DEF s
<1>4. Kept(ui) /\ ui.session = s /\ ui.bridge = "off" /\ ui.lines = <<>>
  BY <1>1, <1>2, Loading
<1>5. TypeOK
  <2>1. /\ stream \in Nat \ {0} /\ published \in 1..MaxPublications /\ {up, popup} \subseteq BOOLEAN
        /\ budget \in [Spendable -> Nat]
    BY <1>3, ServerLimits
  <2>2. Len(conn) = 0 /\ DOMAIN conn = {} /\ 0 <= MaxConnections  BY <1>1, ServerLimits
  <2>3. /\ ui.nextRequestId \in 1..MaxRequestId /\ ui.panelRetryCount \in 0..MaxPanelRetries
        /\ ui.phase \in {"awaiting_hello", "ready"}
    BY <1>4 DEF Kept, RequestsKept, ServiceKept
  <2> QED  BY <1>4, <2>1, <2>2, <2>3 DEF TypeOK
<1>6. ConnectionsKept
  <2>1. conn \in Seq(Connections) /\ Len(conn) = 0 /\ DOMAIN conn = {} /\ attached \in 0..Len(conn)
    BY <1>1
  <2> QED  BY <1>4, <2>1 DEF ConnectionsKept
<1>7. BridgeKept  BY <1>4 DEF BridgeKept
<1>8. PanelsInOrder
  <2>1. /\ applied \in [session : Sessions, id : Nat] /\ applied.session = <<0, 0>>
        /\ applied.session[1] = 0 /\ applied.session[2] = 0
    BY <1>3 DEF Sessions, NoRequest
  <2>2. HandshakeFirst  BY <2>1 DEF HandshakeFirst
  <2>3. Made(ui, applied)  BY <1>2, <1>4, <2>1 DEF Made
  <2>4. DOMAIN conn = {}  BY <1>1
  <2> QED  BY <2>1, <2>2, <2>3, <2>4 DEF PanelsInOrder
<1> QED  BY <1>4, <1>5, <1>6, <1>7, <1>8 DEF DisplayKept, Kept

(* A line of another shell stays in order: what that shell asked for is all *)
(* made, and what is applied for a third one comes before or after all of   *)
(* it.                                                                      *)
LEMMA InOrderBeside ==
  ASSUME NEW u, NEW v, NEW c \in Connections, NEW last, NEW now \in [session : Sessions, id : Nat],
         v.session \in Sessions, InOrder(u, c.shell, c.inbox, last),
         v = u \/ c.shell < v.session[1], now = last \/ now.session[1] # c.shell
  PROVE  InOrder(v, c.shell, c.inbox, now)
<1>1. c.shell \in Nat /\ now.session \in Nat \X Nat /\ v.session \in Nat \X Nat
  BY ConnectionParts DEF Sessions
<1>2. now.session[1] \in Nat /\ v.session[1] \in Nat  BY <1>1
<1>3. ASSUME NEW i \in DOMAIN c.inbox, IsPanel(c.inbox[i])
      PROVE  /\ Made(v, c.inbox[i])
             /\ NotEarlier(c.inbox[i], now) \/ now.session[1] > c.shell
  <2>1. c.inbox[i].session[1] = c.shell /\ Made(u, c.inbox[i])
    BY <1>3 DEF InOrder
  <2>2. Made(v, c.inbox[i])
    <3>1. CASE v = u  BY <2>1, <3>1
    <3>2. CASE c.shell < v.session[1]  BY <2>1, <3>2 DEF Made
    <3> QED  BY <3>1, <3>2
  <2>3. NotEarlier(c.inbox[i], now) \/ now.session[1] > c.shell
    <3>1. CASE now = last  BY <1>3, <3>1 DEF InOrder
    <3>2. CASE now.session[1] # c.shell
      <4>1. now.session[1] > c.shell \/ c.shell > now.session[1]  BY <1>1, <1>2, <3>2
      <4> QED  BY <2>1, <4>1 DEF NotEarlier
    <3> QED  BY <3>1, <3>2
  <2> QED  BY <2>2, <2>3
<1> QED  BY <1>3 DEF InOrder

(* What is kept of the state, in a form the steps use.                      *)
LEMMA StateParts ==
  ASSUME DisplayKept
  PROVE  /\ Kept(ui) /\ ui.lines = <<>> /\ up \in BOOLEAN /\ popup \in BOOLEAN
         /\ published \in 1..MaxPublications /\ budget \in [Spendable -> Nat] /\ stream \in Nat \ {0}
         /\ conn \in Seq(Connections) /\ attached \in 0..Len(conn) /\ Len(conn) \in Nat
         /\ DOMAIN conn = 1..Len(conn) /\ (attached # 0 => attached \in DOMAIN conn)
         /\ \A i \in DOMAIN conn : conn[i] \in Connections
         /\ applied \in [session : Sessions, id : Nat] /\ applied.session # <<0, 1>> /\ Made(ui, applied)
         /\ ui.bridge # "off" => attached # 0
         /\ ui.bridge = "running" => conn[attached].peer /\ Talks(ui, conn[attached])
         /\ attached # 0 /\ conn[attached].peer =>
                ui.bridge # "off" /\ Ordered(ui, conn[attached].inbox, applied)
         /\ ui.session \in Sessions /\ ui.session[1] \in Nat \ {0}
         /\ attached # 0 => conn[attached].shell = ui.session[1]
<1>1. /\ Kept(ui) /\ ui.lines = <<>> /\ up \in BOOLEAN /\ popup \in BOOLEAN
      /\ published \in 1..MaxPublications /\ budget \in [Spendable -> Nat] /\ stream \in Nat \ {0}
  BY DEF DisplayKept, Kept, TypeOK, ConnectionsKept
<1>2. /\ conn \in Seq(Connections) /\ attached \in 0..Len(conn) /\ Len(conn) \in Nat
      /\ DOMAIN conn = 1..Len(conn) /\ (attached # 0 => attached \in DOMAIN conn)
      /\ \A i \in DOMAIN conn : conn[i] \in Connections
  BY ElementOfSeq DEF DisplayKept, ConnectionsKept
<1>3. /\ applied \in [session : Sessions, id : Nat] /\ applied.session # <<0, 1>> /\ Made(ui, applied)
  BY DEF DisplayKept, PanelsInOrder, HandshakeFirst
<1>4. /\ ui.bridge # "off" => attached # 0
      /\ ui.bridge = "running" => conn[attached].peer /\ Talks(ui, conn[attached])
  BY DEF DisplayKept, ConnectionsKept, BridgeKept
<1>5. ui.session \in Sessions /\ ui.session[1] \in Nat \ {0}
  <2>1. ui.session \in (Nat \ {0}) \X Nat  BY <1>1 DEF Kept, ServiceKept
  <2> QED  BY <2>1 DEF Sessions
<1>6. attached # 0 => conn[attached].shell = ui.session[1]  BY DEF DisplayKept, ConnectionsKept
<1>7. attached # 0 /\ conn[attached].peer =>
          ui.bridge # "off" /\ Ordered(ui, conn[attached].inbox, applied)
  <2>1. SUFFICES ASSUME attached # 0, conn[attached].peer
                 PROVE  ui.bridge # "off" /\ Ordered(ui, conn[attached].inbox, applied)
    OBVIOUS
  <2>2. attached \in DOMAIN conn /\ conn[attached].shell = ui.session[1]  BY <1>2, <1>6, <2>1
  <2>3. ui.bridge # "off"  BY <2>1, <2>2 DEF DisplayKept, TypeOK
  <2>4. InOrder(ui, conn[attached].shell, conn[attached].inbox, applied)
    BY <1>5, <2>1, <2>2 DEF DisplayKept, PanelsInOrder
  <2> QED  BY <2>2, <2>3, <2>4 DEF Ordered
<1> QED  BY <1>1, <1>2, <1>3, <1>4, <1>5, <1>6, <1>7

(* The shells of the connections: only the bridge's is the frontend's own.  *)
LEMMA ShellParts ==
  ASSUME DisplayKept, NEW k \in DOMAIN conn
  PROVE  /\ conn[k] \in Connections /\ conn[k].shell \in Nat /\ conn[k].shell <= ui.session[1]
         /\ conn[k].peer /\ conn[k].shell = 0 => Stranger(conn[k])
         /\ conn[k].peer /\ conn[k].shell # 0 => InOrder(ui, conn[k].shell, conn[k].inbox, applied)
         /\ conn[k].peer /\ k # attached => conn[k].shell < ui.session[1]
         /\ \A j \in DOMAIN conn :
                conn[k].peer /\ conn[j].peer /\ conn[j].shell = conn[k].shell /\ conn[k].shell # 0 => j = k
<1>1. conn[k] \in Connections /\ ui.session[1] \in Nat  BY StateParts
<1>2. conn[k].shell \in Nat  BY <1>1, ConnectionParts
<1>3. /\ conn[k].shell <= ui.session[1]
      /\ conn[k].peer /\ conn[k].shell = 0 => Stranger(conn[k])
      /\ conn[k].peer /\ conn[k].shell = ui.session[1] => k = attached
      /\ \A j \in DOMAIN conn :
             conn[k].peer /\ conn[j].peer /\ conn[j].shell = conn[k].shell /\ conn[k].shell # 0 => j = k
  BY DEF DisplayKept, ConnectionsKept
<1>4. conn[k].peer /\ conn[k].shell # 0 => InOrder(ui, conn[k].shell, conn[k].inbox, applied)
  BY DEF DisplayKept, PanelsInOrder
<1>5. conn[k].peer /\ k # attached => conn[k].shell < ui.session[1]
  BY <1>1, <1>2, <1>3
<1> QED  BY <1>1, <1>2, <1>3, <1>4, <1>5

(* What a step may leave, part by part, when one connection changes.        *)
LEMMA StepAt ==
  ASSUME DisplayKept, NEW k \in DOMAIN conn, NEW c \in Connections,
         conn' = [conn EXCEPT ![k] = c], stream' = stream, up' = up, attached' = attached,
         published' \in 1..MaxPublications, popup' \in BOOLEAN, budget' \in [Spendable -> Nat],
         RequestsKept(ui'), ServiceKept(ui'), ui'.lines = <<>>, ui'.session[1] = ui.session[1],
         ui'.bridge # "off" => ui.bridge # "off", ~up => c.task = "closed",
         c.shell = conn[k].shell, c.peer => conn[k].peer, k # attached => ui' = ui,
         c.peer /\ c.shell = 0 => Stranger(c),
         c.peer /\ c.shell # 0 => InOrder(ui', c.shell, c.inbox, applied'),
         k = attached /\ ui'.bridge = "running" => c.peer /\ Talks(ui', c),
         k = attached /\ c.peer => ui'.bridge # "off",
         applied' = applied \/ (conn[k].peer /\ c.shell # 0 /\ applied'.session[1] = c.shell),
         applied' \in [session : Sessions, id : Nat], applied'.session # <<0, 1>>, Made(ui', applied')
  PROVE  DisplayKept'
<1>1. /\ conn \in Seq(Connections) /\ attached \in 0..Len(conn) /\ Len(conn) \in Nat
      /\ DOMAIN conn = 1..Len(conn) /\ Len(conn) <= MaxConnections
      /\ \A i \in DOMAIN conn : conn[i] \in Connections
  BY ElementOfSeq DEF DisplayKept, ConnectionsKept, TypeOK
<1>2. /\ conn' \in Seq(Connections) /\ Len(conn') = Len(conn) /\ DOMAIN conn' = DOMAIN conn
      /\ conn'[k] = c /\ \A i \in DOMAIN conn \ {k} : conn'[i] = conn[i]
  BY <1>1
<1>3. attached # 0 => attached \in DOMAIN conn  BY <1>1
<1>9. \A i \in DOMAIN conn : /\ conn'[i].shell = conn[i].shell
                             /\ conn'[i].peer => conn[i].peer
  <2> TAKE i \in DOMAIN conn
  <2>1. CASE i = k  BY <1>2, <2>1
  <2>2. CASE i # k  BY <1>2, <2>2
  <2> QED  BY <2>1, <2>2
<1>4. TypeOK'
  <2>1. /\ stream' \in Nat \ {0} /\ {up', popup'} \subseteq BOOLEAN
    BY DEF DisplayKept, TypeOK
  <2>2. \A i \in DOMAIN conn' :
            /\ conn'[i].task \in {"pending", "accepted", "ready", "closed"}
            /\ i = attached' /\ conn'[i].peer => ui'.bridge # "off"
    <3> TAKE i \in DOMAIN conn'
    <3>1. i \in DOMAIN conn /\ conn'[i] \in Connections  BY <1>1, <1>2
    <3>2. conn'[i].task \in {"pending", "accepted", "ready", "closed"}  BY <3>1, ConnectionParts
    <3>3. CASE i = k  BY <1>2, <3>2, <3>3
    <3>4. CASE i # k
      <4>1. conn'[i] = conn[i]  BY <1>2, <3>1, <3>4
      <4> QED  BY <3>1, <3>2, <3>4, <4>1 DEF DisplayKept, TypeOK
    <3> QED  BY <3>3, <3>4
  <2>3. /\ ui'.bridge \in {"off", "running", "stopping"} /\ ui'.phase \in {"awaiting_hello", "ready"}
        /\ ui'.nextRequestId \in 1..MaxRequestId /\ ui'.panelRetryCount \in 0..MaxPanelRetries
    BY DEF RequestsKept, ServiceKept
  <2> QED  BY <1>1, <1>2, <2>1, <2>2, <2>3 DEF TypeOK
<1>5. ConnectionsKept'
  <2>1. ui'.bridge # "off" => attached' # 0  BY DEF DisplayKept, ConnectionsKept
  <2>2. ui'.bridge = "running" => conn'[attached'].peer
    <3>1. CASE k = attached  BY <1>2, <3>1
    <3>2. CASE k # attached
      <4>1. ui'.bridge = "running" => attached \in DOMAIN conn \ {k}
        BY <1>3, <2>1, <3>2
      <4> QED  BY <1>2, <3>2, <4>1 DEF DisplayKept, ConnectionsKept
    <3> QED  BY <3>1, <3>2
  <2>3. ~up' => \A i \in DOMAIN conn' : conn'[i].task = "closed"
    BY <1>2 DEF DisplayKept, ConnectionsKept
  <2>4. attached' # 0 => conn'[attached'].shell = ui'.session[1]
    BY <1>3, <1>9, StateParts
  <2>5. \A i \in DOMAIN conn' :
           /\ conn'[i].shell <= ui'.session[1]
           /\ conn'[i].peer /\ conn'[i].shell = 0 => Stranger(conn'[i])
           /\ conn'[i].peer /\ conn'[i].shell = ui'.session[1] => i = attached'
           /\ \A j \in DOMAIN conn' :
                  conn'[i].peer /\ conn'[j].peer /\ conn'[j].shell = conn'[i].shell
                  /\ conn'[i].shell # 0 => j = i
    <3> TAKE i \in DOMAIN conn'
    <3>1. i \in DOMAIN conn /\ ui.session[1] \in Nat  BY <1>2, StateParts
    <3>2. conn'[i].peer /\ conn'[i].shell = 0 => Stranger(conn'[i])
      <4>1. CASE i = k  BY <1>2, <4>1
      <4>2. CASE i # k  BY <1>2, <3>1, <4>2, ShellParts
      <4> QED  BY <4>1, <4>2
    <3>3. conn'[i].shell <= ui'.session[1]  BY <1>9, <3>1, ShellParts
    <3>4. conn'[i].peer /\ conn'[i].shell = ui'.session[1] => i = attached'
      BY <1>9, <3>1 DEF DisplayKept, ConnectionsKept
    <3>5. \A j \in DOMAIN conn' :
              conn'[i].peer /\ conn'[j].peer /\ conn'[j].shell = conn'[i].shell
              /\ conn'[i].shell # 0 => j = i
      BY <1>2, <1>9, <3>1, ShellParts
    <3> QED  BY <3>2, <3>3, <3>4, <3>5
  <2> QED  BY <1>1, <1>2, <2>1, <2>2, <2>3, <2>4, <2>5 DEF ConnectionsKept, Stranger
<1>6. BridgeKept'
  <2>1. SUFFICES ASSUME ui'.bridge = "running"  PROVE Talks(ui, conn[attached])'
    BY DEF BridgeKept
  <2>2. Talks(ui', conn'[attached])
    <3>1. CASE k = attached  BY <1>2, <2>1, <3>1
    <3>2. CASE k # attached
      <4>1. attached \in DOMAIN conn \ {k} /\ ui' = ui
        BY <1>3, <2>1, <3>2 DEF DisplayKept, ConnectionsKept
      <4> QED  BY <1>2, <2>1, <4>1 DEF DisplayKept, BridgeKept
    <3> QED  BY <3>1, <3>2
  <2> QED  BY <2>2 DEF Talks, AwaitsHello, Greeted, ReportsInOrder, Open
<1>7. PanelsInOrder'
  <2>1. SUFFICES ASSUME NEW i \in DOMAIN conn', conn'[i].peer, conn'[i].shell # 0
                 PROVE  InOrder(ui', conn'[i].shell, conn'[i].inbox, applied')
    BY DEF PanelsInOrder, HandshakeFirst, Made, InOrder, NotEarlier, IsPanel
  <2>2. CASE i = k  BY <1>2, <2>1, <2>2
  <2>3. CASE i # k
    <3>1. i \in DOMAIN conn /\ conn'[i] = conn[i]  BY <1>2, <2>3
    <3>2. InOrder(ui, conn[i].shell, conn[i].inbox, applied) /\ conn[i] \in Connections
      BY <2>1, <3>1, ShellParts
    <3>3. ui' = ui \/ conn[i].shell < ui'.session[1]
      BY <2>1, <2>3, <3>1, ShellParts
    <3>4. applied' = applied \/ applied'.session[1] # conn[i].shell
      BY <2>1, <2>3, <3>1, ShellParts
    <3>5. ui'.session \in Sessions  BY DEF ServiceKept, Sessions
    <3> QED  BY <3>1, <3>2, <3>3, <3>4, <3>5, InOrderBeside
  <2> QED  BY <2>2, <2>3
<1>8. (RequestsKept(ui) /\ ServiceKept(ui))'
  BY DEF RequestsKept, ServiceKept
<1> QED  BY <1>4, <1>5, <1>6, <1>7, <1>8 DEF DisplayKept

(* And when no connection does.                                             *)
LEMMA StepBeside ==
  ASSUME DisplayKept, conn' = conn, stream' = stream, up' = up, attached' = attached, applied' = applied,
         published' \in 1..MaxPublications, popup' \in BOOLEAN, budget' \in [Spendable -> Nat],
         RequestsKept(ui'), ServiceKept(ui'), ui'.lines = <<>>, ui'.session[1] = ui.session[1],
         ui'.bridge # "off" => ui.bridge # "off",
         ui'.bridge = "running" => ui.bridge = "running" /\ Talks(ui', conn[attached]),
         attached # 0 /\ conn[attached].peer =>
             ui'.bridge # "off" /\ Ordered(ui', conn[attached].inbox, applied),
         Made(ui', applied)
  PROVE  DisplayKept'
<1>1. /\ conn \in Seq(Connections) /\ attached \in 0..Len(conn) /\ Len(conn) \in Nat
      /\ DOMAIN conn = 1..Len(conn) /\ Len(conn) <= MaxConnections
      /\ \A i \in DOMAIN conn : conn[i] \in Connections
  BY ElementOfSeq DEF DisplayKept, ConnectionsKept, TypeOK
<1>2. TypeOK'
  <2>1. /\ stream' \in Nat \ {0} /\ {up', popup'} \subseteq BOOLEAN
    BY DEF DisplayKept, TypeOK
  <2>2. \A i \in DOMAIN conn' :
            /\ conn'[i].task \in {"pending", "accepted", "ready", "closed"}
            /\ i = attached' /\ conn'[i].peer => ui'.bridge # "off"
    BY <1>1, ConnectionParts
  <2>3. /\ ui'.bridge \in {"off", "running", "stopping"} /\ ui'.phase \in {"awaiting_hello", "ready"}
        /\ ui'.nextRequestId \in 1..MaxRequestId /\ ui'.panelRetryCount \in 0..MaxPanelRetries
    BY DEF RequestsKept, ServiceKept
  <2> QED  BY <1>1, <2>1, <2>2, <2>3 DEF TypeOK
<1>3. ConnectionsKept'
  <2>1. ui'.bridge # "off" => attached' # 0  BY DEF DisplayKept, ConnectionsKept
  <2>2. ui'.bridge = "running" => conn'[attached'].peer  BY DEF DisplayKept, ConnectionsKept
  <2>3. ~up' => \A i \in DOMAIN conn' : conn'[i].task = "closed"  BY DEF DisplayKept, ConnectionsKept
  <2>4. attached' # 0 => conn'[attached'].shell = ui'.session[1]  BY StateParts
  <2>5. \A i \in DOMAIN conn' :
           /\ conn'[i].shell <= ui'.session[1]
           /\ conn'[i].peer /\ conn'[i].shell = 0 => Stranger(conn'[i])
           /\ conn'[i].peer /\ conn'[i].shell = ui'.session[1] => i = attached'
           /\ \A j \in DOMAIN conn' :
                  conn'[i].peer /\ conn'[j].peer /\ conn'[j].shell = conn'[i].shell
                  /\ conn'[i].shell # 0 => j = i
    BY DEF DisplayKept, ConnectionsKept
  <2> QED  BY <1>1, <2>1, <2>2, <2>3, <2>4, <2>5 DEF ConnectionsKept, Stranger
<1>4. BridgeKept'
  <2>1. SUFFICES ASSUME ui'.bridge = "running"  PROVE Talks(ui, conn[attached])'
    BY DEF BridgeKept
  <2>2. Talks(ui', conn'[attached])  BY <2>1
  <2> QED  BY <2>2 DEF Talks, AwaitsHello, Greeted, ReportsInOrder, Open
<1>5. PanelsInOrder'
  <2>1. applied \in [session : Sessions, id : Nat] /\ HandshakeFirst
    BY DEF DisplayKept, PanelsInOrder
  <2>2. SUFFICES ASSUME NEW i \in DOMAIN conn', conn'[i].peer, conn'[i].shell # 0
                 PROVE  InOrder(ui', conn'[i].shell, conn'[i].inbox, applied')
    BY <2>1 DEF PanelsInOrder, HandshakeFirst, Made, InOrder, NotEarlier, IsPanel
  <2>3. i \in DOMAIN conn /\ conn'[i] = conn[i] /\ i # 0  BY <1>1
  <2>4. CASE i = attached
    <3>1. Ordered(ui', conn[i].inbox, applied) /\ conn[i].shell = ui'.session[1]
      BY <2>2, <2>3, <2>4, StateParts
    <3> QED  BY <2>3, <3>1 DEF Ordered
  <2>5. CASE i # attached
    <3>1. /\ InOrder(ui, conn[i].shell, conn[i].inbox, applied) /\ conn[i] \in Connections
          /\ conn[i].shell < ui'.session[1]
      BY <2>2, <2>3, <2>5, ShellParts
    <3>2. ui'.session \in Sessions  BY DEF ServiceKept, Sessions
    <3> QED  BY <2>1, <2>3, <3>1, <3>2, InOrderBeside
  <2> QED  BY <2>4, <2>5
<1>6. (RequestsKept(ui) /\ ServiceKept(ui))'
  BY DEF RequestsKept, ServiceKept
<1> QED  BY <1>2, <1>3, <1>4, <1>5, <1>6 DEF DisplayKept

(* Whatever is spent leaves a budget.                                       *)
LEMMA Spending ==
  ASSUME DisplayKept, NEW what \in Spendable, Spend(what)
  PROVE  budget' \in [Spendable -> Nat]
BY StateParts DEF Spend

(* A function of the frontend that writes at most a new request.            *)
LEMMA FrontendSpeaks ==
  ASSUME DisplayKept, NEW v, Spoke(ui, v), \A l : Said(ui, v, l) => l.id >= ui.nextRequestId,
         Frontend(v), UNCHANGED <<stream, up, published, popup, applied, attached>>,
         budget' \in [Spendable -> Nat]
  PROVE  DisplayKept' /\ ui'.snapshot = ui.snapshot
<1> DEFINE w == [v EXCEPT !.lines = <<>>]
<1>1. /\ Kept(ui) /\ ui.lines = <<>> /\ up \in BOOLEAN /\ popup \in BOOLEAN
      /\ published \in 1..MaxPublications
      /\ conn \in Seq(Connections) /\ attached \in 0..Len(conn) /\ DOMAIN conn = 1..Len(conn)
      /\ (attached # 0 => attached \in DOMAIN conn)
      /\ \A i \in DOMAIN conn : conn[i] \in Connections
      /\ applied \in [session : Sessions, id : Nat] /\ applied.session # <<0, 1>> /\ Made(ui, applied)
      /\ ui.bridge # "off" => attached # 0
      /\ ui.bridge = "running" => conn[attached].peer /\ Talks(ui, conn[attached])
      /\ attached # 0 /\ conn[attached].peer =>
             ui.bridge # "off" /\ Ordered(ui, conn[attached].inbox, applied)
      /\ attached # 0 => conn[attached].shell = ui.session[1]
      /\ ui.session[1] \in Nat \ {0}
  BY StateParts
<1>2. Follows(ui, v) /\ Kept(v) /\ v.snapshot = ui.snapshot  BY <1>1, SpokeFollows
<1>3. /\ ui' = w
      /\ conn' = IF v.lines = <<>> \/ attached = 0 \/ conn[attached].task = "closed" THEN conn
                 ELSE [conn EXCEPT ![attached].inbox = @ \o v.lines]
  BY DEF Frontend
<1>4. /\ Kept(w) /\ w.lines = <<>> /\ w.bridge = v.bridge /\ w.snapshot = v.snapshot
      /\ w.session = v.session
      /\ \A c : Talks(v, c) => Talks(w, c)
      /\ \A a : Made(v, a) => Made(w, a)
      /\ \A x, a : Ordered(v, x, a) => Ordered(w, x, a)
  BY <1>2, Silenced
<1> HIDE DEF w
<1>5. RequestsKept(ui') /\ ServiceKept(ui') /\ ui'.lines = <<>>  BY <1>3, <1>4 DEF Kept
<1>6. /\ v.bridge # "off" <=> ui.bridge # "off"
      /\ v.bridge = "running" => ui.bridge = "running"
      /\ v.lines # <<>> => ui.bridge = "running"
  <2>1. Stays(ui, v) \/ Renewed(ui, v)  BY DEF Spoke, Said
  <2>2. v.lines # <<>> => Stays(ui, v) /\ v.bridge = "running"  BY DEF Spoke, Said
  <2> QED  BY <2>1, <2>2 DEF Stays, Renewed
<1>7. Made(v, applied)  BY <1>1, <1>2, StillMade
<1>10. ui'.session[1] = ui.session[1]  BY <1>2, <1>3, <1>4 DEF Follows
<1>8. CASE attached = 0
  <2>1. conn' = conn /\ ui.bridge = "off" /\ v.bridge = "off"  BY <1>1, <1>3, <1>6, <1>8
  <2>2. ui'.bridge = "off" /\ Made(ui', applied)  BY <1>3, <1>4, <1>7, <2>1
  <2>3. DisplayKept'  BY <1>1, <1>5, <1>8, <1>10, <2>1, <2>2, StepBeside
  <2> QED  BY <1>2, <1>3, <1>4, <2>3
<1>9. CASE attached # 0
  <2> DEFINE c == conn[attached]
             d == Carry(c, v.lines)
  <2>1. attached \in DOMAIN conn /\ c \in Connections  BY <1>1, <1>9
  <2>2. /\ c.peer => Ordered(ui, c.inbox, applied)
        /\ ui.bridge = "running" => Talks(ui, c) /\ c.peer
    BY <1>1, <1>9
  <2>3. \A l : Said(ui, v, l) => Unasked(c, l.id)
    <3>1. SUFFICES ASSUME NEW l, Said(ui, v, l)  PROVE Unasked(c, l.id)
      OBVIOUS
    <3>2. l.id \in Nat \ {0} /\ l.id >= ui.nextRequestId /\ ui.bridge = "running"
      <4>1. v.lines # <<>>  BY <3>1 DEF Said
      <4> QED  BY <1>6, <3>1, <4>1 DEF Said
    <3>3. ui.phase = "ready"
      <4>1. v.phase = "ready" /\ v.phase = ui.phase  BY <1>1, <3>1, SpokeFollows DEF Said
      <4> QED  BY <4>1
    <3>4. ReportsInOrder(ui, c)  BY <2>2, <3>2, <3>3 DEF Talks
    <3> QED  BY <1>1, <2>1, <3>2, <3>4, NewIsUnasked
  <2> HIDE DEF c
  <2>4. /\ d \in Connections /\ d.task = c.task /\ d.peer = c.peer /\ d.shell = c.shell
        /\ Made(v, applied) /\ (c.peer => Ordered(v, d.inbox, applied))
        /\ v.bridge = "running" => Talks(v, d)
    BY <1>1, <2>1, <2>2, <2>3, Carried
  <2>5. conn' = [conn EXCEPT ![attached] = d]
    <3>1. CASE v.lines = <<>> \/ c.task = "closed"
      <4>1. d = c /\ conn' = conn  BY <1>3, <3>1 DEF Carry, c
      <4> QED  BY <1>1, <2>1, <4>1 DEF c
    <3>2. CASE ~(v.lines = <<>> \/ c.task = "closed")
      <4>1. conn' = [conn EXCEPT ![attached].inbox = @ \o v.lines]  BY <1>3, <1>9, <3>2 DEF c
      <4>2. d = [conn[attached] EXCEPT !.inbox = @ \o v.lines]  BY <3>2 DEF Carry, c
      <4> QED  BY <4>1, <4>2
    <3> QED  BY <3>1, <3>2
  <2> HIDE DEF d
  <2>6. ~up => d.task = "closed"
    BY <2>1, <2>4 DEF DisplayKept, ConnectionsKept, c
  <2>7. /\ ui'.bridge # "off" => ui.bridge # "off"
        /\ ui'.bridge = "running" => d.peer /\ Talks(ui', d)
        /\ d.peer => ui'.bridge # "off" /\ Ordered(ui', d.inbox, applied)
        /\ Made(ui', applied)
    <3>1. c.peer => ui.bridge # "off"  BY <1>1, <1>9 DEF c
    <3> QED  BY <1>3, <1>4, <1>6, <1>7, <2>2, <2>4, <3>1
  <2>8. DisplayKept'
    <3>1. d.shell = conn[attached].shell /\ d.shell = ui'.session[1] /\ d.shell # 0
      BY <1>1, <1>9, <1>10, <2>4 DEF c
    <3>2. d.peer => conn[attached].peer  BY <2>4 DEF c
    <3>3. d.peer => InOrder(ui', d.shell, d.inbox, applied)  BY <2>7, <3>1 DEF Ordered
    <3> QED  BY <1>1, <1>5, <1>10, <2>1, <2>4, <2>5, <2>6, <2>7, <3>1, <3>2, <3>3, StepAt
  <2> QED  BY <1>2, <1>3, <1>4, <2>8
<1> QED  BY <1>8, <1>9

(* The panel's retry.                                                       *)
LEMMA RetryKeeps ==
  ASSUME DisplayKept, PanelRetry
  PROVE  DisplayKept' /\ ui'.snapshot = ui.snapshot
<1> DEFINE v == SyncPanelState(ui)
<1>1. /\ Kept(ui) /\ ui.lines = <<>> /\ ui.panelStateRequestId = 0 /\ ui.panelRetryTimer
      /\ budget \in [Spendable -> Nat]
  BY StateParts DEF PanelRetry, Kept, RequestsKept
<1>2. Spoke(ui, v)  BY <1>1, Syncing
<1>3. \A l : Said(ui, v, l) => l.id >= ui.nextRequestId
  BY <1>1 DEF Said
<1>4. /\ Frontend(v) /\ UNCHANGED <<stream, up, published, popup, applied, attached>> /\ budget' = budget
  BY DEF PanelRetry
<1> HIDE DEF v
<1> QED  BY <1>1, <1>2, <1>3, <1>4, FrontendSpeaks

(* The user opens or closes the panel.                                      *)
LEMMA PanelKeeps ==
  ASSUME DisplayKept, UserPanel
  PROVE  DisplayKept' /\ ui'.snapshot = ui.snapshot
<1> DEFINE v == RecordPanelState(ui, ~ui.panelDesiredOpen)
<1>1. Kept(ui) /\ ui.lines = <<>>  BY StateParts
<1>2. PICK b : /\ Moves(ui, b) /\ Stays(ui, b) /\ b.panelStateRequestId = 0
               /\ b.nextRequestId = ui.nextRequestId /\ Spoke(b, v)
  BY <1>1, Recording
<1> HIDE DEF v
<1>3. Spoke(ui, v)  BY <1>1, <1>2, MovesThenSpeaks
<1>4. ASSUME NEW l, Said(ui, v, l)  PROVE l.id >= ui.nextRequestId
  <2>1. v.lines = <<l>> /\ l.id \in Nat \ {0}  BY <1>4 DEF Said
  <2>2. PICK m : Said(b, v, m)  BY <1>2, <2>1 DEF Spoke
  <2>3. m = l  BY <2>1, <2>2 DEF Said
  <2>4. l.id >= b.nextRequestId \/ l.id = b.panelStateRequestId  BY <2>2, <2>3 DEF Said
  <2> QED  BY <1>2, <2>1, <2>4
<1>5. /\ Frontend(v) /\ UNCHANGED <<stream, up, published, popup, applied, attached>> /\ Spend("user")
  BY DEF UserPanel, v
<1>6. budget' \in [Spendable -> Nat]  BY <1>5, Spending DEF Spendable
<1> QED  BY <1>3, <1>4, <1>5, <1>6, FrontendSpeaks

(* The user asks for a refresh.                                             *)
LEMMA RefreshKeeps ==
  ASSUME DisplayKept, UserRefresh
  PROVE  DisplayKept' /\ ui'.snapshot = ui.snapshot
<1> DEFINE v == RefreshAll(ui)
<1>1. Kept(ui) /\ ui.lines = <<>>  BY StateParts
<1>2. Spoke(ui, v) /\ \A l : Said(ui, v, l) => l.id >= ui.nextRequestId  BY <1>1, Refreshing
<1>3. /\ Frontend(v) /\ UNCHANGED <<stream, up, published, popup, applied, attached>> /\ Spend("user")
  BY DEF UserRefresh
<1> HIDE DEF v
<1>4. budget' \in [Spendable -> Nat]  BY <1>3, Spending DEF Spendable
<1> QED  BY <1>2, <1>3, <1>4, FrontendSpeaks

(* A change that concerns neither requests nor what is shown.               *)
LEMMA BesideRequests ==
  ASSUME NEW u, NEW v, Kept(u),
         Only(u, v, {"alive", "phase", "connectionWanted", "transportConnected", "bridge",
                     "connectionError", "handshakeTimer", "reconnectTimer", "lines"}),
         v.phase \in {"awaiting_hello", "ready"}, v.bridge \in {"off", "running", "stopping"},
         v.reconnectTimer => v.bridge # "running", v.connectionError # "protocol_error",
         NEW a \in [session : Sessions, id : Nat]
  PROVE  /\ Kept(v) /\ v.snapshot = u.snapshot /\ v.session = u.session
         /\ Made(u, a) => Made(v, a)
         /\ \A c \in Connections : Ordered(u, c.inbox, a) => Ordered(v, c.inbox, a)
<1>1. DOMAIN u = Fields  BY DEF Kept, ServiceKept, Fields
<1>2. /\ v.requestProgress = u.requestProgress /\ v.requestOrder = u.requestOrder
      /\ v.nextRequestId = u.nextRequestId /\ v.panelStateRequestId = u.panelStateRequestId
      /\ v.panelRetryCount = u.panelRetryCount /\ v.panelRetryTimer = u.panelRetryTimer
      /\ v.panelDesiredOpen = u.panelDesiredOpen
  BY <1>1, FieldsAre DEF Only
<1>3. /\ v.session = u.session /\ v.streamId = u.streamId /\ v.snapshot = u.snapshot
      /\ v.lastSequence = u.lastSequence /\ DOMAIN v = Fields
  BY <1>1, FieldsAre DEF Only
<1>4. RequestsKept(v)  BY <1>2 DEF Kept, RequestsKept
<1>5. ServiceKept(v)  BY <1>3 DEF Kept, ServiceKept, Fields
<1>6. Kept(v)  BY <1>4, <1>5 DEF Kept
<1>7. Follows(u, v)
  <2>1. u.nextRequestId \in Nat  BY Counters DEF Kept
  <2> QED  BY <1>2, <1>3, <2>1 DEF Follows
<1>8. Made(u, a) => Made(v, a)  BY <1>6, <1>7, StillMade
<1>9. \A c \in Connections : Ordered(u, c.inbox, a) => Ordered(v, c.inbox, a)
  BY <1>6, <1>7, StillInOrder
<1> QED  BY <1>3, <1>6, <1>8, <1>9

(* A frame is delivered: what is shown does not go back.                    *)
LEMMA DeliverKeeps ==
  ASSUME DisplayKept, Deliver
  PROVE  /\ DisplayKept'
         /\ ui'.streamId = ui.streamId => ui'.snapshot.sequence >= ui.snapshot.sequence
<1> DEFINE c == conn[attached]
           v == HandleProtocolLine(ui, Head(c.outbox))
           d == Heard(c, v)
           w == [v EXCEPT !.lines = <<>>]
<1>1. /\ Kept(ui) /\ ui.lines = <<>> /\ up \in BOOLEAN /\ popup \in BOOLEAN
      /\ published \in 1..MaxPublications /\ budget \in [Spendable -> Nat]
      /\ (attached # 0 => attached \in DOMAIN conn)
      /\ \A i \in DOMAIN conn : conn[i] \in Connections
      /\ applied \in [session : Sessions, id : Nat] /\ applied.session # <<0, 1>> /\ Made(ui, applied)
      /\ ui.bridge # "off" => attached # 0
      /\ ui.bridge = "running" => conn[attached].peer /\ Talks(ui, conn[attached])
      /\ attached # 0 /\ conn[attached].peer =>
             ui.bridge # "off" /\ Ordered(ui, conn[attached].inbox, applied)
      /\ attached # 0 => conn[attached].shell = ui.session[1]
      /\ ui.session[1] \in Nat \ {0}
  BY StateParts
<1>2. /\ ui.bridge = "running" /\ c.outbox # <<>>
      /\ UNCHANGED <<stream, up, published, popup, applied, budget, attached>>
      /\ ui' = w
      /\ conn' = [conn EXCEPT ![attached] = d]
  BY DEF Deliver, Heard, Read
<1>3. attached \in DOMAIN conn /\ c \in Connections /\ c.peer /\ Talks(ui, c)
      /\ Ordered(ui, c.inbox, applied)
  BY <1>1, <1>2
<1> HIDE DEF c
<1>4. /\ Kept(v) /\ v.bridge # "off"
      /\ d \in Connections /\ d.task = c.task /\ d.peer = c.peer /\ d.shell = c.shell
      /\ Made(v, applied) /\ Ordered(v, d.inbox, applied)
      /\ v.bridge = "running" => Talks(v, d)
      /\ v.session[1] = ui.session[1]
      /\ v.streamId = ui.streamId => v.snapshot.sequence >= ui.snapshot.sequence
  BY <1>1, <1>2, <1>3, Hears
<1> HIDE DEF v, d
<1>5. /\ Kept(w) /\ w.lines = <<>> /\ w.bridge = v.bridge /\ w.snapshot = v.snapshot
      /\ w.session = v.session
      /\ w.streamId = v.streamId
      /\ \A x : Talks(v, x) => Talks(w, x)
      /\ \A a : Made(v, a) => Made(w, a)
      /\ \A x, a : Ordered(v, x, a) => Ordered(w, x, a)
  BY <1>4, Silenced
<1> HIDE DEF w
<1>6. /\ RequestsKept(ui') /\ ServiceKept(ui') /\ ui'.lines = <<>> /\ ui'.bridge # "off"
      /\ ui'.bridge = "running" => d.peer /\ Talks(ui', d)
      /\ Ordered(ui', d.inbox, applied) /\ Made(ui', applied)
  BY <1>2, <1>3, <1>4, <1>5 DEF Kept
<1>7. ~up => d.task = "closed"
  BY <1>3, <1>4 DEF DisplayKept, ConnectionsKept, c
<1>8. DisplayKept'
  <2>1. ui'.session[1] = ui.session[1]  BY <1>2, <1>4, <1>5
  <2>2. d.shell = conn[attached].shell /\ d.shell = ui'.session[1] /\ d.shell # 0
    BY <1>1, <1>2, <1>4, <2>1 DEF c
  <2>3. d.peer => conn[attached].peer  BY <1>4 DEF c
  <2>4. InOrder(ui', d.shell, d.inbox, applied)  BY <1>6, <2>2 DEF Ordered
  <2> QED  BY <1>1, <1>2, <1>3, <1>4, <1>6, <1>7, <2>1, <2>2, <2>3, <2>4, StepAt
<1> QED  BY <1>2, <1>4, <1>5, <1>8

(* The handshake takes too long: the bridge is told to stop.                *)
LEMMA TimeoutKeeps ==
  ASSUME DisplayKept, HandshakeTimeout
  PROVE  DisplayKept' /\ ui'.snapshot = ui.snapshot
<1> DEFINE q == [ui EXCEPT !.handshakeTimer = FALSE]
           v == ScheduleReconnect(q, "handshake_timeout")
           w == [v EXCEPT !.lines = <<>>]
<1>1. /\ Kept(ui) /\ ui.lines = <<>> /\ up \in BOOLEAN /\ popup \in BOOLEAN
      /\ published \in 1..MaxPublications
      /\ (attached # 0 => attached \in DOMAIN conn)
      /\ \A i \in DOMAIN conn : conn[i] \in Connections
      /\ applied \in [session : Sessions, id : Nat] /\ applied.session # <<0, 1>> /\ Made(ui, applied)
      /\ attached # 0 /\ conn[attached].peer =>
             ui.bridge # "off" /\ Ordered(ui, conn[attached].inbox, applied)
  BY StateParts
<1>2. /\ ui' = w /\ Spend("faults") /\ UNCHANGED <<stream, up, published, popup, applied, attached>>
      /\ conn' = IF v.lines = <<>> \/ attached = 0 \/ conn[attached].task = "closed" THEN conn
                 ELSE [conn EXCEPT ![attached].inbox = @ \o v.lines]
  BY DEF HandshakeTimeout, Frontend
<1>3. DOMAIN ui = Fields  BY <1>1 DEF Kept, ServiceKept, Fields
<1>4. /\ Only(ui, q, {"handshakeTimer"}) /\ q.phase = ui.phase /\ q.bridge = ui.bridge
      /\ q.reconnectTimer = ui.reconnectTimer /\ q.connectionError = ui.connectionError
      /\ q.lines = ui.lines
  BY <1>3, FieldsAre DEF Only
<1> HIDE DEF q
<1>5. Only(ui, q, {"alive", "phase", "connectionWanted", "transportConnected", "bridge",
                   "connectionError", "handshakeTimer", "reconnectTimer", "lines"})
  BY <1>4 DEF Only
<1>6. /\ ui.phase \in {"awaiting_hello", "ready"} /\ ui.bridge \in {"off", "running", "stopping"}
      /\ ui.reconnectTimer => ui.bridge # "running"
      /\ ui.connectionError # "protocol_error"
  BY <1>1 DEF Kept, ServiceKept
<1>7. Kept(q)  BY <1>1, <1>4, <1>5, <1>6, BesideRequests
<1>8. /\ Kept(v) /\ v.bridge # "running" /\ (v.bridge = "off" <=> q.bridge = "off")
      /\ Only(q, v, {"transportConnected", "handshakeTimer", "bridge", "connectionError",
                     "connectionWanted", "reconnectTimer"})
  BY <1>7, Reconnecting
<1> HIDE DEF v
<1>9. v.lines = <<>>
  <2>1. DOMAIN q = Fields  BY <1>7 DEF Kept, ServiceKept, Fields
  <2> QED  BY <1>1, <1>4, <1>8, <2>1, FieldsAre DEF Only
<1>10. Only(ui, v, {"alive", "phase", "connectionWanted", "transportConnected", "bridge",
                    "connectionError", "handshakeTimer", "reconnectTimer", "lines"})
  BY <1>5, <1>8, OnlyAlso
<1>11. /\ v.phase \in {"awaiting_hello", "ready"} /\ v.bridge \in {"off", "running", "stopping"}
       /\ v.reconnectTimer => v.bridge # "running"
       /\ v.connectionError # "protocol_error"
  BY <1>8 DEF Kept, ServiceKept
<1>12. /\ v.snapshot = ui.snapshot /\ Made(v, applied) /\ v.session = ui.session
       /\ attached # 0 /\ conn[attached].peer => Ordered(v, conn[attached].inbox, applied)
  BY <1>1, <1>10, <1>11, BesideRequests
<1>13. /\ Kept(w) /\ w.lines = <<>> /\ w.bridge = v.bridge /\ w.snapshot = v.snapshot
       /\ w.session = v.session
       /\ \A a : Made(v, a) => Made(w, a)
       /\ \A x, a : Ordered(v, x, a) => Ordered(w, x, a)
  BY <1>8, Silenced
<1> HIDE DEF w
<1>14. /\ RequestsKept(ui') /\ ServiceKept(ui') /\ ui'.lines = <<>> /\ ui'.bridge # "running"
       /\ ui'.bridge # "off" => ui.bridge # "off"
       /\ attached # 0 /\ conn[attached].peer =>
              ui'.bridge # "off" /\ Ordered(ui', conn[attached].inbox, applied)
       /\ Made(ui', applied) /\ ui'.session[1] = ui.session[1]
  BY <1>1, <1>2, <1>4, <1>8, <1>12, <1>13 DEF Kept
<1>15. conn' = conn /\ budget' \in [Spendable -> Nat]
  BY <1>2, <1>9, Spending DEF Spendable
<1>16. DisplayKept'  BY <1>1, <1>2, <1>14, <1>15, StepBeside
<1> QED  BY <1>2, <1>12, <1>13, <1>16

(* The shell unloads the service.                                           *)
LEMMA ExitKeeps ==
  ASSUME DisplayKept, FrontendExit
  PROVE  DisplayKept' /\ ui'.snapshot = ui.snapshot
<1>1. /\ Kept(ui) /\ ui.lines = <<>> /\ up \in BOOLEAN /\ popup \in BOOLEAN
      /\ published \in 1..MaxPublications
      /\ (attached # 0 => attached \in DOMAIN conn)
      /\ \A i \in DOMAIN conn : conn[i] \in Connections
      /\ applied \in [session : Sessions, id : Nat] /\ applied.session # <<0, 1>> /\ Made(ui, applied)
      /\ attached # 0 /\ conn[attached].peer =>
             ui.bridge # "off" /\ Ordered(ui, conn[attached].inbox, applied)
  BY StateParts
<1>2. /\ Spend("shells") /\ UNCHANGED <<stream, up, published, popup, conn, applied, attached>>
      /\ ui' = [StopConnection(ui) EXCEPT
                   !.alive = FALSE, !.connectionWanted = FALSE,
                   !.reconnectTimer = FALSE, !.panelRetryTimer = FALSE]
  BY DEF FrontendExit
<1> DEFINE q == [ui EXCEPT !.panelRetryTimer = FALSE]
<1>3. DOMAIN ui = Fields  BY <1>1 DEF Kept, ServiceKept, Fields
<1>4. /\ Only(ui, q, {"panelRetryTimer"}) /\ ~q.panelRetryTimer
      /\ q.panelStateRequestId = ui.panelStateRequestId /\ q.panelRetryCount = ui.panelRetryCount
      /\ q.connectionError = ui.connectionError /\ q.panelDesiredOpen = ui.panelDesiredOpen
      /\ q.snapshot = ui.snapshot /\ q.bridge = ui.bridge /\ q.phase = ui.phase
  BY <1>3, FieldsAre DEF Only
<1>5. /\ Only(q, ui', {"alive", "connectionWanted", "transportConnected", "bridge", "handshakeTimer",
                       "reconnectTimer"})
      /\ ui'.bridge = IF ui.bridge = "running" THEN "stopping" ELSE ui.bridge
      /\ ~ui'.reconnectTimer /\ ui'.lines = ui.lines /\ ui'.phase = ui.phase
      /\ ui'.connectionError = ui.connectionError
  BY <1>2, <1>3, FieldsAre DEF Only, StopConnection
<1> HIDE DEF q
<1>6. Moves(ui, q) /\ Stays(ui, q)
  <2>1. Only(ui, q, {"panelStateRequestId", "panelStateKnown", "panelDesiredOpen", "panelRetryCount",
                     "panelRetryTimer", "panelActionError", "connectionError"})
    BY <1>4 DEF Only
  <2>2. /\ ui.panelRetryCount \in 0..MaxPanelRetries /\ ui.connectionError # "protocol_error"
        /\ ui.panelDesiredOpen \in BOOLEAN
    BY <1>1 DEF Kept, RequestsKept, ServiceKept
  <2> QED  BY <1>1, <1>4, <2>1, <2>2, PanelChange
<1>7. Kept(q) /\ Follows(ui, q) /\ q.session = ui.session  BY <1>6 DEF Moves, Stays, Follows
<1>8. Made(q, applied)  BY <1>1, <1>7, StillMade
<1>9. attached # 0 /\ conn[attached].peer => Ordered(q, conn[attached].inbox, applied)
  BY <1>1, <1>7, StillInOrder
<1>10. Only(q, ui', {"alive", "phase", "connectionWanted", "transportConnected", "bridge",
                     "connectionError", "handshakeTimer", "reconnectTimer", "lines"})
  BY <1>5 DEF Only
<1>11. /\ ui.phase \in {"awaiting_hello", "ready"} /\ ui.bridge \in {"off", "running", "stopping"}
       /\ ui.connectionError # "protocol_error"
  BY <1>1 DEF Kept, ServiceKept
<1>12. /\ ui'.phase \in {"awaiting_hello", "ready"} /\ ui'.bridge \in {"off", "stopping"}
       /\ (ui'.bridge = "off" <=> ui.bridge = "off")
       /\ ui'.connectionError # "protocol_error"
  BY <1>5, <1>11
<1>13. /\ Kept(ui') /\ ui'.snapshot = q.snapshot /\ Made(ui', applied) /\ ui'.session = q.session
       /\ attached # 0 /\ conn[attached].peer => Ordered(ui', conn[attached].inbox, applied)
  BY <1>1, <1>5, <1>7, <1>8, <1>9, <1>10, <1>12, BesideRequests
<1>14. budget' \in [Spendable -> Nat]  BY <1>2, Spending DEF Spendable
<1>15. RequestsKept(ui') /\ ServiceKept(ui') /\ ui'.lines = <<>>  BY <1>1, <1>5, <1>13 DEF Kept
<1>17. ui'.session[1] = ui.session[1]  BY <1>7, <1>13
<1>16. DisplayKept'
  BY <1>1, <1>2, <1>12, <1>13, <1>14, <1>15, <1>17, StepBeside
<1> QED  BY <1>4, <1>13, <1>16

(* The shell loads it again, while the bridge before may still be there.    *)
LEMMA LoadKeeps ==
  ASSUME DisplayKept, FrontendStart
  PROVE  DisplayKept' /\ ui'.session[1] # ui.session[1]
<1> DEFINE s == <<ui.session[1] + 1, 1>>
<1>1. /\ Kept(ui) /\ up \in BOOLEAN /\ popup \in BOOLEAN /\ budget \in [Spendable -> Nat]
      /\ published \in 1..MaxPublications /\ stream \in Nat \ {0}
      /\ conn \in Seq(Connections) /\ Len(conn) \in Nat /\ DOMAIN conn = 1..Len(conn)
      /\ \A i \in DOMAIN conn : conn[i] \in Connections
      /\ applied \in [session : Sessions, id : Nat] /\ applied.session # <<0, 1>> /\ Made(ui, applied)
      /\ ui.session[1] \in Nat \ {0}
  BY StateParts
<1>2. /\ ui' = NewService(s) /\ attached' = 0
      /\ UNCHANGED <<stream, up, published, popup, conn, applied, budget>>
  BY DEF FrontendStart
<1>3. s \in (Nat \ {0}) \X Nat /\ s[1] = ui.session[1] + 1  BY <1>1
<1> HIDE DEF s
<1>4. Kept(ui') /\ ui'.session = s /\ ui'.bridge = "off" /\ ui'.lines = <<>>
  BY <1>2, <1>3, Loading
<1>5. Made(ui', applied)
  <2>1. applied.session[1] \in Nat  BY <1>1 DEF Sessions
  <2>2. applied.session[1] <= ui.session[1]  BY <1>1, <2>1 DEF Made
  <2> QED  BY <1>1, <1>3, <1>4, <2>1, <2>2 DEF Made
<1>6. \A i \in DOMAIN conn : conn[i].shell < ui'.session[1]
  <2> TAKE i \in DOMAIN conn
  <2>1. conn[i].shell \in Nat /\ conn[i].shell <= ui.session[1]  BY ShellParts
  <2> QED  BY <1>1, <1>3, <1>4, <2>1
<1>7. TypeOK'
  <2>1. \A i \in DOMAIN conn : /\ conn[i].task \in {"pending", "accepted", "ready", "closed"}
                               /\ i # 0
    BY <1>1, ConnectionParts
  <2>2. /\ ui'.phase \in {"awaiting_hello", "ready"} /\ Len(conn) <= MaxConnections
        /\ ui'.nextRequestId \in 1..MaxRequestId /\ ui'.panelRetryCount \in 0..MaxPanelRetries
    BY <1>4 DEF Kept, RequestsKept, ServiceKept, DisplayKept, TypeOK
  <2> QED  BY <1>1, <1>2, <1>4, <2>1, <2>2 DEF TypeOK
<1>8. ConnectionsKept'
  <2>1. ~up => \A i \in DOMAIN conn : conn[i].task = "closed"  BY DEF DisplayKept, ConnectionsKept
  <2>2. \A i \in DOMAIN conn' :
           /\ conn'[i].shell <= ui'.session[1]
           /\ conn'[i].peer /\ conn'[i].shell = 0 => Stranger(conn'[i])
           /\ conn'[i].peer /\ conn'[i].shell = ui'.session[1] => i = attached'
           /\ \A j \in DOMAIN conn' :
                  conn'[i].peer /\ conn'[j].peer /\ conn'[j].shell = conn'[i].shell
                  /\ conn'[i].shell # 0 => j = i
    <3> TAKE i \in DOMAIN conn'
    <3>1. i \in DOMAIN conn /\ conn' = conn  BY <1>2
    <3>2. conn[i].shell < ui'.session[1] /\ conn[i].shell \in Nat /\ ui'.session[1] \in Nat
      BY <1>1, <1>3, <1>4, <1>6, <3>1, ShellParts
    <3>3. conn[i].shell <= ui'.session[1] /\ conn[i].shell # ui'.session[1]  BY <3>2
    <3> QED  BY <3>1, <3>3, ShellParts
  <2>3. attached' \in 0..Len(conn') /\ attached' = 0  BY <1>1, <1>2
  <2> QED  BY <1>1, <1>2, <1>4, <2>1, <2>2, <2>3 DEF ConnectionsKept, Stranger
<1>9. BridgeKept'  BY <1>4 DEF BridgeKept
<1>10. PanelsInOrder'
  <2>1. \A i \in DOMAIN conn' : conn'[i].peer /\ conn'[i].shell # 0 =>
             InOrder(ui', conn'[i].shell, conn'[i].inbox, applied)
    <3> TAKE i \in DOMAIN conn'
    <3> HAVE conn'[i].peer /\ conn'[i].shell # 0
    <3>1. i \in DOMAIN conn /\ conn' = conn  BY <1>2
    <3>2. InOrder(ui, conn[i].shell, conn[i].inbox, applied) /\ conn[i] \in Connections
      BY <3>1, ShellParts
    <3>3. ui'.session \in Sessions  BY <1>4 DEF Kept, ServiceKept, Sessions
    <3> QED  BY <1>1, <1>6, <3>1, <3>2, <3>3, InOrderBeside
  <2> QED  BY <1>1, <1>2, <1>5, <2>1 DEF PanelsInOrder, HandshakeFirst, InOrder, Made, NotEarlier, IsPanel
<1>11. (RequestsKept(ui) /\ ServiceKept(ui))'
  BY <1>4 DEF Kept, RequestsKept, ServiceKept
<1>12. DisplayKept'  BY <1>7, <1>8, <1>9, <1>10, <1>11 DEF DisplayKept
<1> QED  BY <1>1, <1>3, <1>4, <1>12

(* The runtime publishes.                                                   *)
LEMMA PublishKeeps ==
  ASSUME DisplayKept, Publish
  PROVE  DisplayKept' /\ ui' = ui
<1>1. /\ Kept(ui) /\ ui.lines = <<>> /\ popup \in BOOLEAN /\ budget \in [Spendable -> Nat]
      /\ published \in 1..MaxPublications /\ Made(ui, applied)
      /\ ui.bridge = "running" => conn[attached].peer /\ Talks(ui, conn[attached])
      /\ attached # 0 /\ conn[attached].peer =>
             ui.bridge # "off" /\ Ordered(ui, conn[attached].inbox, applied)
  BY StateParts
<1>2. /\ published' = published + 1 /\ published < MaxPublications
      /\ UNCHANGED <<stream, up, popup, conn, ui, applied, budget, attached>>
  BY DEF Publish
<1>3. published' \in 1..MaxPublications  BY <1>1, <1>2, ServerLimits
<1>4. ui' = ui /\ RequestsKept(ui') /\ ServiceKept(ui') /\ ui'.lines = <<>>
  BY <1>1, <1>2 DEF Kept
<1>5. DisplayKept'  BY <1>1, <1>2, <1>3, <1>4, StepBeside
<1> QED  BY <1>4, <1>5

(* A connection more at the end.                                            *)
LEMMA Connecting ==
  ASSUME DisplayKept, NEW c \in Connections, conn' = Append(conn, c), Len(conn) < MaxConnections
  PROVE  /\ conn' \in Seq(Connections) /\ Len(conn') = Len(conn) + 1 /\ Len(conn') <= MaxConnections
         /\ DOMAIN conn' = 1..(Len(conn) + 1) /\ Len(conn) \in Nat /\ DOMAIN conn = 1..Len(conn)
         /\ conn'[Len(conn) + 1] = c /\ \A i \in 1..Len(conn) : conn'[i] = conn[i]
         /\ \A i \in DOMAIN conn' : conn'[i].task \in {"pending", "accepted", "ready", "closed"}
<1>1. conn \in Seq(Connections) /\ Len(conn) \in Nat /\ DOMAIN conn = 1..Len(conn)
  BY StateParts
<1>2. /\ conn' \in Seq(Connections) /\ Len(conn') = Len(conn) + 1
      /\ conn'[Len(conn) + 1] = c /\ \A i \in 1..Len(conn) : conn'[i] = conn[i]
  BY <1>1
<1>3. DOMAIN conn' = 1..(Len(conn) + 1) /\ \A i \in DOMAIN conn' : conn'[i] \in Connections
  BY <1>2, ElementOfSeq
<1>4. \A i \in DOMAIN conn' : conn'[i].task \in {"pending", "accepted", "ready", "closed"}
  BY <1>3, ConnectionParts
<1> QED  BY <1>1, <1>2, <1>3, <1>4, ServerLimits

(* A new connection is one with nothing to read but what it brings.         *)
Opened(h, x) == [NewConnection(h) EXCEPT !.inbox = x]

(* NewConnection, and the lines written to it: StartConnection and          *)
(* StrangerConnects add one of these.                                       *)
LEMMA FreshConnection ==
  ASSUME NEW x \in Seq(Lines), NEW h \in Nat
  PROVE  LET c == Opened(h, x)
         IN  /\ c \in Connections /\ c.task = "pending" /\ c.peer /\ c.inbox = x /\ c.outbox = <<>>
             /\ c.reply = NoReply /\ c.shell = h
<1>1. NewConnection(h) \in Connections
  <2>1. <<>> \in Seq(Lines) /\ <<>> \in Seq(Frames)  OBVIOUS
  <2> QED  BY <2>1 DEF NewConnection, Connections
<1>2. /\ NewConnection(h).task = "pending" /\ NewConnection(h).peer
      /\ NewConnection(h).outbox = <<>> /\ NewConnection(h).reply = NoReply /\ NewConnection(h).shell = h
  BY DEF NewConnection
<1> QED  BY <1>1, <1>2, OtherInbox DEF Opened

(* Another program connects.                                                *)
LEMMA StrangerKeeps ==
  ASSUME DisplayKept, StrangerConnects
  PROVE  DisplayKept' /\ ui' = ui
<1>1. PICK first \in {"hello", "action"} :
         LET m == [type |-> first, session |-> <<0, 1>>, id |-> 1, action |-> "open_panel"]
         IN  conn' = Append(conn, [NewConnection(0) EXCEPT !.inbox = <<m, m>>])
  BY DEF StrangerConnects
<1>2. /\ up /\ Spend("strangers") /\ Len(conn) < MaxConnections
      /\ UNCHANGED <<stream, up, published, popup, ui, applied, attached>>
  BY DEF StrangerConnects
<1> DEFINE m == [type |-> first, session |-> <<0, 1>>, id |-> 1, action |-> "open_panel"]
           c == [NewConnection(0) EXCEPT !.inbox = <<m, m>>]
           n == Len(conn)
<1>3. m \in Lines /\ m.type \in {"hello", "action"}
  <2>1. <<0, 1>> \in Sessions  BY DEF Sessions
  <2> QED  BY <2>1 DEF Lines
<1>4. conn' = Append(conn, c)  BY <1>1
<1> HIDE DEF m
<1>5. /\ c \in Connections /\ c.task = "pending" /\ c.inbox = <<m, m>> /\ c.shell = 0
  <2> DEFINE x == <<m, m>>
  <2>1. x \in Seq(Lines)  BY <1>3
  <2>2. c = Opened(0, x)  BY DEF Opened
  <2> HIDE DEF c, x
  <2>3. c \in Connections /\ c.task = "pending" /\ c.inbox = x /\ c.shell = 0
    BY <2>1, <2>2, FreshConnection
  <2> QED  BY <2>3 DEF x
<1> HIDE DEF c
<1>6. Stranger(c)
  <2>1. DOMAIN c.inbox = 1..2 /\ \A i \in 1..2 : c.inbox[i] = m  BY <1>5
  <2> QED  BY <1>3, <1>5, <2>1 DEF Stranger
<1>7. /\ conn' \in Seq(Connections) /\ Len(conn') = n + 1 /\ Len(conn') <= MaxConnections
      /\ DOMAIN conn' = 1..(n + 1) /\ n \in Nat /\ DOMAIN conn = 1..n
      /\ conn'[n + 1] = c /\ \A i \in 1..n : conn'[i] = conn[i]
      /\ \A i \in DOMAIN conn' : conn'[i].task \in {"pending", "accepted", "ready", "closed"}
  BY <1>2, <1>4, <1>5, Connecting
<1>8. /\ Kept(ui) /\ ui.lines = <<>> /\ up \in BOOLEAN /\ popup \in BOOLEAN
      /\ published \in 1..MaxPublications /\ stream \in Nat \ {0}
      /\ attached \in 0..n /\ Made(ui, applied)
      /\ applied \in [session : Sessions, id : Nat] /\ applied.session # <<0, 1>>
      /\ ui.bridge # "off" => attached # 0
      /\ ui.bridge = "running" => conn[attached].peer /\ Talks(ui, conn[attached])
      /\ attached # 0 /\ conn[attached].peer =>
             ui.bridge # "off" /\ Ordered(ui, conn[attached].inbox, applied)
      /\ attached # 0 => conn[attached].shell = ui.session[1]
      /\ ui.session[1] \in Nat \ {0}
  BY StateParts
<1> HIDE DEF n
<1>9. budget' \in [Spendable -> Nat]  BY <1>2, Spending DEF Spendable
<1>10. attached # 0 => conn'[attached] = conn[attached]  BY <1>7, <1>8
<1>11. attached \in 0..Len(conn') /\ attached # n + 1  BY <1>7, <1>8
<1>12. TypeOK'
  <2>1. \A i \in DOMAIN conn' : i = attached /\ conn'[i].peer => ui.bridge # "off"
    BY <1>7, <1>8, <1>10
  <2>2. /\ ui.bridge \in {"off", "running", "stopping"} /\ ui.phase \in {"awaiting_hello", "ready"}
        /\ ui.nextRequestId \in 1..MaxRequestId /\ ui.panelRetryCount \in 0..MaxPanelRetries
    BY <1>8 DEF Kept, RequestsKept, ServiceKept
  <2> QED  BY <1>2, <1>7, <1>8, <1>9, <2>1, <2>2 DEF TypeOK
<1>13. ConnectionsKept'
  <2>1. \A i \in DOMAIN conn' :
           /\ conn'[i].shell <= ui.session[1]
           /\ conn'[i].peer /\ conn'[i].shell = 0 => Stranger(conn'[i])
           /\ conn'[i].peer /\ conn'[i].shell = ui.session[1] => i = attached
           /\ \A j \in DOMAIN conn' :
                  conn'[i].peer /\ conn'[j].peer /\ conn'[j].shell = conn'[i].shell
                  /\ conn'[i].shell # 0 => j = i
    <3> TAKE i \in DOMAIN conn'
    <3>1. CASE i = n + 1  BY <1>5, <1>6, <1>7, <1>8, <3>1
    <3>2. CASE i # n + 1
      <4>1. i \in DOMAIN conn /\ conn'[i] = conn[i]  BY <1>7, <3>2
      <4>2. \A j \in DOMAIN conn' : conn'[j].shell # 0 => j \in DOMAIN conn /\ conn'[j] = conn[j]
        BY <1>5, <1>7
      <4> QED  BY <4>1, <4>2 DEF DisplayKept, ConnectionsKept
    <3> QED  BY <3>1, <3>2
  <2> QED  BY <1>2, <1>7, <1>8, <1>10, <1>11, <2>1 DEF ConnectionsKept, Stranger
<1>14. BridgeKept'
  <2>1. ui.bridge = "running" => Talks(ui, conn'[attached])  BY <1>8, <1>10
  <2> QED  BY <1>2, <2>1 DEF BridgeKept, Talks, AwaitsHello, Greeted, ReportsInOrder, Open
<1>15. PanelsInOrder'
  <2>1. \A i \in DOMAIN conn' : conn'[i].peer /\ conn'[i].shell # 0 =>
             InOrder(ui, conn'[i].shell, conn'[i].inbox, applied)
    <3> TAKE i \in DOMAIN conn'
    <3> HAVE conn'[i].peer /\ conn'[i].shell # 0
    <3>1. i \in DOMAIN conn /\ conn'[i] = conn[i]  BY <1>5, <1>7
    <3> QED  BY <3>1, ShellParts
  <2> QED  BY <1>2, <1>8, <2>1 DEF PanelsInOrder, HandshakeFirst, InOrder, Made, NotEarlier, IsPanel
<1>16. (RequestsKept(ui) /\ ServiceKept(ui))'
  BY <1>2, <1>8 DEF Kept, RequestsKept, ServiceKept
<1> QED  BY <1>2, <1>12, <1>13, <1>14, <1>15, <1>16 DEF DisplayKept

(* The frontend before and after the bridge is started.                     *)
LEMMA Starting ==
  ASSUME NEW u, Kept(u), u.lines = <<>>, NEW a \in [session : Sessions, id : Nat], Made(u, a)
  PROVE  LET wanted == [u EXCEPT !.reconnectTimer = FALSE, !.connectionWanted = TRUE]
             started == BeginHandshake([wanted EXCEPT !.bridge = "running"])
         IN  /\ Kept(wanted) /\ wanted.bridge = u.bridge /\ wanted.lines = <<>> /\ Made(wanted, a)
             /\ wanted.snapshot = u.snapshot /\ wanted.session = u.session
             /\ \A c \in Connections : Ordered(u, c.inbox, a) => Ordered(wanted, c.inbox, a)
             /\ Kept(started) /\ started.bridge = "running" /\ started.phase = "awaiting_hello"
             /\ started.snapshot = u.snapshot /\ Made(started, a) /\ started.session = u.session
             /\ started.lines = <<[type |-> "hello", session |-> u.session]>>
<1> DEFINE wanted == [u EXCEPT !.reconnectTimer = FALSE, !.connectionWanted = TRUE]
           running == [wanted EXCEPT !.bridge = "running"]
           x == [ReconnectingState(running) EXCEPT !.connectionError = "",
                                          !.transportConnected = TRUE,
                                          !.handshakeTimer = TRUE]
           started == BeginHandshake(running)
<1>1. DOMAIN u = Fields  BY DEF Kept, ServiceKept, Fields
<1>2. /\ Only(u, wanted, {"reconnectTimer", "connectionWanted"}) /\ ~wanted.reconnectTimer
      /\ wanted.connectionWanted /\ wanted.bridge = u.bridge /\ wanted.lines = <<>>
      /\ wanted.phase = u.phase /\ wanted.connectionError = u.connectionError
  BY <1>1, FieldsAre DEF Only
<1>3. /\ Only(u, x, {"reconnectTimer", "connectionWanted", "bridge", "phase", "connectionError",
                     "transportConnected", "handshakeTimer"})
      /\ ~x.reconnectTimer /\ x.connectionWanted /\ x.transportConnected /\ x.bridge = "running"
      /\ x.lines = <<>> /\ x.phase = "awaiting_hello" /\ x.connectionError = "" /\ x.session = u.session
  BY <1>1, FieldsAre DEF Only, ReconnectingState
<1>4. started = WriteLine(x, ClientHello(x))  BY DEF BeginHandshake
<1>5. started = [x EXCEPT !.lines = Append(@, ClientHello(x))]
  BY <1>3, <1>4 DEF WriteLine
<1>6. ClientHello(x) = [type |-> "hello", session |-> u.session]  BY <1>3 DEF ClientHello
<1> HIDE DEF x, started, wanted
<1>7. /\ Only(x, started, {"lines"}) /\ started.lines = <<[type |-> "hello", session |-> u.session]>>
  <2>1. DOMAIN x = Fields  BY <1>1, <1>3 DEF Only
  <2>2. Only(x, started, {"lines"}) /\ started.lines = Append(x.lines, ClientHello(x))
    BY <1>5, <2>1, FieldsAre DEF Only
  <2>3. Append(<<>>, ClientHello(x)) = <<ClientHello(x)>>  OBVIOUS
  <2> QED  BY <1>3, <1>6, <2>2, <2>3
<1>8. /\ started.bridge = "running" /\ started.phase = "awaiting_hello" /\ ~started.reconnectTimer
      /\ started.connectionError = ""
  <2>1. DOMAIN x = Fields  BY <1>1, <1>3 DEF Only
  <2> QED  BY <1>3, <1>7, <2>1, FieldsAre DEF Only
<1>9. /\ Only(u, wanted, {"alive", "phase", "connectionWanted", "transportConnected", "bridge",
                         "connectionError", "handshakeTimer", "reconnectTimer", "lines"})
      /\ Only(u, started, {"alive", "phase", "connectionWanted", "transportConnected", "bridge",
                         "connectionError", "handshakeTimer", "reconnectTimer", "lines"})
  <2>1. Only(u, started, {"alive", "phase", "connectionWanted", "transportConnected", "bridge",
                         "connectionError", "handshakeTimer", "reconnectTimer", "lines"})
    <3>1. Only(u, x, {"reconnectTimer", "connectionWanted", "bridge", "phase", "connectionError",
                      "transportConnected", "handshakeTimer"})
      BY <1>3
    <3>2. Only(x, started, {"lines"})  BY <1>7
    <3> QED  BY <3>1, <3>2, OnlyAlso
  <2> QED  BY <1>2, <2>1 DEF Only
<1>10. /\ u.phase \in {"awaiting_hello", "ready"} /\ u.bridge \in {"off", "running", "stopping"}
       /\ u.connectionError # "protocol_error"
  BY DEF Kept, ServiceKept
<1>11. /\ Kept(wanted) /\ wanted.snapshot = u.snapshot /\ Made(wanted, a) /\ wanted.session = u.session
       /\ \A c \in Connections : Ordered(u, c.inbox, a) => Ordered(wanted, c.inbox, a)
  BY <1>2, <1>9, <1>10, BesideRequests
<1>12. /\ Kept(started) /\ started.snapshot = u.snapshot /\ Made(started, a) /\ started.session = u.session
  BY <1>8, <1>9, BesideRequests
<1> QED  BY <1>2, <1>7, <1>8, <1>11, <1>12 DEF started, wanted

(* The frontend starts its bridge: the connection before it has no peer.    *)
LEMMA StartKeeps ==
  ASSUME DisplayKept, StartConnection
  PROVE  DisplayKept' /\ ui'.snapshot = ui.snapshot
<1> DEFINE wanted == [ui EXCEPT !.reconnectTimer = FALSE, !.connectionWanted = TRUE]
           started == BeginHandshake([wanted EXCEPT !.bridge = "running"])
           hello == [type |-> "hello", session |-> ui.session]
           n == Len(conn)
<1>1. /\ Kept(ui) /\ ui.lines = <<>> /\ up \in BOOLEAN /\ popup \in BOOLEAN
      /\ published \in 1..MaxPublications /\ stream \in Nat \ {0} /\ budget \in [Spendable -> Nat]
      /\ attached \in 0..n /\ Made(ui, applied)
      /\ (attached # 0 => attached \in DOMAIN conn)
      /\ \A i \in DOMAIN conn : conn[i] \in Connections
      /\ applied \in [session : Sessions, id : Nat] /\ applied.session # <<0, 1>>
      /\ ui.bridge # "off" => attached # 0
      /\ attached # 0 /\ conn[attached].peer =>
             ui.bridge # "off" /\ Ordered(ui, conn[attached].inbox, applied)
      /\ attached # 0 => conn[attached].shell = ui.session[1]
      /\ ui.session[1] \in Nat \ {0}
  BY StateParts
<1>2. /\ Kept(wanted) /\ wanted.bridge = ui.bridge /\ wanted.lines = <<>> /\ Made(wanted, applied)
      /\ wanted.snapshot = ui.snapshot /\ wanted.session = ui.session
      /\ \A c \in Connections : Ordered(ui, c.inbox, applied) => Ordered(wanted, c.inbox, applied)
      /\ Kept(started) /\ started.bridge = "running" /\ started.phase = "awaiting_hello"
      /\ started.snapshot = ui.snapshot /\ Made(started, applied) /\ started.session = ui.session
      /\ started.lines = <<hello>>
  BY <1>1, Starting
<1>3. /\ ui.reconnectTimer /\ UNCHANGED <<stream, up, published, popup, applied, budget>>
      /\ \/ /\ ui.bridge # "off"
            /\ ui' = wanted /\ UNCHANGED <<conn, attached>>
         \/ /\ ui.bridge = "off" /\ up /\ Len(conn) < MaxConnections
            /\ ui' = [started EXCEPT !.lines = <<>>]
            /\ conn' = Append(conn, [NewConnection(ui.session[1]) EXCEPT !.inbox = started.lines])
            /\ attached' = Len(conn) + 1
         \/ /\ ui.bridge = "off" /\ ~up
            /\ ui' = [ScheduleReconnect([started EXCEPT !.bridge = "off"],
                                        "backend_unavailable") EXCEPT !.lines = <<>>]
            /\ UNCHANGED <<conn, attached>>
  BY DEF StartConnection
<1> HIDE DEF wanted, started
<1>4. CASE ui.bridge # "off"
  <2>1. ui.bridge # "running"  BY <1>1, <1>3 DEF Kept, ServiceKept
  <2>2. ui' = wanted /\ UNCHANGED <<conn, attached>>  BY <1>3, <1>4
  <2>3. /\ RequestsKept(ui') /\ ServiceKept(ui') /\ ui'.lines = <<>> /\ ui'.bridge = ui.bridge
        /\ Made(ui', applied) /\ ui'.session[1] = ui.session[1]
        /\ attached # 0 /\ conn[attached].peer => Ordered(ui', conn[attached].inbox, applied)
    BY <1>1, <1>2, <2>2 DEF Kept
  <2>4. DisplayKept'
    BY <1>1, <1>3, <1>4, <2>1, <2>2, <2>3, StepBeside
  <2> QED  BY <1>2, <2>2, <2>4
<1>5. CASE ui.bridge = "off" /\ ~up
  <2> DEFINE q == [started EXCEPT !.bridge = "off"]
             v == ScheduleReconnect(q, "backend_unavailable")
             w == [v EXCEPT !.lines = <<>>]
  <2>1. ui' = w /\ UNCHANGED <<conn, attached>>  BY <1>3, <1>5
  <2>2. DOMAIN started = Fields  BY <1>2 DEF Kept, ServiceKept, Fields
  <2>3. /\ Only(started, q, {"bridge"}) /\ q.bridge = "off" /\ q.phase = started.phase
        /\ q.connectionError = started.connectionError
    BY <2>2, FieldsAre DEF Only
  <2> HIDE DEF q
  <2>4. Only(started, q, {"alive", "phase", "connectionWanted", "transportConnected", "bridge",
                          "connectionError", "handshakeTimer", "reconnectTimer", "lines"})
    BY <2>3 DEF Only
  <2>5. started.connectionError # "protocol_error"  BY <1>2 DEF Kept, ServiceKept
  <2>6. Kept(q) /\ q.snapshot = ui.snapshot /\ Made(q, applied) /\ q.session = ui.session
    BY <1>1, <1>2, <2>3, <2>4, <2>5, BesideRequests
  <2>7. /\ Kept(v) /\ v.bridge = "off"
        /\ Only(q, v, {"transportConnected", "handshakeTimer", "bridge", "connectionError",
                       "connectionWanted", "reconnectTimer"})
    BY <2>3, <2>6, Reconnecting
  <2> HIDE DEF v
  <2>8. Only(q, v, {"alive", "phase", "connectionWanted", "transportConnected", "bridge",
                    "connectionError", "handshakeTimer", "reconnectTimer", "lines"})
    BY <2>7 DEF Only
  <2>9. /\ v.phase \in {"awaiting_hello", "ready"} /\ v.bridge \in {"off", "running", "stopping"}
        /\ v.reconnectTimer => v.bridge # "running"
        /\ v.connectionError # "protocol_error"
    BY <2>7 DEF Kept, ServiceKept
  <2>10. v.snapshot = ui.snapshot /\ Made(v, applied) /\ v.session = ui.session
    BY <1>1, <2>6, <2>8, <2>9, BesideRequests
  <2>11. /\ Kept(w) /\ w.lines = <<>> /\ w.bridge = v.bridge /\ w.snapshot = v.snapshot
         /\ Made(w, applied) /\ w.session = ui.session
    BY <2>7, <2>10, Silenced
  <2> HIDE DEF w
  <2>12. /\ RequestsKept(ui') /\ ServiceKept(ui') /\ ui'.lines = <<>> /\ ui'.bridge = "off"
         /\ Made(ui', applied) /\ ui'.session[1] = ui.session[1]
    BY <2>1, <2>7, <2>11 DEF Kept
  <2>13. ~(attached # 0 /\ conn[attached].peer)  BY <1>1, <1>5
  <2>14. DisplayKept'
    BY <1>1, <1>3, <2>1, <2>12, <2>13, StepBeside
  <2> QED  BY <2>1, <2>10, <2>11, <2>14
<1>6. CASE ui.bridge = "off" /\ up
  <2> DEFINE w == [started EXCEPT !.lines = <<>>]
             c == [NewConnection(ui.session[1]) EXCEPT !.inbox = started.lines]
  <2>1. /\ ui' = w /\ Len(conn) < MaxConnections
        /\ conn' = Append(conn, c) /\ attached' = n + 1
    BY <1>3, <1>6
  <2>2. hello \in Lines
    <3>1. ui.session \in Sessions  BY <1>1 DEF Kept, ServiceKept, Sessions
    <3> QED  BY <3>1 DEF Lines
  <2>3. /\ c \in Connections /\ c.task = "pending" /\ c.peer /\ c.inbox = <<hello>> /\ c.outbox = <<>>
        /\ c.reply = NoReply /\ c.shell = ui.session[1]
    <3> DEFINE x == <<hello>>
               h == ui.session[1]
    <3>1. x \in Seq(Lines)  BY <2>2
    <3>2. h \in Nat  BY <1>1 DEF Kept, ServiceKept, Sessions
    <3>3. c = Opened(h, x)  BY <1>2 DEF Opened
    <3> HIDE DEF c, x, h
    <3>4. /\ c \in Connections /\ c.task = "pending" /\ c.peer /\ c.inbox = x /\ c.outbox = <<>>
          /\ c.reply = NoReply /\ c.shell = h
      BY <3>1, <3>2, <3>3, FreshConnection
    <3> QED  BY <3>4 DEF x, h
  <2>4. /\ Kept(w) /\ w.lines = <<>> /\ w.bridge = "running" /\ w.snapshot = ui.snapshot
        /\ Made(w, applied) /\ w.session = ui.session
    BY <1>2, Silenced
  <2>5. w.phase = "awaiting_hello"
    <3>1. DOMAIN started = Fields  BY <1>2 DEF Kept, ServiceKept, Fields
    <3> QED  BY <1>2, <3>1, FieldsAre
  <2>6. hello.type = "hello"  OBVIOUS
  <2> HIDE DEF w, c, hello
  <2>7. DOMAIN c.inbox = 1..1 /\ Len(c.inbox) = 1 /\ c.inbox[1] = hello  BY <2>3
  <2>8. Talks(w, c)  BY <2>3, <2>5, <2>6, <2>7 DEF Talks, AwaitsHello
  <2>9. InOrder(w, c.shell, c.inbox, applied)  BY <2>6, <2>7 DEF InOrder, IsPanel
  <2>10. /\ conn' \in Seq(Connections) /\ Len(conn') = n + 1 /\ Len(conn') <= MaxConnections
         /\ DOMAIN conn' = 1..(n + 1) /\ n \in Nat /\ DOMAIN conn = 1..n
         /\ conn'[n + 1] = c /\ \A i \in 1..n : conn'[i] = conn[i]
         /\ \A i \in DOMAIN conn' : conn'[i].task \in {"pending", "accepted", "ready", "closed"}
    BY <2>1, <2>3, Connecting
  <2> HIDE DEF n
  <2>11. TypeOK'
    <3>1. /\ w.bridge \in {"off", "running", "stopping"} /\ w.phase \in {"awaiting_hello", "ready"}
          /\ w.nextRequestId \in 1..MaxRequestId /\ w.panelRetryCount \in 0..MaxPanelRetries
      BY <2>4 DEF Kept, RequestsKept, ServiceKept
    <3> QED  BY <1>1, <1>3, <2>1, <2>4, <2>10, <3>1 DEF TypeOK
  <2>12. ConnectionsKept'
    <3>1. \A i \in DOMAIN conn' :
             /\ conn'[i].shell <= ui'.session[1]
             /\ conn'[i].peer /\ conn'[i].shell = 0 => Stranger(conn'[i])
             /\ conn'[i].peer /\ conn'[i].shell = ui'.session[1] => i = attached'
             /\ \A j \in DOMAIN conn' :
                    conn'[i].peer /\ conn'[j].peer /\ conn'[j].shell = conn'[i].shell
                    /\ conn'[i].shell # 0 => j = i
      <4>1. \A i \in DOMAIN conn' :
               i # n + 1 => /\ i \in DOMAIN conn /\ conn'[i] = conn[i]
                            /\ conn'[i].peer => conn[i].shell < ui.session[1]
        <5> TAKE i \in DOMAIN conn'
        <5> HAVE i # n + 1
        <5>1. i \in DOMAIN conn /\ conn'[i] = conn[i] /\ i # 0  BY <2>10
        <5>2. conn'[i].peer => i # attached  BY <1>1, <1>6, <5>1
        <5> QED  BY <5>1, <5>2, ShellParts
      <4>2. ui'.session[1] = ui.session[1] /\ conn'[n + 1].shell = ui.session[1]
        BY <2>1, <2>3, <2>4, <2>10
      <4>3. \A i \in DOMAIN conn : conn[i].shell \in Nat /\ conn[i].shell <= ui.session[1]
        BY ShellParts
      <4> TAKE i \in DOMAIN conn'
      <4>4. CASE i = n + 1
        <5>1. \A j \in DOMAIN conn' : conn'[j].peer /\ conn'[j].shell = ui.session[1] => j = n + 1
          BY <1>1, <4>1, <4>3
        <5> QED  BY <1>1, <2>1, <4>2, <4>4, <5>1
      <4>5. CASE i # n + 1
        <5>1. /\ i \in DOMAIN conn /\ conn'[i] = conn[i]
              /\ conn'[i].peer => conn[i].shell < ui.session[1]
          BY <4>1, <4>5
        <5>2. conn'[i].peer => conn[i].shell # ui.session[1]  BY <1>1, <4>3, <5>1
        <5>3. \A j \in DOMAIN conn' :
                  conn'[i].peer /\ conn'[j].peer /\ conn'[j].shell = conn'[i].shell
                  /\ conn'[i].shell # 0 => j = i
          <6> TAKE j \in DOMAIN conn'
          <6> HAVE /\ conn'[i].peer /\ conn'[j].peer /\ conn'[j].shell = conn'[i].shell
                   /\ conn'[i].shell # 0
          <6>1. j # n + 1  BY <4>2, <5>1, <5>2
          <6>2. j \in DOMAIN conn /\ conn'[j] = conn[j]  BY <4>1, <6>1
          <6> QED  BY <5>1, <6>2, ShellParts
        <5>4. conn'[i].peer /\ conn'[i].shell = 0 => Stranger(conn'[i])  BY <5>1, ShellParts
        <5> QED  BY <4>2, <4>3, <5>1, <5>2, <5>3, <5>4
      <4> QED  BY <4>4, <4>5
    <3>2. /\ attached' \in 0..Len(conn') /\ attached' # 0 /\ conn'[attached'].peer
          /\ conn'[attached'].shell = ui'.session[1]
      BY <2>1, <2>3, <2>4, <2>10
    <3> QED  BY <1>3, <1>6, <2>1, <2>4, <2>10, <3>1, <3>2 DEF ConnectionsKept, Stranger
  <2>13. BridgeKept'
    <3>1. Talks(ui', conn'[attached'])  BY <2>1, <2>8, <2>10
    <3> QED  BY <1>3, <3>1 DEF BridgeKept, Talks, AwaitsHello, Greeted, ReportsInOrder, Open
  <2>14. PanelsInOrder'
    <3>1. Made(ui', applied)  BY <2>1, <2>4
    <3>2. \A i \in DOMAIN conn' : conn'[i].peer /\ conn'[i].shell # 0 =>
               InOrder(ui', conn'[i].shell, conn'[i].inbox, applied)
      <4> TAKE i \in DOMAIN conn'
      <4> HAVE conn'[i].peer /\ conn'[i].shell # 0
      <4>1. CASE i = n + 1  BY <2>1, <2>9, <2>10, <4>1
      <4>2. CASE i # n + 1
        <5>1. i \in DOMAIN conn /\ conn'[i] = conn[i] /\ i # 0  BY <2>10, <4>2
        <5>2. i # attached  BY <1>1, <1>6, <5>1
        <5>3. /\ InOrder(ui, conn[i].shell, conn[i].inbox, applied) /\ conn[i] \in Connections
              /\ conn[i].shell < ui'.session[1]
          BY <2>1, <2>4, <5>1, <5>2, ShellParts
        <5>4. ui'.session \in Sessions  BY <2>1, <2>4 DEF Kept, ServiceKept, Sessions
        <5> QED  BY <1>1, <5>1, <5>3, <5>4, InOrderBeside
      <4> QED  BY <4>1, <4>2
    <3> QED  BY <1>1, <1>3, <3>1, <3>2 DEF PanelsInOrder, HandshakeFirst, InOrder, Made, NotEarlier, IsPanel
  <2>15. (RequestsKept(ui) /\ ServiceKept(ui))'
    BY <2>1, <2>4 DEF Kept, RequestsKept, ServiceKept
  <2> QED  BY <2>1, <2>4, <2>11, <2>12, <2>13, <2>14, <2>15 DEF DisplayKept
<1> QED  BY <1>1, <1>4, <1>5, <1>6

(****************************************************************************)
(* The daemon's tasks.                                                      *)
(****************************************************************************)
(* A task that has ended reads and reports nothing more.                    *)
LEMMA Closing ==
  ASSUME NEW c \in Connections
  PROVE  LET d == Closed(c)
         IN  /\ d \in Connections /\ d.task = "closed" /\ d.peer = c.peer /\ d.shell = c.shell /\ d.inbox = <<>>
             /\ d.reply = NoReply /\ d.outbox = c.outbox /\ Stranger(d)
             /\ \A u, h, a : InOrder(u, h, d.inbox, a)
             /\ \A u : Talks(u, c) => Talks(u, d)
<1> DEFINE d == Closed(c)
<1>1. /\ d \in Connections /\ d.task = "closed" /\ d.peer = c.peer /\ d.shell = c.shell /\ d.inbox = <<>>
      /\ d.reply = NoReply /\ d.outbox = c.outbox
  <2>1. <<>> \in Seq(Lines)  OBVIOUS
  <2> QED  BY <2>1 DEF Closed, Connections
<1> HIDE DEF d
<1>2. DOMAIN d.inbox = {}  BY <1>1
<1>3. Stranger(d) /\ \A u, h, a : InOrder(u, h, d.inbox, a)  BY <1>2 DEF Stranger, InOrder
<1>4. ASSUME NEW u, Talks(u, c)  PROVE Talks(u, d)
  <2>1. AwaitsHello(c) => AwaitsHello(d)
    <3>1. c.outbox = <<>> => \A i \in 2..Len(c.outbox) : FALSE
      <4>1. Len(<<>>) = 0  OBVIOUS
      <4> QED  BY <4>1
    <3> QED  BY <1>1, <3>1 DEF AwaitsHello
  <2>2. Greeted(u, c) => Greeted(u, d)  BY <1>1, <1>2 DEF Greeted
  <2>3. ReportsInOrder(u, c) => ReportsInOrder(u, d)
    <3>1. \A i \in DOMAIN c.outbox : c.outbox[i].type = "action_progress" => NoReply.id # c.outbox[i].id
      BY ConnectionParts, FrameParts DEF NoReply
    <3> QED  BY <1>1, <1>2, <3>1 DEF ReportsInOrder
  <2> QED  BY <1>4, <2>1, <2>2, <2>3 DEF Talks
<1> QED  BY <1>1, <1>3, <1>4 DEF d

(* A write appends to the outbox of a peer, and ends the task without one.  *)
Adds(c, d, f) ==
    /\ d \in Connections /\ d.peer = c.peer /\ d.shell = c.shell
    /\ c.peer =>
           /\ d.task = c.task /\ d.seen = c.seen /\ d.reply = c.reply /\ d.inbox = c.inbox
           /\ d.outbox = c.outbox \o f /\ Len(d.outbox) = Len(c.outbox) + Len(f)
           /\ DOMAIN d.outbox = 1..(Len(c.outbox) + Len(f))
           /\ \A i \in 1..Len(c.outbox) : d.outbox[i] = c.outbox[i]
           /\ \A i \in 1..Len(f) : d.outbox[Len(c.outbox) + i] = f[i]

(* Which is what Written does.                                              *)
LEMMA OnWrite ==
  ASSUME NEW c \in Connections, NEW f \in Seq(Frames)
  PROVE  Adds(c, Written(c, f), f)
<1> DEFINE d == Written(c, f)
<1>1. CASE ~c.peer
  <2>1. d = Closed(c)  BY <1>1 DEF Written
  <2> QED  BY <1>1, <2>1, Closing DEF Adds
<1>2. CASE c.peer
  <2> DEFINE y == c.outbox \o f
  <2>1. c.outbox \in Seq(Frames)  BY ConnectionParts
  <2>2. /\ y \in Seq(Frames) /\ Len(y) = Len(c.outbox) + Len(f)
        /\ \A i \in 1..Len(c.outbox) : y[i] = c.outbox[i]
        /\ \A i \in 1..Len(f) : y[Len(c.outbox) + i] = f[i]
        /\ DOMAIN y = 1..Len(y)
    BY <2>1
  <2> HIDE DEF y
  <2>3. d = [c EXCEPT !.outbox = y]  BY <1>2 DEF Written, y
  <2>4. /\ d \in Connections /\ d.task = c.task /\ d.seen = c.seen /\ d.reply = c.reply
        /\ d.peer = c.peer /\ d.shell = c.shell /\ d.inbox = c.inbox /\ d.outbox = y
    BY <2>2, <2>3, OtherOutbox
  <2> HIDE DEF d
  <2>5. d.outbox = c.outbox \o f  BY <2>4 DEF y
  <2>6. Adds(c, d, f)  BY <2>2, <2>4, <2>5 DEF Adds
  <2> QED  BY <2>6 DEF d
<1> QED  BY <1>1, <1>2

(* The line that is read is the first.                                      *)
LEMMA Taking ==
  ASSUME NEW c \in Connections, c.inbox # <<>>
  PROVE  LET x == Tail(c.inbox)
             n == Len(c.inbox)
         IN  /\ n \in Nat \ {0} /\ 1 \in DOMAIN c.inbox /\ Head(c.inbox) = c.inbox[1]
             /\ c.inbox[1] \in Lines /\ x \in Seq(Lines) /\ Len(x) = n - 1 /\ DOMAIN x = 1..(n - 1)
             /\ \A i \in 1..(n - 1) : i + 1 \in DOMAIN c.inbox /\ x[i] = c.inbox[i + 1]
<1> DEFINE x == Tail(c.inbox)
           n == Len(c.inbox)
<1>1. /\ c.inbox \in Seq(Lines) /\ n \in Nat /\ DOMAIN c.inbox = 1..n
      /\ \A i \in DOMAIN c.inbox : c.inbox[i] \in Lines
  BY ConnectionParts
<1>2. /\ x \in Seq(Lines) /\ Len(x) = n - 1 /\ n \in Nat \ {0}
      /\ \A i \in 1..(n - 1) : x[i] = c.inbox[i + 1]
      /\ DOMAIN x = 1..(n - 1)
  BY <1>1, HeadTailProperties
<1>3. Head(c.inbox) = c.inbox[1]  BY <1>1, <1>2
<1> HIDE DEF x, n
<1>4. 1 \in DOMAIN c.inbox /\ \A i \in 1..(n - 1) : i + 1 \in DOMAIN c.inbox
  BY <1>1, <1>2
<1> QED  BY <1>1, <1>2, <1>3, <1>4 DEF x, n

(* The panel requests after it are in order, and after it if it is one.     *)
LEMMA InOrderTaken ==
  ASSUME NEW u, NEW c \in Connections, c.inbox # <<>>, NEW last,
         InOrder(u, c.shell, c.inbox, last)
  PROVE  LET m == c.inbox[1]
         IN  /\ InOrder(u, c.shell, Tail(c.inbox), last)
             /\ IsPanel(m) =>
                    /\ m.session[1] = c.shell /\ Made(u, m)
                    /\ NotEarlier(m, last) \/ last.session[1] > c.shell
                    /\ InOrder(u, c.shell, Tail(c.inbox), [session |-> m.session, id |-> m.id])
<1> DEFINE x == Tail(c.inbox)
           n == Len(c.inbox)
           m == c.inbox[1]
           a == [session |-> m.session, id |-> m.id]
<1>1. /\ n \in Nat \ {0} /\ 1 \in DOMAIN c.inbox /\ DOMAIN x = 1..(n - 1)
      /\ \A i \in 1..(n - 1) : i + 1 \in DOMAIN c.inbox /\ x[i] = c.inbox[i + 1]
  BY Taking
<1>2. a.session = m.session /\ a.id = m.id  OBVIOUS
<1> HIDE DEF x, n, a
<1>3. ASSUME NEW i \in DOMAIN x, IsPanel(x[i])
      PROVE  /\ x[i].session[1] = c.shell /\ Made(u, x[i])
             /\ NotEarlier(x[i], last) \/ last.session[1] > c.shell
             /\ \A j \in 1..(i - 1) : IsPanel(x[j]) => NotEarlier(x[i], x[j])
             /\ IsPanel(m) => NotEarlier(x[i], m)
  <2>1. i \in Nat /\ i + 1 \in DOMAIN c.inbox /\ x[i] = c.inbox[i + 1]  BY <1>1
  <2>2. /\ x[i].session[1] = c.shell /\ Made(u, x[i])
        /\ NotEarlier(x[i], last) \/ last.session[1] > c.shell
        /\ \A j \in 1..((i + 1) - 1) : IsPanel(c.inbox[j]) => NotEarlier(x[i], c.inbox[j])
    BY <1>3, <2>1 DEF InOrder
  <2>3. \A j \in 1..(i - 1) : j + 1 \in 1..((i + 1) - 1) /\ x[j] = c.inbox[j + 1]
    BY <1>1, <2>1
  <2>4. 1 \in 1..((i + 1) - 1)  BY <1>1
  <2> QED  BY <2>2, <2>3, <2>4
<1>4. InOrder(u, c.shell, x, last)  BY <1>3 DEF InOrder
<1>5. ASSUME IsPanel(m)
      PROVE  /\ m.session[1] = c.shell /\ Made(u, m) /\ InOrder(u, c.shell, x, a)
             /\ NotEarlier(m, last) \/ last.session[1] > c.shell
  <2>1. /\ m.session[1] = c.shell /\ Made(u, m)
        /\ NotEarlier(m, last) \/ last.session[1] > c.shell
    BY <1>1, <1>5 DEF InOrder
  <2>2. \A y : NotEarlier(y, m) => NotEarlier(y, a)  BY <1>2 DEF NotEarlier
  <2> QED  BY <1>3, <1>5, <2>1, <2>2 DEF InOrder
<1> QED  BY <1>4, <1>5 DEF x, a

(* A step of a task, or of a peer that is not the frontend.                 *)
LEMMA ServedAt ==
  ASSUME DisplayKept, NEW k \in DOMAIN conn, NEW c \in Connections,
         conn' = [conn EXCEPT ![k] = c], UNCHANGED <<stream, up, published, ui, attached>>,
         popup' \in BOOLEAN, budget' \in [Spendable -> Nat],
         ~up => c.task = "closed", c.peer => conn[k].peer, c.shell = conn[k].shell,
         c.peer /\ c.shell = 0 => Stranger(c),
         c.peer /\ c.shell # 0 => InOrder(ui, c.shell, c.inbox, applied'),
         applied' = applied \/ (conn[k].peer /\ c.shell # 0 /\ applied'.session[1] = c.shell),
         k = attached /\ ui.bridge = "running" => c.peer /\ Talks(ui, c),
         applied' \in [session : Sessions, id : Nat], applied'.session # <<0, 1>>, Made(ui, applied')
  PROVE  DisplayKept' /\ ui' = ui
<1>1. /\ Kept(ui) /\ ui.lines = <<>> /\ published \in 1..MaxPublications
      /\ ui.bridge # "off" => attached # 0
      /\ attached # 0 /\ conn[attached].peer => ui.bridge # "off"
      /\ DOMAIN conn = 1..Len(conn) /\ Len(conn) \in Nat
  BY StateParts
<1>2. k # 0  BY <1>1
<1>3. ui' = ui /\ stream' = stream /\ up' = up /\ attached' = attached /\ published' = published
  OBVIOUS
<1>4. RequestsKept(ui') /\ ServiceKept(ui') /\ ui'.lines = <<>>  BY <1>1, <1>3 DEF Kept
<1>5. k = attached /\ c.peer => ui'.bridge # "off"
  BY <1>1, <1>2, <1>3
<1>6. k = attached /\ ui'.bridge = "running" => c.peer /\ Talks(ui', c)  BY <1>3
<1>7. Made(ui', applied')  BY <1>3
<1>8. published' \in 1..MaxPublications /\ (ui'.bridge # "off" => ui.bridge # "off")  BY <1>1, <1>3
<1>9. ui'.session[1] = ui.session[1] /\ (c.peer /\ c.shell # 0 => InOrder(ui', c.shell, c.inbox, applied'))
  BY <1>3
<1>10. DisplayKept'
  BY <1>3, <1>4, <1>5, <1>6, <1>7, <1>8, <1>9, StepAt
<1> QED  BY <1>3, <1>10

(* When the runtime is not told anything.                                   *)
LEMMA ServedQuietly ==
  ASSUME DisplayKept, up, NEW k \in DOMAIN conn, NEW c \in Connections,
         conn' = [conn EXCEPT ![k] = c], UNCHANGED <<stream, up, published, ui, attached>>,
         popup' = popup, applied' = applied, budget' \in [Spendable -> Nat],
         c.peer = conn[k].peer /\ c.shell = conn[k].shell,
         c.peer /\ c.shell = 0 => Stranger(c),
         k = attached /\ ui.bridge = "running" => Talks(ui, c),
         c.peer /\ c.shell # 0 => InOrder(ui, c.shell, c.inbox, applied)
  PROVE  DisplayKept' /\ ui' = ui
<1>1. /\ popup \in BOOLEAN /\ (ui.bridge = "running" => conn[attached].peer)
      /\ applied \in [session : Sessions, id : Nat] /\ applied.session # <<0, 1>> /\ Made(ui, applied)
  BY StateParts
<1>2. Made(ui, applied')  BY <1>1
<1> QED  BY <1>1, <1>2, ServedAt

(* What the invariant says of one connection whose task runs.               *)
LEMMA AtConnection ==
  ASSUME DisplayKept, NEW k \in DOMAIN conn
  PROVE  /\ conn[k] \in Connections /\ budget \in [Spendable -> Nat]
         /\ conn[k].peer /\ conn[k].shell = 0 => Stranger(conn[k])
         /\ k = attached /\ ui.bridge = "running" => Talks(ui, conn[k])
         /\ conn[k].peer /\ conn[k].shell # 0 => InOrder(ui, conn[k].shell, conn[k].inbox, applied)
<1>1. /\ \A i \in DOMAIN conn : conn[i] \in Connections
      /\ DOMAIN conn = 1..Len(conn) /\ Len(conn) \in Nat /\ budget \in [Spendable -> Nat]
      /\ ui.bridge = "running" => Talks(ui, conn[attached])
  BY StateParts
<1>2. k # 0  BY <1>1
<1> QED  BY <1>1, <1>2, ShellParts

(* A task ends.                                                             *)
LEMMA CloseKeeps ==
  ASSUME DisplayKept, up, NEW k \in DOMAIN conn, conn' = [conn EXCEPT ![k] = Closed(@)],
         UNCHANGED <<stream, up, published, popup, ui, applied, budget, attached>>
  PROVE  DisplayKept' /\ ui' = ui
<1> DEFINE c == Closed(conn[k])
<1>1. /\ conn[k] \in Connections /\ budget \in [Spendable -> Nat]
      /\ k = attached /\ ui.bridge = "running" => Talks(ui, conn[k])
  BY AtConnection
<1>2. /\ c \in Connections /\ c.peer = conn[k].peer /\ c.shell = conn[k].shell /\ Stranger(c)
      /\ \A u, h, a : InOrder(u, h, c.inbox, a)
      /\ \A u : Talks(u, conn[k]) => Talks(u, c)
  BY <1>1, Closing
<1>3. conn' = [conn EXCEPT ![k] = c]  OBVIOUS
<1> HIDE DEF c
<1>4. k = attached /\ ui.bridge = "running" => Talks(ui, c)  BY <1>1, <1>2
<1>5. InOrder(ui, c.shell, c.inbox, applied)  BY <1>2
<1> QED  BY <1>1, <1>2, <1>3, <1>4, <1>5, ServedQuietly

(* The peer of a task has gone: whatever it does.                           *)
LEMMA AloneKeeps ==
  ASSUME DisplayKept, up, NEW k \in DOMAIN conn, NEW c \in Connections, conn' = [conn EXCEPT ![k] = c],
         ~conn[k].peer, ~c.peer, c.shell = conn[k].shell,
         UNCHANGED <<stream, up, published, popup, ui, applied, budget, attached>>
  PROVE  DisplayKept' /\ ui' = ui
<1>1. /\ popup \in BOOLEAN /\ (ui.bridge = "running" => conn[attached].peer)
      /\ applied \in [session : Sessions, id : Nat] /\ applied.session # <<0, 1>> /\ Made(ui, applied)
      /\ budget \in [Spendable -> Nat]
  BY StateParts
<1>2. Made(ui, applied')  BY <1>1
<1> QED  BY <1>1, <1>2, ServedAt

(* The listener takes a connection.                                         *)
LEMMA AcceptKeeps ==
  ASSUME DisplayKept, NEW k \in DOMAIN conn, Accept(k)
  PROVE  DisplayKept' /\ ui' = ui
<1> DEFINE b == conn[k]
           c == [b EXCEPT !.task = "accepted", !.seen = published]
<1>1. /\ b \in Connections /\ budget \in [Spendable -> Nat]
      /\ b.peer /\ b.shell = 0 => Stranger(b)
      /\ k = attached /\ ui.bridge = "running" => Talks(ui, b)
      /\ b.peer /\ b.shell # 0 => InOrder(ui, b.shell, b.inbox, applied)
  BY AtConnection
<1>2. /\ up /\ b.task = "pending"
      /\ UNCHANGED <<stream, up, published, popup, ui, applied, budget, attached>>
  BY DEF Accept
<1>3. conn' = [conn EXCEPT ![k] = c]  BY DEF Accept
<1>4. published \in Nat  BY StateParts
<1>5. /\ c \in Connections /\ c.task = "accepted" /\ c.reply = b.reply /\ c.peer = b.peer /\ c.shell = b.shell
      /\ c.inbox = b.inbox /\ c.outbox = b.outbox
  BY <1>1, <1>4 DEF Connections
<1> HIDE DEF b, c
<1>6. Stranger(b) => Stranger(c)  BY <1>2, <1>5 DEF Stranger
<1>7. Talks(ui, b) => Talks(ui, c)
  <2>1. AwaitsHello(b) => AwaitsHello(c)  BY <1>2, <1>5 DEF AwaitsHello
  <2>2. ~Greeted(ui, b)  BY <1>2 DEF Greeted
  <2>3. ui.phase \in {"awaiting_hello", "ready"}  BY StateParts DEF Kept, ServiceKept
  <2> QED  BY <2>1, <2>2, <2>3 DEF Talks
<1> QED  BY <1>1, <1>2, <1>3, <1>5, <1>6, <1>7, ServedQuietly DEF b

(* Another client leaves, or the bridge of a shell that is gone.           *)
LEMMA LeaveKeeps ==
  ASSUME DisplayKept, NEW k \in DOMAIN conn, Leave(k)
  PROVE  DisplayKept' /\ ui' = ui
<1> DEFINE b == conn[k]
<1>1. b \in Connections  BY AtConnection
<1>2. PICK n \in 0..Len(b.inbox) :
          conn' = [conn EXCEPT ![k].peer = FALSE, ![k].outbox = <<>>, ![k].inbox = SubSeq(@, 1, n)]
  BY DEF Leave
<1> DEFINE x == SubSeq(b.inbox, 1, n)
           c == [b EXCEPT !.peer = FALSE, !.outbox = <<>>, !.inbox = x]
<1>3. /\ k # attached
      /\ UNCHANGED <<stream, up, published, popup, ui, applied, budget, attached>>
  BY DEF Leave
<1>4. conn' = [conn EXCEPT ![k] = c]  BY <1>2
<1>5. x \in Seq(Lines)
  <2>1. b.inbox \in Seq(Lines) /\ Len(b.inbox) \in Nat  BY <1>1, ConnectionParts
  <2>2. \A i \in 1..n : b.inbox[i] \in Lines  BY <2>1
  <2> QED  BY <2>1, <2>2, SubSeqProperties
<1> HIDE DEF x
<1>6. c \in Connections /\ c.task = b.task /\ ~c.peer /\ c.shell = b.shell
  <2>1. <<>> \in Seq(Frames)  OBVIOUS
  <2> QED  BY <1>1, <1>5, <2>1 DEF Connections
<1>7. ~up => b.task = "closed"  BY DEF DisplayKept, ConnectionsKept
<1> HIDE DEF b, c
<1>8. /\ popup \in BOOLEAN /\ budget \in [Spendable -> Nat]
      /\ applied \in [session : Sessions, id : Nat] /\ applied.session # <<0, 1>> /\ Made(ui, applied)
  BY StateParts
<1>9. Made(ui, applied')  BY <1>3, <1>8
<1> QED  BY <1>3, <1>4, <1>6, <1>7, <1>8, <1>9, ServedAt DEF b

(* The reports after a line that is taken and asks for nothing.             *)
LEMMA ReportsTaken ==
  ASSUME NEW u, NEW b \in Connections, NEW c, b.inbox # <<>>, ReportsInOrder(u, b),
         c.inbox = Tail(b.inbox), c.reply = b.reply, c.outbox = b.outbox
  PROVE  ReportsInOrder(u, c)
<1> DEFINE n == Len(b.inbox)
<1>1. /\ n \in Nat \ {0} /\ DOMAIN c.inbox = 1..(n - 1)
      /\ \A i \in 1..(n - 1) : i + 1 \in DOMAIN b.inbox /\ c.inbox[i] = b.inbox[i + 1]
  BY Taking
<1> HIDE DEF n
<1>2. \A i \in DOMAIN c.inbox : c.inbox[i].type = "action" =>
           /\ Open(u, c.inbox[i].id)
           /\ c.reply.id # c.inbox[i].id
           /\ \A j \in DOMAIN c.inbox :
                  c.inbox[j].type = "action" /\ c.inbox[j].id = c.inbox[i].id => i = j
           /\ \A j \in DOMAIN c.outbox :
                  c.outbox[j].type = "action_progress" => c.outbox[j].id # c.inbox[i].id
  <2> TAKE i \in DOMAIN c.inbox
  <2> HAVE c.inbox[i].type = "action"
  <2>1. i \in Nat /\ i + 1 \in DOMAIN b.inbox /\ c.inbox[i] = b.inbox[i + 1]  BY <1>1
  <2>2. /\ Open(u, b.inbox[i + 1].id) /\ b.reply.id # b.inbox[i + 1].id
        /\ \A j \in DOMAIN b.inbox :
               b.inbox[j].type = "action" /\ b.inbox[j].id = b.inbox[i + 1].id => i + 1 = j
        /\ \A j \in DOMAIN b.outbox :
               b.outbox[j].type = "action_progress" => b.outbox[j].id # b.inbox[i + 1].id
    BY <2>1 DEF ReportsInOrder
  <2>3. \A j \in DOMAIN c.inbox : j \in Nat /\ j + 1 \in DOMAIN b.inbox /\ c.inbox[j] = b.inbox[j + 1]
                                  /\ (i + 1 = j + 1 => i = j)
    BY <1>1
  <2> QED  BY <2>1, <2>2, <2>3
<1> QED  BY <1>2 DEF ReportsInOrder

(* A frame is written that reports nothing.                                 *)
LEMMA ReportsBeside ==
  ASSUME NEW u, NEW b \in Connections, NEW c, NEW f, f.type # "action_progress", ReportsInOrder(u, b),
         c.inbox = b.inbox, c.reply = b.reply, DOMAIN c.outbox = 1..(Len(b.outbox) + 1),
         Len(c.outbox) = Len(b.outbox) + 1,
         \A i \in 1..Len(b.outbox) : c.outbox[i] = b.outbox[i], c.outbox[Len(b.outbox) + 1] = f
  PROVE  ReportsInOrder(u, c)
<1> DEFINE n == Len(b.outbox)
<1>1. n \in Nat /\ DOMAIN b.outbox = 1..n  BY ConnectionParts
<1>2. \A i \in 1..n : c.outbox[i] = b.outbox[i]  OBVIOUS
<1>3. DOMAIN c.outbox = 1..(n + 1) /\ Len(c.outbox) = n + 1 /\ c.outbox[n + 1] = f  OBVIOUS
<1>4. \A i \in DOMAIN b.outbox : b.outbox[i].type = "action_progress" =>
           /\ Open(u, b.outbox[i].id)
           /\ b.outbox[i].state \in Terminal =>
                  /\ b.reply.id # b.outbox[i].id
                  /\ \A j \in (i + 1)..n :
                         b.outbox[j].type = "action_progress" => b.outbox[j].id # b.outbox[i].id
  BY DEF ReportsInOrder
<1> HIDE DEF n
<1>5. \A i \in DOMAIN c.outbox : c.outbox[i].type = "action_progress" =>
          i \in DOMAIN b.outbox /\ c.outbox[i] = b.outbox[i]
  BY <1>1, <1>2, <1>3
<1>6. \A i \in DOMAIN c.outbox : c.outbox[i].type = "action_progress" =>
           /\ Open(u, c.outbox[i].id)
           /\ c.outbox[i].state \in Terminal =>
                  /\ c.reply.id # c.outbox[i].id
                  /\ \A j \in (i + 1)..Len(c.outbox) :
                         c.outbox[j].type = "action_progress" => c.outbox[j].id # c.outbox[i].id
  <2> TAKE i \in DOMAIN c.outbox
  <2> HAVE c.outbox[i].type = "action_progress"
  <2>1. i \in DOMAIN b.outbox /\ c.outbox[i] = b.outbox[i]  BY <1>5
  <2>2. \A j \in (i + 1)..Len(c.outbox) : c.outbox[j].type = "action_progress" =>
            j \in (i + 1)..n /\ c.outbox[j] = b.outbox[j]
    BY <1>1, <1>2, <1>3, <2>1
  <2> QED  BY <1>4, <2>1, <2>2
<1> QED  BY <1>5, <1>6 DEF ReportsInOrder

(* The answer to a request is written: it was to be reported, and now is.   *)
LEMMA ReportsAnswered ==
  ASSUME NEW u, NEW b \in Connections, NEW c, ReportsInOrder(u, b), b.reply # NoReply,
         c.inbox = b.inbox, c.reply = NoReply, DOMAIN c.outbox = 1..(Len(b.outbox) + 1),
         Len(c.outbox) = Len(b.outbox) + 1,
         \A i \in 1..Len(b.outbox) : c.outbox[i] = b.outbox[i], c.outbox[Len(b.outbox) + 1] = b.reply
  PROVE  ReportsInOrder(u, c)
<1> DEFINE n == Len(b.outbox)
           r == b.reply
<1>1. /\ n \in Nat /\ DOMAIN b.outbox = 1..n
      /\ \A i \in DOMAIN b.inbox : b.inbox[i] \in Lines
      /\ \A i \in DOMAIN b.outbox : b.outbox[i] \in Frames
  BY ConnectionParts
<1>2. \A i \in 1..n : c.outbox[i] = b.outbox[i]  OBVIOUS
<1>3. DOMAIN c.outbox = 1..(n + 1) /\ Len(c.outbox) = n + 1 /\ c.outbox[n + 1] = r  OBVIOUS
<1>4. /\ \A i \in DOMAIN b.inbox : b.inbox[i].type = "action" =>
           /\ Open(u, b.inbox[i].id)
           /\ r.id # b.inbox[i].id
           /\ \A j \in DOMAIN b.inbox :
                  b.inbox[j].type = "action" /\ b.inbox[j].id = b.inbox[i].id => i = j
           /\ \A j \in DOMAIN b.outbox :
                  b.outbox[j].type = "action_progress" => b.outbox[j].id # b.inbox[i].id
      /\ Open(u, r.id)
      /\ \A i \in DOMAIN b.outbox : b.outbox[i].type = "action_progress" =>
           /\ Open(u, b.outbox[i].id)
           /\ b.outbox[i].state \in Terminal =>
                  /\ r.id # b.outbox[i].id
                  /\ \A j \in (i + 1)..n :
                         b.outbox[j].type = "action_progress" => b.outbox[j].id # b.outbox[i].id
  BY DEF ReportsInOrder
<1>5. c.inbox = b.inbox /\ c.reply.id = 0 /\ c.reply = NoReply  BY DEF NoReply
<1>6. \A i \in DOMAIN b.inbox : b.inbox[i].type = "action" => b.inbox[i].id # 0
  BY <1>1, LineParts
<1> HIDE DEF n, r
<1>7. \A i \in DOMAIN c.outbox : (i = n + 1 /\ c.outbox[i] = r) \/ (i \in DOMAIN b.outbox /\ c.outbox[i] = b.outbox[i])
  BY <1>1, <1>2, <1>3
<1>8. \A i \in DOMAIN c.outbox : c.outbox[i].type = "action_progress" =>
           /\ Open(u, c.outbox[i].id)
           /\ c.outbox[i].state \in Terminal =>
                  /\ c.reply.id # c.outbox[i].id
                  /\ \A j \in (i + 1)..Len(c.outbox) :
                         c.outbox[j].type = "action_progress" => c.outbox[j].id # c.outbox[i].id
  <2> TAKE i \in DOMAIN c.outbox
  <2> HAVE c.outbox[i].type = "action_progress"
  <2>1. Open(u, c.outbox[i].id)  BY <1>4, <1>7
  <2>2. c.reply.id # c.outbox[i].id
    <3>1. r.id # 0
      <4>1. r \in Reports  BY ConnectionParts DEF r
      <4> QED  BY <4>1 DEF Reports
    <3>2. \A j \in DOMAIN b.outbox : b.outbox[j].type = "action_progress" => b.outbox[j].id # 0
      BY <1>1, FrameParts
    <3> QED  BY <1>5, <1>7, <3>1, <3>2
  <2>3. ASSUME c.outbox[i].state \in Terminal, NEW j \in (i + 1)..Len(c.outbox),
               c.outbox[j].type = "action_progress"
        PROVE  c.outbox[j].id # c.outbox[i].id
    <3>1. i \in DOMAIN b.outbox /\ c.outbox[i] = b.outbox[i]  BY <1>1, <1>2, <1>3, <2>3
    <3>2. (j = n + 1 /\ c.outbox[j] = r) \/ (j \in (i + 1)..n /\ c.outbox[j] = b.outbox[j])
      BY <1>1, <1>2, <1>3, <2>3, <3>1
    <3> QED  BY <1>4, <2>3, <3>1, <3>2
  <2> QED  BY <2>1, <2>2, <2>3
<1>9. \A i \in DOMAIN c.inbox : c.inbox[i].type = "action" =>
           /\ Open(u, c.inbox[i].id)
           /\ c.reply.id # c.inbox[i].id
           /\ \A j \in DOMAIN c.inbox :
                  c.inbox[j].type = "action" /\ c.inbox[j].id = c.inbox[i].id => i = j
           /\ \A j \in DOMAIN c.outbox :
                  c.outbox[j].type = "action_progress" => c.outbox[j].id # c.inbox[i].id
  BY <1>4, <1>5, <1>6, <1>7
<1> QED  BY <1>5, <1>8, <1>9 DEF ReportsInOrder

(* A request is taken: it is reported to run, and its end is to be reported.*)
LEMMA ReportsAsked ==
  ASSUME NEW u, NEW b \in Connections, NEW c, ReportsInOrder(u, b), b.reply = NoReply,
         b.inbox # <<>>, b.inbox[1].type = "action",
         NEW state \in {"completed", "failed"},
         c.inbox = Tail(b.inbox), c.reply = Progress(b.inbox[1].id, state),
         DOMAIN c.outbox = 1..(Len(b.outbox) + 1), Len(c.outbox) = Len(b.outbox) + 1,
         \A i \in 1..Len(b.outbox) : c.outbox[i] = b.outbox[i],
         c.outbox[Len(b.outbox) + 1] = Progress(b.inbox[1].id, "running")
  PROVE  ReportsInOrder(u, c)
<1> DEFINE n == Len(b.outbox)
           p == Len(b.inbox)
           id == b.inbox[1].id
           f == Progress(id, "running")
<1>1. n \in Nat /\ DOMAIN b.outbox = 1..n  BY ConnectionParts
<1>2. \A i \in 1..n : c.outbox[i] = b.outbox[i]  OBVIOUS
<1>3. DOMAIN c.outbox = 1..(n + 1) /\ Len(c.outbox) = n + 1 /\ c.outbox[n + 1] = f  OBVIOUS
<1>4. /\ p \in Nat \ {0} /\ DOMAIN c.inbox = 1..(p - 1) /\ 1 \in DOMAIN b.inbox
      /\ \A i \in 1..(p - 1) : i + 1 \in DOMAIN b.inbox /\ c.inbox[i] = b.inbox[i + 1]
  BY Taking
<1>5. f.id = id /\ f.state = "running" /\ f.state \notin Terminal  BY DEF Progress, Terminal
<1>6. c.reply.id = id /\ c.reply.state \in Terminal  BY DEF Progress, Terminal
<1>7. /\ Open(u, id)
      /\ \A j \in DOMAIN b.inbox : b.inbox[j].type = "action" /\ b.inbox[j].id = id => 1 = j
      /\ \A j \in DOMAIN b.outbox : b.outbox[j].type = "action_progress" => b.outbox[j].id # id
  BY <1>4 DEF ReportsInOrder
<1>8. \A i \in DOMAIN b.outbox : b.outbox[i].type = "action_progress" =>
           /\ Open(u, b.outbox[i].id)
           /\ b.outbox[i].state \in Terminal =>
                  \A j \in (i + 1)..n :
                         b.outbox[j].type = "action_progress" => b.outbox[j].id # b.outbox[i].id
  BY DEF ReportsInOrder
<1> HIDE DEF n, p, id, f
<1>9. \A i \in DOMAIN c.outbox : (i = n + 1 /\ c.outbox[i] = f) \/ (i \in DOMAIN b.outbox /\ c.outbox[i] = b.outbox[i])
  BY <1>1, <1>2, <1>3
<1>10. \A i \in DOMAIN c.outbox : c.outbox[i].type = "action_progress" =>
           /\ Open(u, c.outbox[i].id)
           /\ c.outbox[i].state \in Terminal =>
                  /\ c.reply.id # c.outbox[i].id
                  /\ \A j \in (i + 1)..Len(c.outbox) :
                         c.outbox[j].type = "action_progress" => c.outbox[j].id # c.outbox[i].id
  <2> TAKE i \in DOMAIN c.outbox
  <2> HAVE c.outbox[i].type = "action_progress"
  <2>1. Open(u, c.outbox[i].id)  BY <1>5, <1>7, <1>8, <1>9
  <2>2. ASSUME c.outbox[i].state \in Terminal
        PROVE  i \in DOMAIN b.outbox /\ c.outbox[i] = b.outbox[i] /\ c.outbox[i].id # id
    BY <1>5, <1>7, <1>9, <2>2
  <2>3. ASSUME c.outbox[i].state \in Terminal, NEW j \in (i + 1)..Len(c.outbox),
               c.outbox[j].type = "action_progress"
        PROVE  c.outbox[j].id # c.outbox[i].id
    <3>1. (j = n + 1 /\ c.outbox[j] = f) \/ (j \in (i + 1)..n /\ c.outbox[j] = b.outbox[j])
      BY <1>1, <1>2, <1>3, <2>2, <2>3
    <3> QED  BY <1>5, <1>8, <2>2, <2>3, <3>1
  <2> QED  BY <1>6, <2>1, <2>2, <2>3
<1>11. \A i \in DOMAIN c.inbox : c.inbox[i].type = "action" =>
           /\ Open(u, c.inbox[i].id)
           /\ c.reply.id # c.inbox[i].id
           /\ \A j \in DOMAIN c.inbox :
                  c.inbox[j].type = "action" /\ c.inbox[j].id = c.inbox[i].id => i = j
           /\ \A j \in DOMAIN c.outbox :
                  c.outbox[j].type = "action_progress" => c.outbox[j].id # c.inbox[i].id
  <2> TAKE i \in DOMAIN c.inbox
  <2> HAVE c.inbox[i].type = "action"
  <2>1. i \in Nat /\ i + 1 \in DOMAIN b.inbox /\ c.inbox[i] = b.inbox[i + 1] /\ i + 1 # 1  BY <1>4
  <2>2. /\ Open(u, b.inbox[i + 1].id)
        /\ \A j \in DOMAIN b.inbox :
               b.inbox[j].type = "action" /\ b.inbox[j].id = b.inbox[i + 1].id => i + 1 = j
        /\ \A j \in DOMAIN b.outbox :
               b.outbox[j].type = "action_progress" => b.outbox[j].id # b.inbox[i + 1].id
    BY <2>1 DEF ReportsInOrder
  <2>3. \A j \in DOMAIN c.inbox : j \in Nat /\ j + 1 \in DOMAIN b.inbox /\ c.inbox[j] = b.inbox[j + 1]
                                  /\ (i + 1 = j + 1 => i = j)
    BY <1>4
  <2>4. c.inbox[i].id # id  BY <1>7, <2>1
  <2> QED  BY <1>5, <1>6, <1>9, <2>1, <2>2, <2>3, <2>4
<1> QED  BY <1>6, <1>7, <1>10, <1>11 DEF ReportsInOrder, id

(* The frames of the daemon.                                                *)
LEMMA FramesMade ==
  ASSUME DisplayKept
  PROVE  /\ Hello \in Frames /\ Hello.type = "hello" /\ Hello.stream = stream
         /\ Snapshot \in Frames /\ Snapshot.type = "snapshot" /\ Snapshot.stream = stream
<1>1. stream \in Nat \ {0} /\ published \in Nat \ {0}  BY StateParts, ServerLimits
<1> QED  BY <1>1 DEF Hello, Snapshot, Frames

(* A client that is not the frontend is answered its first hello.           *)
LEMMA StrangerReads ==
  ASSUME NEW b \in Connections, Stranger(b), b.inbox # <<>>
  PROVE  /\ b.inbox[1].type \in {"hello", "action"}
         /\ b.inbox[1].type = "action" => b.task # "ready"
         /\ \A c : c.inbox = Tail(b.inbox) /\ b.inbox[1].type = "hello" => Stranger(c)
<1> DEFINE n == Len(b.inbox)
           x == Tail(b.inbox)
<1>1. /\ n \in Nat \ {0} /\ 1 \in DOMAIN b.inbox /\ DOMAIN x = 1..(n - 1)
      /\ \A i \in 1..(n - 1) : i + 1 \in DOMAIN b.inbox /\ x[i] = b.inbox[i + 1]
  BY Taking
<1> HIDE DEF n, x
<1>2. /\ b.inbox[1].type \in {"hello", "action"}
      /\ b.inbox[1].type = "action" => b.task # "ready"
  BY <1>1 DEF Stranger
<1>3. b.inbox[1].type = "hello" => \A i \in DOMAIN x : x[i].type = "hello"
  <2>1. b.inbox[1].type = "hello" => \A i \in DOMAIN b.inbox : b.inbox[i].type = "hello"
    BY <1>1 DEF Stranger
  <2> QED  BY <1>1, <2>1
<1> QED  BY <1>2, <1>3 DEF Stranger, x

(* The hello is answered.                                                   *)
LEMMA HelloKeeps ==
  ASSUME DisplayKept, NEW k \in DOMAIN conn, up, conn[k].inbox # <<>>, conn[k].reply = NoReply,
         Head(conn[k].inbox).type = "hello", ServeHello(k)
  PROVE  DisplayKept' /\ ui' = ui
<1> DEFINE b == conn[k]
           e == [Taken(b) EXCEPT !.task = "ready"]
           fs == <<Hello, Snapshot>>
           c == Written(e, fs)
<1>1. /\ b \in Connections /\ budget \in [Spendable -> Nat]
      /\ b.peer /\ b.shell = 0 => Stranger(b)
      /\ k = attached /\ ui.bridge = "running" => Talks(ui, b)
      /\ b.peer /\ b.shell # 0 => InOrder(ui, b.shell, b.inbox, applied)
  BY AtConnection
<1>2. UNCHANGED <<stream, up, published, popup, ui, applied, budget, attached>>
  BY DEF ServeHello
<1>3. conn' = [conn EXCEPT ![k] = c]  BY DEF ServeHello
<1>4. /\ b.inbox[1].type = "hello" /\ Tail(b.inbox) \in Seq(Lines) /\ 1 \in DOMAIN b.inbox
      /\ Len(Tail(b.inbox)) = Len(b.inbox) - 1
  BY <1>1, Taking
<1>5. /\ e \in Connections /\ e.task = "ready" /\ e.inbox = Tail(b.inbox) /\ e.reply = b.reply
      /\ e.peer = b.peer /\ e.shell = b.shell /\ e.outbox = b.outbox
  BY <1>1, <1>4 DEF Connections, Taken
<1>6. fs \in Seq(Frames) /\ Len(fs) = 2 /\ fs[1] = Hello /\ fs[2] = Snapshot
  <2>1. Hello \in Frames /\ Snapshot \in Frames  BY FramesMade
  <2> QED  BY <2>1
<1>10. Adds(e, c, fs)
  <2> HIDE DEF e, fs
  <2> QED  BY <1>5, <1>6, OnWrite
<1> HIDE DEF b, e, fs, c
<1>7. /\ c \in Connections /\ c.peer = e.peer /\ c.shell = e.shell
      /\ e.peer =>
             /\ c.task = e.task /\ c.reply = e.reply /\ c.inbox = e.inbox
             /\ c.outbox = e.outbox \o fs /\ Len(c.outbox) = Len(e.outbox) + 2
             /\ \A i \in 1..2 : c.outbox[Len(e.outbox) + i] = fs[i]
  BY <1>6, <1>10 DEF Adds
<1>8. CASE ~b.peer
  <2>1. ~c.peer /\ ~conn[k].peer /\ c.shell = conn[k].shell  BY <1>5, <1>7, <1>8 DEF b
  <2> QED  BY <1>2, <1>3, <1>7, <2>1, AloneKeeps
<1>9. CASE b.peer
  <2>1. Stranger(b) => Stranger(c)
    BY <1>1, <1>4, <1>5, <1>7, <1>9, StrangerReads DEF b
  <2>2. ASSUME InOrder(ui, b.shell, b.inbox, applied)
        PROVE  InOrder(ui, c.shell, c.inbox, applied)
    <3>1. b.inbox # <<>>  BY DEF b
    <3>2. InOrder(ui, b.shell, Tail(b.inbox), applied)  BY <1>1, <2>2, <3>1, InOrderTaken
    <3>3. c.shell = b.shell /\ c.inbox = Tail(b.inbox)  BY <1>5, <1>7, <1>9
    <3> QED  BY <3>2, <3>3
  <2>3. Talks(ui, b) => Talks(ui, c)
    <3>1. ui.phase \in {"awaiting_hello", "ready"}  BY StateParts DEF Kept, ServiceKept
    <3>2. ~Greeted(ui, b)  BY <1>4 DEF Greeted
    <3>3. ASSUME AwaitsHello(b)  PROVE AwaitsHello(c)
      <4>1. b.outbox = <<>> /\ Len(b.inbox) = 1 /\ b.reply = NoReply
        BY <3>3 DEF AwaitsHello, b
      <4>2. Len(e.outbox) = 0 /\ c.inbox = Tail(b.inbox) /\ c.task = "ready" /\ c.reply = NoReply
        BY <1>5, <1>7, <1>9, <4>1
      <4>3. Tail(b.inbox) = <<>>
        <5> DEFINE x == Tail(b.inbox)
        <5>1. x \in Seq(Lines) /\ Len(x) = 0  BY <1>4, <4>1
        <5> HIDE DEF x
        <5>2. x = <<>>  BY <5>1, EmptySeq
        <5> QED  BY <5>2 DEF x
      <4>4. Len(c.outbox) = 2 /\ c.outbox[1] = Hello /\ c.outbox[2] = Snapshot
        <5>1. \A i \in 1..2 : c.outbox[0 + i] = fs[i]  BY <1>5, <1>7, <1>9, <4>2
        <5> QED  BY <1>5, <1>6, <1>7, <1>9, <4>2, <5>1
      <4>5. c.outbox # <<>>
        <5>1. Len(<<>>) = 0  OBVIOUS
        <5> QED  BY <4>4, <5>1
      <4>6. /\ Hello.type = "hello" /\ Hello.stream = stream
            /\ Snapshot.type = "snapshot" /\ Snapshot.stream = stream
        BY FramesMade
      <4>7. \A i \in 2..Len(c.outbox) : i = 2  BY <4>4
      <4> QED  BY <4>2, <4>3, <4>4, <4>5, <4>6, <4>7 DEF AwaitsHello
    <3> QED  BY <3>1, <3>2, <3>3 DEF Talks
  <2>4. c.peer = conn[k].peer /\ c.shell = conn[k].shell  BY <1>5, <1>7 DEF b
  <2>5. /\ c.peer /\ c.shell = 0 => Stranger(c)
        /\ k = attached /\ ui.bridge = "running" => Talks(ui, c)
        /\ c.peer /\ c.shell # 0 => InOrder(ui, c.shell, c.inbox, applied)
    BY <1>1, <1>5, <1>7, <1>9, <2>1, <2>2, <2>3
  <2> QED  BY <1>1, <1>2, <1>3, <1>7, <2>4, <2>5, ServedQuietly
<1> QED  BY <1>8, <1>9

(* A snapshot is acknowledged: only the frontend does.                      *)
LEMMA AckKeeps ==
  ASSUME DisplayKept, NEW k \in DOMAIN conn, up, conn[k].inbox # <<>>,
         Head(conn[k].inbox).type = "snapshot_ack", ServeAck(k)
  PROVE  DisplayKept' /\ ui' = ui
<1> DEFINE b == conn[k]
           c == Taken(b)
<1>1. /\ b \in Connections /\ budget \in [Spendable -> Nat]
      /\ b.peer /\ b.shell = 0 => Stranger(b)
      /\ k = attached /\ ui.bridge = "running" => Talks(ui, b)
      /\ b.peer /\ b.shell # 0 => InOrder(ui, b.shell, b.inbox, applied)
  BY AtConnection
<1>2. UNCHANGED <<stream, up, published, popup, ui, applied, budget, attached>>
  BY DEF ServeAck
<1>3. conn' = [conn EXCEPT ![k] = c]  BY DEF ServeAck
<1>4. /\ b.inbox[1].type = "snapshot_ack" /\ Tail(b.inbox) \in Seq(Lines) /\ 1 \in DOMAIN b.inbox
      /\ \A i \in DOMAIN Tail(b.inbox) : i + 1 \in DOMAIN b.inbox /\ Tail(b.inbox)[i] = b.inbox[i + 1]
  BY <1>1, Taking
<1>5. /\ c \in Connections /\ c.task = b.task /\ c.inbox = Tail(b.inbox) /\ c.reply = b.reply
      /\ c.peer = b.peer /\ c.shell = b.shell /\ c.outbox = b.outbox
  BY <1>1, <1>4 DEF Connections, Taken
<1> HIDE DEF b, c
<1>6. ~Stranger(b)  BY <1>1, <1>4, StrangerReads DEF b
<1>7. InOrder(ui, b.shell, b.inbox, applied) => InOrder(ui, c.shell, c.inbox, applied)
  BY <1>1, <1>5, InOrderTaken DEF b
<1>8. Talks(ui, b) => Talks(ui, c)
  <2>1. ui.phase \in {"awaiting_hello", "ready"}  BY StateParts DEF Kept, ServiceKept
  <2>2. ~AwaitsHello(b)  BY <1>4 DEF AwaitsHello, b
  <2>3. Greeted(ui, b) => Greeted(ui, c)  BY <1>4, <1>5 DEF Greeted
  <2>4. ReportsInOrder(ui, b) => ReportsInOrder(ui, c)  BY <1>1, <1>5, ReportsTaken DEF b
  <2> QED  BY <2>1, <2>2, <2>3, <2>4 DEF Talks
<1>9. c.peer = conn[k].peer /\ c.shell = conn[k].shell  BY <1>5 DEF b
<1>10. /\ c.peer /\ c.shell = 0 => Stranger(c)
       /\ k = attached /\ ui.bridge = "running" => Talks(ui, c)
       /\ c.peer /\ c.shell # 0 => InOrder(ui, c.shell, c.inbox, applied)
  BY <1>1, <1>5, <1>6, <1>7, <1>8
<1> QED  BY <1>1, <1>2, <1>3, <1>5, <1>9, <1>10, ServedQuietly

(* A request is taken and reported to run.                                  *)
Asked(b, c, state) ==
    /\ c \in Connections /\ c.peer = b.peer /\ c.shell = b.shell
    /\ b.peer =>
           /\ c.task = b.task /\ c.inbox = Tail(b.inbox) /\ c.reply = Progress(b.inbox[1].id, state)
           /\ DOMAIN c.outbox = 1..(Len(b.outbox) + 1) /\ Len(c.outbox) = Len(b.outbox) + 1
           /\ \A i \in 1..Len(b.outbox) : c.outbox[i] = b.outbox[i]
           /\ c.outbox[Len(b.outbox) + 1] = Progress(b.inbox[1].id, "running")

(* Which is what a task does with a request it takes.                       *)
LEMMA OnAsk ==
  ASSUME NEW b \in Connections, b.inbox # <<>>, b.inbox[1].type = "action",
         NEW state \in {"completed", "failed"}
  PROVE  Asked(b, Written([Taken(b) EXCEPT !.reply = Progress(b.inbox[1].id, state)],
                          <<Progress(b.inbox[1].id, "running")>>), state)
<1> DEFINE id == b.inbox[1].id
           r == Progress(id, state)
           f == Progress(id, "running")
           e == [Taken(b) EXCEPT !.reply = r]
           fs == <<f>>
           c == Written(e, fs)
<1>1. b.inbox[1] \in Lines /\ Tail(b.inbox) \in Seq(Lines)  BY Taking
<1>2. id \in Nat \ {0}  BY <1>1, LineParts
<1>3. r \in Reports /\ f \in Frames
  <2> HIDE DEF id
  <2> QED  BY <1>2 DEF Progress, Reports, Frames
<1> HIDE DEF id, r, f
<1>4. /\ e \in Connections /\ e.task = b.task /\ e.reply = r /\ e.inbox = Tail(b.inbox)
      /\ e.peer = b.peer /\ e.shell = b.shell /\ e.outbox = b.outbox
  BY <1>1, <1>3 DEF Connections, Taken
<1>5. fs \in Seq(Frames) /\ Len(fs) = 1 /\ fs[1] = f  BY <1>3
<1> HIDE DEF e, fs
<1>6. Adds(e, c, fs)  BY <1>4, <1>5, OnWrite
<1> HIDE DEF c
<1>7. c \in Connections /\ c.peer = b.peer /\ c.shell = b.shell  BY <1>4, <1>6 DEF Adds
<1>8. ASSUME b.peer
      PROVE  /\ c.task = b.task /\ c.inbox = Tail(b.inbox) /\ c.reply = r
             /\ DOMAIN c.outbox = 1..(Len(b.outbox) + 1) /\ Len(c.outbox) = Len(b.outbox) + 1
             /\ \A i \in 1..Len(b.outbox) : c.outbox[i] = b.outbox[i]
             /\ c.outbox[Len(b.outbox) + 1] = f
  <2>1. /\ c.task = e.task /\ c.reply = e.reply /\ c.inbox = e.inbox
        /\ Len(c.outbox) = Len(e.outbox) + Len(fs)
        /\ DOMAIN c.outbox = 1..(Len(e.outbox) + Len(fs))
        /\ \A i \in 1..Len(e.outbox) : c.outbox[i] = e.outbox[i]
        /\ \A i \in 1..Len(fs) : c.outbox[Len(e.outbox) + i] = fs[i]
    BY <1>4, <1>6, <1>8 DEF Adds
  <2>2. 1 \in 1..Len(fs)  BY <1>5
  <2> QED  BY <1>4, <1>5, <2>1, <2>2
<1>9. Asked(b, c, state)  BY <1>7, <1>8 DEF Asked, r, f, id
<1> QED  BY <1>9 DEF c, e, fs, r, f, id

(* It was the frontend's, and goes on as agreed.                            *)
LEMMA AskedAt ==
  ASSUME NEW b \in Connections, b.peer, b.inbox # <<>>, b.reply = NoReply, b.task = "ready",
         b.inbox[1].type = "action", NEW state \in {"completed", "failed"}, NEW c, Asked(b, c, state)
  PROVE  /\ \A u : u.phase \in {"awaiting_hello", "ready"} /\ Talks(u, b) => Talks(u, c)
         /\ ~Stranger(b)
<1> DEFINE f == Progress(b.inbox[1].id, "running")
<1>1. /\ 1 \in DOMAIN b.inbox
      /\ \A i \in DOMAIN Tail(b.inbox) : i + 1 \in DOMAIN b.inbox /\ Tail(b.inbox)[i] = b.inbox[i + 1]
  BY Taking
<1>2. /\ c \in Connections /\ c.task = b.task /\ c.inbox = Tail(b.inbox)
      /\ c.reply = Progress(b.inbox[1].id, state)
      /\ DOMAIN c.outbox = 1..(Len(b.outbox) + 1) /\ Len(c.outbox) = Len(b.outbox) + 1
      /\ \A i \in 1..Len(b.outbox) : c.outbox[i] = b.outbox[i]
      /\ c.outbox[Len(b.outbox) + 1] = f
  BY DEF Asked
<1>3. f.type = "action_progress"  BY DEF Progress
<1>4. \A u : u.phase \in {"awaiting_hello", "ready"} /\ Talks(u, b) => Talks(u, c)
  <2> TAKE u
  <2> SUFFICES ASSUME u.phase \in {"awaiting_hello", "ready"}, Talks(u, b)  PROVE Talks(u, c)
    OBVIOUS
  <2>1. ~AwaitsHello(b)  BY <1>1 DEF AwaitsHello
  <2>2. Greeted(u, b) /\ ReportsInOrder(u, b) /\ u.phase = "ready"  BY <2>1 DEF Talks
  <2>3. Greeted(u, c)
    <3>1. \A i \in DOMAIN c.inbox : c.inbox[i].type # "hello"
      <4>1. \A i \in DOMAIN b.inbox : b.inbox[i].type # "hello"  BY <2>2 DEF Greeted
      <4> QED  BY <1>1, <1>2, <4>1
    <3>2. \A i \in DOMAIN c.outbox : (i \in DOMAIN b.outbox /\ c.outbox[i] = b.outbox[i]) \/ c.outbox[i] = f
      <4>1. Len(b.outbox) \in Nat /\ DOMAIN b.outbox = 1..Len(b.outbox)  BY ConnectionParts
      <4> HIDE DEF f
      <4> QED  BY <1>2, <4>1
    <3> HIDE DEF f
    <3> QED  BY <1>2, <1>3, <2>2, <3>1, <3>2 DEF Greeted
  <2>4. ReportsInOrder(u, c)  BY <1>2, <2>2, ReportsAsked
  <2> QED  BY <2>2, <2>3, <2>4 DEF Talks
<1>5. ~Stranger(b)  BY StrangerReads
<1> QED  BY <1>4, <1>5

(* A refresh is taken, and admitted or refused.                             *)
LEMMA AskRefreshKeeps ==
  ASSUME DisplayKept, NEW k \in DOMAIN conn, up, conn[k].inbox # <<>>, conn[k].reply = NoReply,
         conn[k].task = "ready", Head(conn[k].inbox).type = "action",
         ServeRefresh(k, Head(conn[k].inbox))
  PROVE  DisplayKept' /\ ui' = ui
<1> DEFINE b == conn[k]
           m == Head(b.inbox)
<1>1. /\ b \in Connections /\ budget \in [Spendable -> Nat]
      /\ b.peer /\ b.shell = 0 => Stranger(b)
      /\ k = attached /\ ui.bridge = "running" => Talks(ui, b)
      /\ b.peer /\ b.shell # 0 => InOrder(ui, b.shell, b.inbox, applied)
  BY AtConnection
<1>2. UNCHANGED <<stream, up, published, popup, ui, applied, budget, attached>>
  BY DEF ServeRefresh
<1>12. PICK state \in {"completed", "failed"} :
           conn' = [conn EXCEPT ![k] = Written([Taken(@) EXCEPT !.reply = Progress(m.id, state)],
                                               <<Progress(m.id, "running")>>)]
  BY DEF ServeRefresh
<1> DEFINE c == Written([Taken(b) EXCEPT !.reply = Progress(m.id, state)],
                        <<Progress(m.id, "running")>>)
<1>3. conn' = [conn EXCEPT ![k] = c]  BY <1>12
<1>4. m = b.inbox[1]  BY <1>1, Taking
<1>5. ui.phase \in {"awaiting_hello", "ready"}  BY StateParts DEF Kept, ServiceKept
<1>6. b.inbox # <<>> /\ b.reply = NoReply /\ b.task = "ready" /\ b.inbox[1].type = "action"
  BY <1>4
<1> HIDE DEF b, m
<1>7. c = Written([Taken(b) EXCEPT !.reply = Progress(b.inbox[1].id, state)],
                  <<Progress(b.inbox[1].id, "running")>>)
  BY <1>4, Zenon
<1> HIDE DEF c
<1>8. Asked(b, c, state)  BY <1>1, <1>6, <1>7, OnAsk
<1>9. c \in Connections /\ c.peer = b.peer /\ c.shell = b.shell /\ (b.peer => c.inbox = Tail(b.inbox))  BY <1>8 DEF Asked
<1>10. CASE ~b.peer
  <2>1. ~c.peer /\ ~conn[k].peer /\ c.shell = conn[k].shell  BY <1>9, <1>10 DEF b
  <2> QED  BY <1>2, <1>3, <1>9, <2>1, AloneKeeps
<1>11. CASE b.peer
  <2>1. (Talks(ui, b) => Talks(ui, c)) /\ ~Stranger(b)
    BY <1>1, <1>5, <1>6, <1>8, <1>11, AskedAt
  <2>2. InOrder(ui, b.shell, b.inbox, applied) => InOrder(ui, c.shell, c.inbox, applied)
    BY <1>1, <1>6, <1>9, <1>11, InOrderTaken
  <2>3. c.peer = conn[k].peer /\ c.shell = conn[k].shell  BY <1>9 DEF b
  <2>4. /\ c.peer /\ c.shell = 0 => Stranger(c)
        /\ k = attached /\ ui.bridge = "running" => Talks(ui, c)
        /\ c.peer /\ c.shell # 0 => InOrder(ui, c.shell, c.inbox, applied)
    BY <1>1, <1>9, <1>11, <2>1, <2>2
  <2> QED  BY <1>1, <1>2, <1>3, <1>9, <2>3, <2>4, ServedQuietly
<1> QED  BY <1>10, <1>11

(* A request is not earlier than itself.                                    *)
LEMMA NotEarlierThanItself ==
  ASSUME NEW a \in [session : Sessions, id : Nat]
  PROVE  NotEarlier(a, a)
BY DEF NotEarlier

(* A panel state is taken: it is the frontend's next one.                   *)
LEMMA AskPanelKeeps ==
  ASSUME DisplayKept, NEW k \in DOMAIN conn, up, conn[k].inbox # <<>>, conn[k].reply = NoReply,
         conn[k].task = "ready", Head(conn[k].inbox).type = "action",
         Head(conn[k].inbox).action # "refresh_all", ServePanelAction(k, Head(conn[k].inbox))
  PROVE  DisplayKept' /\ ui' = ui /\ NeverBackwards
<1> DEFINE b == conn[k]
           m == Head(b.inbox)
           running(state) == Written([Taken(b) EXCEPT !.reply = Progress(m.id, state)],
                                     <<Progress(m.id, "running")>>)
           c == running("completed")
           d == running("failed")
<1>1. /\ b \in Connections /\ budget \in [Spendable -> Nat]
      /\ b.peer /\ b.shell = 0 => Stranger(b)
      /\ k = attached /\ ui.bridge = "running" => Talks(ui, b)
      /\ b.peer /\ b.shell # 0 => InOrder(ui, b.shell, b.inbox, applied)
  BY AtConnection
<1>2. /\ \/ /\ b.peer
            /\ popup' = (m.action = "open_panel")
            /\ applied' = [session |-> m.session, id |-> m.id]
            /\ conn' = [conn EXCEPT ![k] = c]
            /\ UNCHANGED budget
         \/ /\ b.peer
            /\ Spend("refusals")
            /\ conn' = [conn EXCEPT ![k] = d]
            /\ UNCHANGED <<popup, applied>>
         \/ /\ ~b.peer
            /\ conn' = [conn EXCEPT ![k] = Closed(@)]
            /\ UNCHANGED <<popup, applied, budget>>
      /\ UNCHANGED <<stream, up, published, ui, attached>>
  BY DEF ServePanelAction
<1>3. m = b.inbox[1] /\ m \in Lines /\ Tail(b.inbox) \in Seq(Lines)  BY <1>1, Taking
<1>4. ui.phase \in {"awaiting_hello", "ready"}  BY StateParts DEF Kept, ServiceKept
<1>5. /\ b.inbox # <<>> /\ b.reply = NoReply /\ b.task = "ready" /\ b.inbox[1].type = "action"
      /\ IsPanel(m)
  BY <1>3 DEF IsPanel
<1>6. applied \in [session : Sessions, id : Nat] /\ (applied' = applied => NeverBackwards)
  BY StateParts, NotEarlierThanItself DEF NeverBackwards
<1> HIDE DEF b, m
<1>7. \A state \in {"completed", "failed"} :
          running(state) = Written([Taken(b) EXCEPT !.reply = Progress(b.inbox[1].id, state)],
                                   <<Progress(b.inbox[1].id, "running")>>)
  BY <1>3, Zenon
<1> HIDE DEF running
<1>8. Asked(b, c, "completed") /\ Asked(b, d, "failed")  BY <1>1, <1>5, <1>7, OnAsk
<1> HIDE DEF c, d
<1>9. CASE ~b.peer
  <2>1. /\ conn' = [conn EXCEPT ![k] = Closed(@)]
        /\ UNCHANGED <<stream, up, published, popup, ui, applied, budget, attached>>
    BY <1>2, <1>9
  <2> QED  BY <1>6, <2>1, CloseKeeps
<1>10. CASE b.peer
  <2>1. ~Stranger(b) /\ (Talks(ui, b) => Talks(ui, c)) /\ (Talks(ui, b) => Talks(ui, d))
    <3>1. ~Stranger(b) /\ (Talks(ui, b) => Talks(ui, c))
      BY <1>1, <1>4, <1>5, <1>8, <1>10, AskedAt
    <3>2. Talks(ui, b) => Talks(ui, d)
      BY <1>1, <1>4, <1>5, <1>8, <1>10, AskedAt
    <3> QED  BY <3>1, <3>2
  <2>2. b.shell # 0 /\ b.shell \in Nat  BY <1>1, <1>10, <2>1, ConnectionParts
  <2>3. InOrder(ui, b.shell, b.inbox, applied)  BY <1>1, <1>10, <2>2
  <2>4. /\ InOrder(ui, b.shell, Tail(b.inbox), applied)
        /\ m.session[1] = b.shell /\ Made(ui, m)
        /\ NotEarlier(m, applied) \/ applied.session[1] > b.shell
        /\ InOrder(ui, b.shell, Tail(b.inbox), [session |-> m.session, id |-> m.id])
    BY <1>1, <1>3, <1>5, <2>3, InOrderTaken
  <2>5. /\ c \in Connections /\ c.peer = b.peer /\ c.shell = b.shell /\ c.inbox = Tail(b.inbox) /\ c.task = "ready"
        /\ d \in Connections /\ d.peer = b.peer /\ d.shell = b.shell /\ d.inbox = Tail(b.inbox) /\ d.task = "ready"
    BY <1>5, <1>8, <1>10 DEF Asked
  <2>6. /\ b.peer = conn[k].peer /\ b.shell = conn[k].shell
        /\ k = attached /\ ui.bridge = "running" => Talks(ui, b)
    BY <1>1 DEF b
  <2>7. CASE conn' = [conn EXCEPT ![k] = d] /\ Spend("refusals") /\ UNCHANGED <<popup, applied>>
    <3>1. budget' \in [Spendable -> Nat]  BY <2>7, Spending DEF Spendable
    <3>2. UNCHANGED <<stream, up, published, ui, attached>>  BY <1>2
    <3>3. /\ d.peer /\ d.shell # 0 => InOrder(ui, d.shell, d.inbox, applied)
          /\ d.peer /\ d.shell = 0 => Stranger(d)
          /\ k = attached /\ ui.bridge = "running" => Talks(ui, d)
          /\ d.peer = conn[k].peer /\ d.shell = conn[k].shell
      BY <2>1, <2>2, <2>4, <2>5, <2>6
    <3>4. DisplayKept' /\ ui' = ui
      BY <2>5, <2>7, <3>1, <3>2, <3>3, ServedQuietly
    <3> QED  BY <1>6, <2>7, <3>4
  <2>8. CASE /\ popup' = (m.action = "open_panel")
             /\ applied' = [session |-> m.session, id |-> m.id]
             /\ conn' = [conn EXCEPT ![k] = c]
             /\ UNCHANGED budget
    <3>1. /\ applied'.session = m.session /\ applied'.id = m.id
          /\ m.session \in Sessions /\ m.id \in Nat
      BY <1>3, <1>5, <2>8, LineParts
    <3>2. applied' \in [session : Sessions, id : Nat]  BY <2>8, <3>1
    <3>3. applied'.session # <<0, 1>>
      <4>1. <<0, 1>>[1] = 0  OBVIOUS
      <4> QED  BY <2>2, <2>4, <3>1, <4>1
    <3>4. Made(ui, applied')  BY <2>4, <3>1 DEF Made
    <3>9. NeverBackwards
      <4>1. CASE NotEarlier(m, applied)  BY <3>1, <4>1 DEF NotEarlier, NeverBackwards
      <4>2. CASE applied.session[1] > b.shell
        <5>1. /\ Made(ui, applied) /\ ui.session \in Sessions
              /\ attached # 0 => conn[attached].shell = ui.session[1]
          BY StateParts
        <5>2. applied.session[1] \in Nat /\ ui.session[1] \in Nat  BY <1>6, <5>1 DEF Sessions
        <5>3. applied.session[1] <= ui.session[1]  BY <5>1, <5>2 DEF Made
        <5>4. k # 0  BY StateParts
        <5>5. k # attached  BY <2>2, <2>6, <4>2, <5>1, <5>2, <5>3, <5>4
        <5>6. applied'.session[1] = conn[k].shell  BY <2>4, <2>6, <3>1
        <5>7. applied'.session[1] < applied.session[1]  BY <2>2, <2>4, <3>1, <4>2, <5>2
        <5> QED  BY <1>10, <2>6, <5>5, <5>6, <5>7 DEF NeverBackwards
      <4> QED  BY <2>4, <4>1, <4>2
    <3>5. popup' \in BOOLEAN /\ budget' \in [Spendable -> Nat]  BY <1>1, <2>8
    <3>6. UNCHANGED <<stream, up, published, ui, attached>>  BY <1>2
    <3>7. /\ c.peer /\ c.shell # 0 => InOrder(ui, c.shell, c.inbox, applied')
          /\ c.peer /\ c.shell = 0 => Stranger(c)
          /\ conn[k].peer /\ c.shell # 0 /\ applied'.session[1] = c.shell
      BY <1>10, <2>2, <2>4, <2>5, <2>6, <2>8, <3>1
    <3>8. DisplayKept' /\ ui' = ui
      <4>1. conn' = [conn EXCEPT ![k] = c]  BY <2>8
      <4>2. /\ (~up => c.task = "closed") /\ (c.peer => conn[k].peer)
            /\ (k = attached /\ ui.bridge = "running" => c.peer /\ Talks(ui, c))
            /\ c.shell = conn[k].shell
        BY <1>10, <2>1, <2>5, <2>6
      <4> QED  BY <2>5, <3>2, <3>3, <3>4, <3>5, <3>6, <3>7, <4>1, <4>2, ServedAt
    <3> QED  BY <3>8, <3>9
  <2> QED  BY <1>2, <1>10, <2>7, <2>8
<1> QED  BY <1>9, <1>10

(* A connection after one frame is written to its peer.                     *)
Wrote(b, c, f) ==
    /\ DOMAIN c.outbox = 1..(Len(b.outbox) + 1) /\ Len(c.outbox) = Len(b.outbox) + 1
    /\ \A i \in 1..Len(b.outbox) : c.outbox[i] = b.outbox[i]
    /\ c.outbox[Len(b.outbox) + 1] = f

(* Which is what Written does with one frame.                               *)
LEMMA OnWriteOne ==
  ASSUME NEW e \in Connections, NEW f \in Frames
  PROVE  LET c == Written(e, <<f>>)
         IN  /\ c \in Connections /\ c.peer = e.peer /\ c.shell = e.shell
             /\ e.peer => /\ c.task = e.task /\ c.reply = e.reply /\ c.inbox = e.inbox
                          /\ Wrote(e, c, f)
<1> DEFINE fs == <<f>>
           c == Written(e, fs)
<1>1. fs \in Seq(Frames) /\ Len(fs) = 1 /\ fs[1] = f  OBVIOUS
<1> HIDE DEF fs
<1>2. Adds(e, c, fs)  BY <1>1, OnWrite
<1> HIDE DEF c
<1>3. c \in Connections /\ c.peer = e.peer /\ c.shell = e.shell  BY <1>2 DEF Adds
<1>4. ASSUME e.peer
      PROVE  c.task = e.task /\ c.reply = e.reply /\ c.inbox = e.inbox /\ Wrote(e, c, f)
  <2>1. /\ c.task = e.task /\ c.reply = e.reply /\ c.inbox = e.inbox
        /\ Len(c.outbox) = Len(e.outbox) + Len(fs)
        /\ DOMAIN c.outbox = 1..(Len(e.outbox) + Len(fs))
        /\ \A i \in 1..Len(e.outbox) : c.outbox[i] = e.outbox[i]
        /\ \A i \in 1..Len(fs) : c.outbox[Len(e.outbox) + i] = fs[i]
    BY <1>2, <1>4 DEF Adds
  <2>2. 1 \in 1..Len(fs)  BY <1>1
  <2> QED  BY <1>1, <2>1, <2>2 DEF Wrote
<1> QED  BY <1>3, <1>4 DEF c, fs

(* Every frame after it is an old one or the new one.                       *)
LEMMA WroteParts ==
  ASSUME NEW b \in Connections, NEW c, NEW f, Wrote(b, c, f)
  PROVE  \A i \in DOMAIN c.outbox :
             \/ i = Len(b.outbox) + 1 /\ c.outbox[i] = f
             \/ i \in 1..Len(b.outbox) /\ i \in DOMAIN b.outbox /\ c.outbox[i] = b.outbox[i]
<1>1. Len(b.outbox) \in Nat /\ DOMAIN b.outbox = 1..Len(b.outbox)  BY ConnectionParts
<1> QED  BY <1>1 DEF Wrote

(* The end of a request is reported.                                        *)
LEMMA ReplyKeeps ==
  ASSUME DisplayKept, NEW k \in DOMAIN conn, ServeReply(k)
  PROVE  DisplayKept' /\ ui' = ui
<1> DEFINE b == conn[k]
           f == b.reply
           e == [b EXCEPT !.reply = NoReply]
           c == Written(e, <<f>>)
<1>1. /\ b \in Connections /\ budget \in [Spendable -> Nat]
      /\ b.peer /\ b.shell = 0 => Stranger(b)
      /\ k = attached /\ ui.bridge = "running" => Talks(ui, b)
      /\ b.peer /\ b.shell # 0 => InOrder(ui, b.shell, b.inbox, applied)
  BY AtConnection
<1>2. /\ up /\ f # NoReply
      /\ UNCHANGED <<stream, up, published, popup, ui, applied, budget, attached>>
  BY DEF ServeReply
<1>3. conn' = [conn EXCEPT ![k] = c]  BY DEF ServeReply
<1>4. f \in Frames /\ f.type = "action_progress"
  <2>1. f \in Reports  BY <1>1, <1>2, ConnectionParts
  <2> QED  BY <2>1 DEF Frames, Reports
<1>5. /\ e \in Connections /\ e.peer = b.peer /\ e.shell = b.shell /\ e.task = b.task /\ e.inbox = b.inbox
      /\ e.outbox = b.outbox /\ e.reply = NoReply
  BY <1>1 DEF Connections
<1>6. ui.phase \in {"awaiting_hello", "ready"}  BY StateParts DEF Kept, ServiceKept
<1> HIDE DEF b, f, e
<1>7. /\ c \in Connections /\ c.peer = e.peer /\ c.shell = e.shell
      /\ e.peer => /\ c.task = e.task /\ c.reply = e.reply /\ c.inbox = e.inbox
                   /\ Wrote(e, c, f)
  BY <1>4, <1>5, OnWriteOne
<1> HIDE DEF c
<1>8. CASE ~b.peer
  <2>1. ~c.peer /\ ~conn[k].peer /\ c.shell = conn[k].shell  BY <1>5, <1>7, <1>8 DEF b
  <2> QED  BY <1>2, <1>3, <1>7, <2>1, AloneKeeps
<1>9. CASE b.peer
  <2>1. c.task = b.task /\ c.reply = NoReply /\ c.inbox = b.inbox /\ Wrote(b, c, f)
    BY <1>5, <1>7, <1>9 DEF Wrote
  <2>2. Talks(ui, b) => Talks(ui, c)
    <3>1. ~AwaitsHello(b)  BY <1>2 DEF AwaitsHello, f
    <3>2. Greeted(ui, b) => Greeted(ui, c)
      BY <1>1, <1>4, <2>1, WroteParts DEF Greeted
    <3>3. ReportsInOrder(ui, b) => ReportsInOrder(ui, c)
      BY <1>1, <1>2, <2>1, ReportsAnswered DEF Wrote, f
    <3> QED  BY <1>6, <3>1, <3>2, <3>3 DEF Talks
  <2>3. Stranger(b) => Stranger(c)  BY <2>1 DEF Stranger
  <2>4. c.peer = conn[k].peer /\ c.shell = conn[k].shell  BY <1>5, <1>7 DEF b
  <2>5. /\ c.peer /\ c.shell = 0 => Stranger(c)
        /\ k = attached /\ ui.bridge = "running" => Talks(ui, c)
        /\ c.peer /\ c.shell # 0 => InOrder(ui, c.shell, c.inbox, applied)
    BY <1>1, <1>5, <1>7, <1>9, <2>1, <2>2, <2>3
  <2> QED  BY <1>1, <1>2, <1>3, <1>7, <2>4, <2>5, ServedQuietly
<1> QED  BY <1>8, <1>9

(* A publication is sent on.                                                *)
LEMMA ChangedKeeps ==
  ASSUME DisplayKept, NEW k \in DOMAIN conn, ServeChanged(k)
  PROVE  DisplayKept' /\ ui' = ui
<1> DEFINE b == conn[k]
           f == Snapshot
           e == [b EXCEPT !.seen = published]
           c == Written(e, <<f>>)
<1>1. /\ b \in Connections /\ budget \in [Spendable -> Nat]
      /\ b.peer /\ b.shell = 0 => Stranger(b)
      /\ k = attached /\ ui.bridge = "running" => Talks(ui, b)
      /\ b.peer /\ b.shell # 0 => InOrder(ui, b.shell, b.inbox, applied)
  BY AtConnection
<1>2. /\ up /\ b.task = "ready"
      /\ UNCHANGED <<stream, up, published, popup, ui, applied, budget, attached>>
  BY DEF ServeChanged
<1>3. conn' = [conn EXCEPT ![k] = c]  BY DEF ServeChanged
<1>4. f \in Frames /\ f.type = "snapshot" /\ f.stream = stream  BY FramesMade
<1>5. /\ e \in Connections /\ e.peer = b.peer /\ e.shell = b.shell /\ e.task = b.task /\ e.inbox = b.inbox
      /\ e.outbox = b.outbox /\ e.reply = b.reply
  <2>1. published \in Nat  BY StateParts
  <2> QED  BY <1>1, <2>1 DEF Connections
<1>6. ui.phase \in {"awaiting_hello", "ready"}  BY StateParts DEF Kept, ServiceKept
<1> HIDE DEF b, f, e
<1>7. /\ c \in Connections /\ c.peer = e.peer /\ c.shell = e.shell
      /\ e.peer => /\ c.task = e.task /\ c.reply = e.reply /\ c.inbox = e.inbox
                   /\ Wrote(e, c, f)
  BY <1>4, <1>5, OnWriteOne
<1> HIDE DEF c
<1>8. CASE ~b.peer
  <2>1. ~c.peer /\ ~conn[k].peer /\ c.shell = conn[k].shell  BY <1>5, <1>7, <1>8 DEF b
  <2> QED  BY <1>2, <1>3, <1>7, <2>1, AloneKeeps
<1>9. CASE b.peer
  <2>1. c.task = b.task /\ c.reply = b.reply /\ c.inbox = b.inbox /\ Wrote(b, c, f)
    BY <1>5, <1>7, <1>9 DEF Wrote
  <2>2. Talks(ui, b) => Talks(ui, c)
    <3>1. ASSUME AwaitsHello(b)  PROVE AwaitsHello(c)
      <4>1. /\ b.reply = NoReply /\ b.inbox = <<>> /\ b.outbox # <<>>
            /\ b.outbox[1].type = "hello" /\ b.outbox[1].stream = stream
            /\ \A i \in 2..Len(b.outbox) :
                   b.outbox[i].type = "snapshot" /\ b.outbox[i].stream = b.outbox[1].stream
        BY <1>2, <3>1 DEF AwaitsHello
      <4>2. Len(b.outbox) \in Nat \ {0}
        <5>1. b.outbox \in Seq(Frames)  BY <1>1, ConnectionParts
        <5> QED  BY <4>1, <5>1, EmptySeq
      <4>3. c.outbox[1] = b.outbox[1] /\ Len(c.outbox) = Len(b.outbox) + 1 /\ c.outbox # <<>>
        <5>1. 1 \in 1..Len(b.outbox) /\ Len(b.outbox) + 1 # 0  BY <4>2
        <5>2. Len(<<>>) = 0  OBVIOUS
        <5> QED  BY <2>1, <5>1, <5>2 DEF Wrote
      <4>4. \A i \in 2..Len(c.outbox) :
                c.outbox[i].type = "snapshot" /\ c.outbox[i].stream = c.outbox[1].stream
        <5> TAKE i \in 2..Len(c.outbox)
        <5>1. i \in 2..Len(b.outbox) \/ i = Len(b.outbox) + 1  BY <4>2, <4>3
        <5>2. CASE i = Len(b.outbox) + 1
          <6>1. c.outbox[i] = f  BY <2>1, <5>2 DEF Wrote
          <6> QED  BY <1>4, <4>1, <4>3, <6>1
        <5>3. CASE i \in 2..Len(b.outbox)
          <6>1. i \in 1..Len(b.outbox)  BY <4>2, <5>3
          <6>2. c.outbox[i] = b.outbox[i]  BY <2>1, <6>1 DEF Wrote
          <6> QED  BY <4>1, <4>3, <5>3, <6>2
        <5> QED  BY <5>1, <5>2, <5>3
      <4> QED  BY <1>2, <2>1, <4>1, <4>3, <4>4 DEF AwaitsHello
    <3>2. Greeted(ui, b) => Greeted(ui, c)
      BY <1>1, <1>2, <1>4, <2>1, WroteParts DEF Greeted
    <3>3. ReportsInOrder(ui, b) => ReportsInOrder(ui, c)
      BY <1>1, <1>4, <2>1, ReportsBeside DEF Wrote
    <3> QED  BY <1>6, <3>1, <3>2, <3>3 DEF Talks
  <2>3. Stranger(b) => Stranger(c)  BY <2>1 DEF Stranger
  <2>4. c.peer = conn[k].peer /\ c.shell = conn[k].shell  BY <1>5, <1>7 DEF b
  <2>5. /\ c.peer /\ c.shell = 0 => Stranger(c)
        /\ k = attached /\ ui.bridge = "running" => Talks(ui, c)
        /\ c.peer /\ c.shell # 0 => InOrder(ui, c.shell, c.inbox, applied)
    BY <1>1, <1>5, <1>7, <1>9, <2>1, <2>2, <2>3
  <2> QED  BY <1>1, <1>2, <1>3, <1>7, <2>4, <2>5, ServedQuietly
<1> QED  BY <1>8, <1>9

(* A line is read: out of sequence, a hello, an acknowledgement, a request. *)
LEMMA FrameKeeps ==
  ASSUME DisplayKept, NEW k \in DOMAIN conn, ServeFrame(k)
  PROVE  DisplayKept' /\ ui' = ui /\ NeverBackwards
<1> DEFINE m == Head(conn[k].inbox)
<1>1. /\ up /\ Serving(k) /\ conn[k].reply = NoReply /\ conn[k].inbox # <<>>
      /\ \/ /\ OutOfSequence(k, m)
            /\ conn' = [conn EXCEPT ![k] = Closed(@)]
            /\ UNCHANGED <<stream, up, published, popup, ui, applied, budget, attached>>
         \/ ~OutOfSequence(k, m) /\ m.type = "hello" /\ ServeHello(k)
         \/ ~OutOfSequence(k, m) /\ m.type = "snapshot_ack" /\ ServeAck(k)
         \/ /\ ~OutOfSequence(k, m) /\ m.type = "action"
            /\ IF m.action = "refresh_all" THEN ServeRefresh(k, m) ELSE ServePanelAction(k, m)
  BY DEF ServeFrame
<1>2. applied' = applied => NeverBackwards
  BY StateParts, NotEarlierThanItself DEF NeverBackwards
<1> HIDE DEF m
<1>3. CASE /\ conn' = [conn EXCEPT ![k] = Closed(@)]
           /\ UNCHANGED <<stream, up, published, popup, ui, applied, budget, attached>>
  BY <1>1, <1>2, <1>3, CloseKeeps
<1>4. CASE m.type = "hello" /\ ServeHello(k)
  <2>1. applied' = applied  BY <1>4 DEF ServeHello
  <2> QED  BY <1>1, <1>2, <1>4, <2>1, HelloKeeps DEF m
<1>5. CASE m.type = "snapshot_ack" /\ ServeAck(k)
  <2>1. applied' = applied  BY <1>5 DEF ServeAck
  <2> QED  BY <1>1, <1>2, <1>5, <2>1, AckKeeps DEF m
<1>6. CASE /\ ~OutOfSequence(k, m) /\ m.type = "action"
           /\ IF m.action = "refresh_all" THEN ServeRefresh(k, m) ELSE ServePanelAction(k, m)
  <2>1. conn[k].task = "ready"  BY <1>6 DEF OutOfSequence
  <2>2. CASE m.action = "refresh_all"
    <3>1. ServeRefresh(k, m)  BY <1>6, <2>2
    <3>2. applied' = applied  BY <3>1 DEF ServeRefresh
    <3> QED  BY <1>1, <1>2, <1>6, <2>1, <3>1, <3>2, AskRefreshKeeps DEF m
  <2>3. CASE m.action # "refresh_all"
    <3>1. ServePanelAction(k, m)  BY <1>6, <2>3
    <3> QED  BY <1>1, <1>6, <2>1, <2>3, <3>1, AskPanelKeeps DEF m
  <2> QED  BY <2>2, <2>3
<1> QED  BY <1>1, <1>3, <1>4, <1>5, <1>6

(* Every step of a task.                                                    *)
LEMMA ServeKeeps ==
  ASSUME DisplayKept, NEW k \in DOMAIN conn, Serve(k)
  PROVE  DisplayKept' /\ ui' = ui /\ NeverBackwards
<1>1. applied' = applied => NeverBackwards
  BY StateParts, NotEarlierThanItself DEF NeverBackwards
<1>2. CASE Accept(k)  BY <1>1, <1>2, AcceptKeeps DEF Accept
<1>3. CASE ServeFrame(k)  BY <1>3, FrameKeeps
<1>4. CASE ServeReply(k)  BY <1>1, <1>4, ReplyKeeps DEF ServeReply
<1>5. CASE ServeChanged(k)  BY <1>1, <1>5, ChangedKeeps DEF ServeChanged
<1>6. CASE ServeEof(k)  BY <1>1, <1>6, CloseKeeps DEF ServeEof
<1> QED  BY <1>2, <1>3, <1>4, <1>5, <1>6 DEF Serve

(* The daemon's tasks are all gone, in a daemon that stops or starts.       *)
LEMMA AllClosed ==
  ASSUME DisplayKept, UNCHANGED <<ui, applied, attached>>,
         stream' \in Nat \ {0}, up' \in BOOLEAN, published' \in 1..MaxPublications, popup' \in BOOLEAN,
         budget' \in [Spendable -> Nat], conn' \in Seq(Connections), Len(conn') = Len(conn),
         \A k \in DOMAIN conn : conn'[k] \in {conn[k], Closed(conn[k])} /\ conn'[k].task = "closed"
  PROVE  DisplayKept'
<1>1. /\ Kept(ui) /\ ui.lines = <<>>
      /\ conn \in Seq(Connections) /\ attached \in 0..Len(conn) /\ Len(conn) \in Nat
      /\ DOMAIN conn = 1..Len(conn) /\ (attached # 0 => attached \in DOMAIN conn)
      /\ \A i \in DOMAIN conn : conn[i] \in Connections
      /\ applied \in [session : Sessions, id : Nat] /\ applied.session # <<0, 1>> /\ Made(ui, applied)
      /\ ui.bridge # "off" => attached # 0
      /\ ui.bridge = "running" => conn[attached].peer /\ Talks(ui, conn[attached])
      /\ attached # 0 /\ conn[attached].peer => ui.bridge # "off"
      /\ attached # 0 => conn[attached].shell = ui.session[1]
  BY StateParts
<1>2. DOMAIN conn' = DOMAIN conn
  <2>1. DOMAIN conn' = 1..Len(conn')  OBVIOUS
  <2> QED  BY <1>1, <2>1
<1>3. ui' = ui /\ applied' = applied /\ attached' = attached  OBVIOUS
<1>4. \A k \in DOMAIN conn :
          /\ conn'[k].task = "closed" /\ conn'[k].peer = conn[k].peer /\ conn'[k].shell = conn[k].shell
          /\ Stranger(conn[k]) => Stranger(conn'[k])
          /\ Talks(ui, conn[k]) => Talks(ui, conn'[k])
          /\ \A h : InOrder(ui, h, conn[k].inbox, applied) => InOrder(ui, h, conn'[k].inbox, applied)
  <2> TAKE k \in DOMAIN conn
  <2>1. conn[k] \in Connections /\ conn'[k].task = "closed"  BY <1>1
  <2>2. CASE conn'[k] = conn[k]  BY <2>1, <2>2
  <2>3. CASE conn'[k] = Closed(conn[k])
    <3> DEFINE b == conn[k]
    <3>1. /\ Closed(b).peer = b.peer /\ Closed(b).shell = b.shell /\ Stranger(Closed(b))
          /\ \A u, h, a : InOrder(u, h, Closed(b).inbox, a)
          /\ \A u : Talks(u, b) => Talks(u, Closed(b))
      <4> HIDE DEF b
      <4> QED  BY <2>1, Closing DEF b
    <3> QED  BY <2>1, <2>3, <3>1
  <2> QED  BY <2>2, <2>3
<1>5. TypeOK'
  <2>1. \A i \in DOMAIN conn' :
            /\ conn'[i].task \in {"pending", "accepted", "ready", "closed"}
            /\ i = attached' /\ conn'[i].peer => ui'.bridge # "off"
    BY <1>1, <1>2, <1>3, <1>4
  <2>2. /\ ui'.bridge \in {"off", "running", "stopping"} /\ ui'.phase \in {"awaiting_hello", "ready"}
        /\ ui'.nextRequestId \in 1..MaxRequestId /\ ui'.panelRetryCount \in 0..MaxPanelRetries
    BY <1>1, <1>3 DEF Kept, RequestsKept, ServiceKept
  <2>3. Len(conn') <= MaxConnections  BY DEF DisplayKept, TypeOK
  <2> QED  BY <2>1, <2>2, <2>3 DEF TypeOK
<1>6. ConnectionsKept'
  <2>1. ui'.bridge = "running" => conn'[attached'].peer  BY <1>1, <1>3, <1>4
  <2>2. \A i \in DOMAIN conn' : conn'[i].task = "closed"  BY <1>2, <1>4
  <2>3. \A i \in DOMAIN conn' :
            /\ conn'[i].shell <= ui'.session[1]
            /\ conn'[i].peer /\ conn'[i].shell = 0 => Stranger(conn'[i])
            /\ conn'[i].peer /\ conn'[i].shell = ui'.session[1] => i = attached'
            /\ \A j \in DOMAIN conn' :
                   conn'[i].peer /\ conn'[j].peer /\ conn'[j].shell = conn'[i].shell
                   /\ conn'[i].shell # 0 => j = i
    <3>1. \A i \in DOMAIN conn :
              /\ conn[i].shell <= ui.session[1]
              /\ conn[i].peer /\ conn[i].shell = 0 => Stranger(conn[i])
              /\ conn[i].peer /\ conn[i].shell = ui.session[1] => i = attached
              /\ \A j \in DOMAIN conn :
                     conn[i].peer /\ conn[j].peer /\ conn[j].shell = conn[i].shell
                     /\ conn[i].shell # 0 => j = i
      BY DEF DisplayKept, ConnectionsKept
    <3> QED  BY <1>2, <1>3, <1>4, <3>1
  <2>5. attached' # 0 => conn'[attached'].shell = ui'.session[1]  BY <1>1, <1>3, <1>4
  <2>4. attached' \in 0..Len(conn') /\ (ui'.bridge # "off" => attached' # 0) /\ ui'.lines = <<>>
    BY <1>1, <1>3
  <2> QED  BY <2>1, <2>2, <2>3, <2>4, <2>5 DEF ConnectionsKept, Stranger
<1>7. BridgeKept'
  <2>1. SUFFICES ASSUME ui'.bridge = "running"  PROVE Talks(ui, conn[attached])'
    BY DEF BridgeKept
  <2>2. /\ Talks(ui, conn'[attached]) /\ conn'[attached].task = "closed"
    BY <1>1, <1>3, <1>4, <2>1
  <2>3. Talks(ui', conn'[attached']) /\ conn'[attached'].task = "closed"  BY <1>3, <2>2
  <2> QED  BY <2>3 DEF Talks, AwaitsHello, Greeted, ReportsInOrder, Open
<1>8. PanelsInOrder'
  <2>1. \A i \in DOMAIN conn' : conn'[i].peer /\ conn'[i].shell # 0 =>
            InOrder(ui', conn'[i].shell, conn'[i].inbox, applied')
    <3>1. \A i \in DOMAIN conn : conn[i].peer /\ conn[i].shell # 0 =>
              InOrder(ui, conn[i].shell, conn[i].inbox, applied)
      BY DEF DisplayKept, PanelsInOrder
    <3> QED  BY <1>2, <1>3, <1>4, <3>1
  <2> QED  BY <1>1, <1>3, <2>1 DEF PanelsInOrder, HandshakeFirst, InOrder, Made, NotEarlier, IsPanel
<1>9. (RequestsKept(ui) /\ ServiceKept(ui))'
  BY <1>1, <1>3 DEF Kept, RequestsKept, ServiceKept
<1> QED  BY <1>5, <1>6, <1>7, <1>8, <1>9 DEF DisplayKept

(* The daemon stops.                                                        *)
LEMMA StopKeeps ==
  ASSUME DisplayKept, DaemonStop
  PROVE  DisplayKept' /\ ui' = ui
<1>1. /\ Spend("restarts") /\ up' = FALSE /\ conn' = [k \in DOMAIN conn |-> Closed(conn[k])]
      /\ UNCHANGED <<stream, published, popup, ui, applied, attached>>
  BY DEF DaemonStop
<1>2. /\ stream \in Nat \ {0} /\ published \in 1..MaxPublications /\ popup \in BOOLEAN
      /\ Len(conn) \in Nat /\ DOMAIN conn = 1..Len(conn)
      /\ \A i \in DOMAIN conn : conn[i] \in Connections
  BY StateParts
<1>3. budget' \in [Spendable -> Nat]  BY <1>1, Spending DEF Spendable
<1>4. \A k \in DOMAIN conn : Closed(conn[k]) \in Connections /\ Closed(conn[k]).task = "closed"
  BY <1>2, Closing
<1>5. conn' \in Seq(Connections) /\ Len(conn') = Len(conn)
  <2> DEFINE n == Len(conn)
             g(k) == Closed(conn[k])
  <2>1. conn' = [k \in 1..n |-> g(k)] /\ \A k \in 1..n : g(k) \in Connections  BY <1>1, <1>2, <1>4
  <2>2. n \in Nat  BY <1>2
  <2> HIDE DEF g, n
  <2>3. conn' \in Seq(Connections) /\ Len(conn') = n  BY <2>1, <2>2
  <2> QED  BY <2>3 DEF n
<1>6. \A k \in DOMAIN conn : conn'[k] \in {conn[k], Closed(conn[k])} /\ conn'[k].task = "closed"
  BY <1>1, <1>4
<1>7. DisplayKept'  BY <1>1, <1>2, <1>3, <1>5, <1>6, AllClosed
<1> QED  BY <1>1, <1>7

(* The daemon starts again, under another stream.                           *)
LEMMA RestartKeeps ==
  ASSUME DisplayKept, DaemonStart
  PROVE  DisplayKept' /\ ui' = ui
<1>1. /\ ~up /\ up' = TRUE /\ stream' = stream + 1 /\ published' = 1 /\ popup' = FALSE
      /\ UNCHANGED <<conn, ui, applied, budget, attached>>
  BY DEF DaemonStart
<1>2. stream \in Nat \ {0} /\ budget \in [Spendable -> Nat] /\ conn \in Seq(Connections)
  BY StateParts
<1>3. published' \in 1..MaxPublications /\ stream' \in Nat \ {0}  BY <1>1, <1>2, ServerLimits
<1>4. \A k \in DOMAIN conn : conn[k].task = "closed"  BY <1>1 DEF DisplayKept, ConnectionsKept
<1>5. DisplayKept'  BY <1>1, <1>2, <1>3, <1>4, AllClosed
<1> QED  BY <1>1, <1>5

(* The bridge is gone, and what it did not forward is lost.                 *)
LEMMA BridgeExitKeeps ==
  ASSUME DisplayKept, BridgeExits
  PROVE  DisplayKept' /\ ui'.snapshot = ui.snapshot
<1> DEFINE b == conn[attached]
           q == [ui EXCEPT !.bridge = "off", !.transportConnected = FALSE]
           v == ScheduleReconnect(q, "backend_unavailable")
<1>1. /\ Kept(ui) /\ ui.lines = <<>> /\ popup \in BOOLEAN
      /\ published \in 1..MaxPublications /\ budget \in [Spendable -> Nat]
      /\ (attached # 0 => attached \in DOMAIN conn)
      /\ \A i \in DOMAIN conn : conn[i] \in Connections
      /\ applied \in [session : Sessions, id : Nat] /\ applied.session # <<0, 1>> /\ Made(ui, applied)
      /\ ui.bridge # "off" => attached # 0
  BY StateParts
<1>2. ui.bridge # "off" /\ UNCHANGED <<stream, up, published, popup, applied, attached>>
  BY DEF BridgeExits
<1>3. budget' \in [Spendable -> Nat]
  <2>1. budget' = budget \/ Spend("faults")  BY DEF BridgeExits
  <2> QED  BY <1>1, <2>1, Spending DEF Spendable
<1>4. PICK n \in 0..Len(b.inbox) :
          conn' = [conn EXCEPT ![attached].peer = FALSE, ![attached].outbox = <<>>,
                               ![attached].inbox = SubSeq(@, 1, n)]
  BY DEF BridgeExits
<1>5. ui' = IF q.alive /\ q.connectionWanted THEN v ELSE q  BY DEF BridgeExits
<1>6. attached \in DOMAIN conn /\ b \in Connections  BY <1>1, <1>2
<1> DEFINE x == SubSeq(b.inbox, 1, n)
           c == [b EXCEPT !.peer = FALSE, !.outbox = <<>>, !.inbox = x]
<1>7. conn' = [conn EXCEPT ![attached] = c]  BY <1>4, <1>6
<1>8. x \in Seq(Lines)
  <2>1. b.inbox \in Seq(Lines)  BY <1>6, ConnectionParts
  <2> HIDE DEF b
  <2> QED  BY <2>1
<1> HIDE DEF x
<1>9. c \in Connections /\ c.task = b.task /\ ~c.peer /\ c.shell = conn[attached].shell
  <2>1. <<>> \in Seq(Frames)  OBVIOUS
  <2> QED  BY <1>6, <1>8, <2>1 DEF Connections
<1>10. ~up => c.task = "closed"  BY <1>6, <1>9 DEF DisplayKept, ConnectionsKept
<1> HIDE DEF c, b
<1>11. DOMAIN ui = Fields  BY <1>1 DEF Kept, ServiceKept, Fields
<1>12. /\ Only(ui, q, {"bridge", "transportConnected"}) /\ q.bridge = "off" /\ q.phase = ui.phase
       /\ q.connectionError = ui.connectionError /\ q.lines = <<>>
  BY <1>1, <1>11, FieldsAre DEF Only
<1> HIDE DEF q
<1>13. Only(ui, q, {"alive", "phase", "connectionWanted", "transportConnected", "bridge",
                    "connectionError", "handshakeTimer", "reconnectTimer", "lines"})
  BY <1>12 DEF Only
<1>14. ui.connectionError # "protocol_error" /\ ui.phase \in {"awaiting_hello", "ready"}
  BY <1>1 DEF Kept, ServiceKept
<1>15. Kept(q) /\ q.snapshot = ui.snapshot /\ Made(q, applied) /\ q.session = ui.session
  <2>1. q.session = ui.session  BY <1>11, <1>12, FieldsAre DEF Only
  <2> QED  BY <1>1, <1>12, <1>13, <1>14, <2>1, BesideRequests
<1>16. /\ Kept(v) /\ v.bridge = "off"
       /\ Only(q, v, {"transportConnected", "handshakeTimer", "bridge", "connectionError",
                      "connectionWanted", "reconnectTimer"})
  BY <1>12, <1>15, Reconnecting
<1> HIDE DEF v
<1>17. Only(q, v, {"alive", "phase", "connectionWanted", "transportConnected", "bridge",
                   "connectionError", "handshakeTimer", "reconnectTimer", "lines"})
  BY <1>16 DEF Only
<1>18. /\ v.phase \in {"awaiting_hello", "ready"} /\ v.bridge \in {"off", "running", "stopping"}
       /\ v.reconnectTimer => v.bridge # "running"
       /\ v.connectionError # "protocol_error"
  BY <1>16 DEF Kept, ServiceKept
<1>19. v.snapshot = ui.snapshot /\ Made(v, applied)
  BY <1>1, <1>15, <1>17, <1>18, BesideRequests
<1>20. v.lines = <<>> /\ v.session = q.session
  <2>1. DOMAIN q = Fields  BY <1>15 DEF Kept, ServiceKept, Fields
  <2> QED  BY <1>12, <1>16, <2>1, FieldsAre DEF Only
<1>21. /\ RequestsKept(ui') /\ ServiceKept(ui') /\ ui'.lines = <<>> /\ ui'.bridge = "off"
       /\ Made(ui', applied) /\ ui'.snapshot = ui.snapshot /\ ui'.session[1] = ui.session[1]
  BY <1>5, <1>12, <1>15, <1>16, <1>19, <1>20 DEF Kept
<1>22. DisplayKept'
  <2>1. Made(ui', applied') /\ applied' \in [session : Sessions, id : Nat] /\ applied'.session # <<0, 1>>
    BY <1>1, <1>2, <1>21
  <2>2. published' \in 1..MaxPublications /\ popup' \in BOOLEAN  BY <1>1, <1>2
  <2> QED  BY <1>2, <1>3, <1>6, <1>7, <1>9, <1>10, <1>21, <2>1, <2>2, StepAt
<1> QED  BY <1>21, <1>22

(* The invariant holds.                                                     *)
LEMMA DisplayStep ==
  ASSUME DisplayKept, Next
  PROVE  DisplayKept' /\ KeepsUp /\ NeverBackwards
<1>1. applied' = applied => NeverBackwards
  BY StateParts, NotEarlierThanItself DEF NeverBackwards
<1>2. ui.snapshot.sequence >= ui.snapshot.sequence
  <2>1. ui.snapshot.sequence \in Nat
    BY StateParts DEF Kept, ServiceKept, NoSnapshot
  <2> QED  BY <2>1
<1>3. ui' = ui => KeepsUp  BY <1>2 DEF KeepsUp
<1>4. ui'.snapshot = ui.snapshot => KeepsUp  BY <1>2 DEF KeepsUp
<1>5. ASSUME NEW k \in DOMAIN conn, Serve(k)
      PROVE  DisplayKept' /\ KeepsUp /\ NeverBackwards
  BY <1>3, <1>5, ServeKeeps
<1>6. ASSUME NEW k \in DOMAIN conn, Leave(k)
      PROVE  DisplayKept' /\ KeepsUp /\ NeverBackwards
  BY <1>1, <1>3, <1>6, LeaveKeeps DEF Leave
<1>7. CASE StrangerConnects  BY <1>1, <1>3, <1>7, StrangerKeeps DEF StrangerConnects
<1>8. CASE Publish  BY <1>1, <1>3, <1>8, PublishKeeps DEF Publish
<1>9. CASE DaemonStop  BY <1>1, <1>3, <1>9, StopKeeps DEF DaemonStop
<1>10. CASE DaemonStart  BY <1>1, <1>3, <1>10, RestartKeeps DEF DaemonStart
<1>11. CASE StartConnection  BY <1>1, <1>4, <1>11, StartKeeps DEF StartConnection
<1>12. CASE BridgeExits  BY <1>1, <1>4, <1>12, BridgeExitKeeps DEF BridgeExits
<1>13. CASE Deliver
  <2>1. applied' = applied  BY <1>13 DEF Deliver
  <2> QED  BY <1>1, <1>13, <2>1, DeliverKeeps DEF KeepsUp
<1>14. CASE HandshakeTimeout  BY <1>1, <1>4, <1>14, TimeoutKeeps DEF HandshakeTimeout
<1>15. CASE PanelRetry  BY <1>1, <1>4, <1>15, RetryKeeps DEF PanelRetry
<1>16. CASE UserPanel  BY <1>1, <1>4, <1>16, PanelKeeps DEF UserPanel
<1>17. CASE UserRefresh  BY <1>1, <1>4, <1>17, RefreshKeeps DEF UserRefresh
<1>18. CASE FrontendExit  BY <1>1, <1>4, <1>18, ExitKeeps DEF FrontendExit
<1>19. CASE FrontendStart
  <2>1. applied' = applied  BY <1>19 DEF FrontendStart
  <2> QED  BY <1>1, <1>19, <2>1, LoadKeeps DEF KeepsUp
<1> QED
  BY <1>5, <1>6, <1>7, <1>8, <1>9, <1>10, <1>11, <1>12, <1>13, <1>14, <1>15, <1>16, <1>17, <1>18,
     <1>19 DEF Next

(* A step that changes nothing keeps the invariant.                         *)
LEMMA DisplayStutters ==
  ASSUME DisplayKept, UNCHANGED vars
  PROVE  DisplayKept'
<1>2. /\ published \in 1..MaxPublications /\ popup \in BOOLEAN /\ budget \in [Spendable -> Nat]
      /\ stream \in Nat \ {0} /\ Kept(ui) /\ ui.lines = <<>> /\ Made(ui, applied)
      /\ ui.bridge = "running" => Talks(ui, conn[attached])
      /\ attached # 0 /\ conn[attached].peer =>
             ui.bridge # "off" /\ Ordered(ui, conn[attached].inbox, applied)
  BY StateParts
<1>3. /\ ui' = ui /\ conn' = conn /\ stream' = stream /\ up' = up /\ attached' = attached
      /\ applied' = applied /\ published' = published /\ popup' = popup /\ budget' = budget
  BY DEF vars
<1>4. RequestsKept(ui') /\ ServiceKept(ui') /\ ui'.lines = <<>> /\ Made(ui', applied)
  BY <1>2, <1>3 DEF Kept
<1>5. /\ ui'.bridge # "off" => ui.bridge # "off"
      /\ ui'.bridge = "running" => ui.bridge = "running" /\ Talks(ui', conn[attached])
      /\ attached # 0 /\ conn[attached].peer =>
             ui'.bridge # "off" /\ Ordered(ui', conn[attached].inbox, applied)
  BY <1>2, <1>3
<1>6. published' \in 1..MaxPublications /\ popup' \in BOOLEAN /\ budget' \in [Spendable -> Nat]
  BY <1>2, <1>3
<1>1. ui'.session[1] = ui.session[1]  BY <1>3
<1>7. DisplayKept'  BY <1>1, <1>3, <1>4, <1>5, <1>6, StepBeside
<1> QED  BY <1>7

(* The connections, the frontend and the runtime stay as DisplayKept says:  *)
(* for every step of the tasks, the bridge, the frontend and the faults.    *)
THEOREM DisplayKeptHolds ==
  Spec => []DisplayKept
<1>1. DisplayKept /\ [Next]_vars => DisplayKept'
  BY DisplayStep, DisplayStutters
<1> QED  BY <1>1, KeptAtFirst, PTL DEF Spec

(* What the frontend shows is of the stream it talks to and no frame of the *)
(* daemon is ever rejected, for any number of connections, restarts,        *)
(* requests and retries; nothing is applied without a handshake.            *)
THEOREM ShownIsOfStreamHolds ==
  Spec => []ShownIsOfStream
<1>1. DisplayKept => ShownIsOfStream
  BY DEF DisplayKept, ShownIsOfStream, ServiceKept, NeverRejected, FromBackend, PanelsInOrder
<1> QED  BY <1>1, DisplayKeptHolds, PTL

(* While the frontend talks to one daemon incarnation, the display never    *)
(* goes back or blank, over any number of reconnects and repeated frames.   *)
THEOREM ShownNeverRegressesHolds ==
  Spec => ShownNeverRegresses
<1>1. DisplayKept /\ [Next]_vars => [KeepsUp]_vars
  BY DisplayStep
<1>2. Spec => [][KeepsUp]_vars
  BY <1>1, DisplayKeptHolds, PTL DEF Spec
<1> QED  BY <1>2 DEF ShownNeverRegresses

(* The runtime never takes a panel state older than one it took, although   *)
(* tasks of broken connections still hold older ones, for any number of     *)
(* reconnects and daemon restarts. Over a restart of the shell the only     *)
(* older one it can take is a line of an earlier shell's bridge that has    *)
(* not exited yet: the new shell does not wait for it (Service.qml:2884).   *)
THEOREM NoStaleActionHolds ==
  Spec => NoStaleAction
<1>1. DisplayKept /\ [Next]_vars => [NeverBackwards]_vars
  BY DisplayStep
<1>2. Spec => [][NeverBackwards]_vars
  BY <1>1, DisplayKeptHolds, PTL DEF Spec
<1> QED  BY <1>2 DEF NoStaleAction
================================================================================
