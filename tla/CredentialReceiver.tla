--------------------------- MODULE CredentialReceiver ---------------------------
(****************************************************************************)
(* The one-shot credential transport of ipc/credential.rs: a socket whose   *)
(* name disappears when one client is accepted, from which one netstring    *)
(* (length, colon, value, comma, end of stream) is read before an absolute  *)
(* deadline. Clients write symbol by symbol, stop, close early or keep      *)
(* trickling; other clients try to connect meanwhile.                       *)
(****************************************************************************)
EXTENDS Naturals, Sequences, SequencesExt

CONSTANTS
    Clients,   \* processes that connect
    Peers,     \* the clients whose UID is the expected one
    MaxBytes,  \* MAX_CREDENTIAL_BYTES
    MaxDigits, \* MAX_LENGTH_DIGITS
    Deadline,  \* the absolute deadline, in ticks after bind
    MaxSent    \* bound on the symbols one client writes

ReceiverAssumption ==
    /\ Peers \subseteq Clients
    /\ {MaxBytes, MaxDigits, Deadline} \subseteq Nat \ {0}

Digits == {"0", "1", "2"}
Symbols == Digits \cup {":", ",", "!"}   \* "!" is a byte that is not UTF-8
Value == [x \in Digits |-> CASE x = "0" -> 0 [] x = "1" -> 1 [] x = "2" -> 2]
NoClient == "none"

VARIABLES
    now,      \* the clock
    pc,       \* listening, accepted, or where in the frame; done
    named,    \* the socket's name exists
    queue,    \* clients the kernel has connected, not yet accepted
    client,   \* the accepted client
    sent,     \* sent[c]: what client c has written
    closed,   \* the clients that closed their write side
    taken,    \* how much of the accepted client's bytes was read
    digits,   \* the length prefix read so far
    payload,  \* the value read so far
    result    \* the outcome

vars == <<now, pc, named, queue, client, sent, closed, taken, digits, payload, result>>
stream == <<client, taken, digits, payload>>

Init ==
    /\ now = 0 /\ pc = "listening" /\ named = TRUE
    /\ queue = <<>> /\ client = NoClient
    /\ sent = [c \in Clients |-> <<>>] /\ closed = {}
    /\ taken = 0 /\ digits = <<>> /\ payload = <<>> /\ result = "none"

Connected == {client} \cup Range(queue)

(* External: a client connects while the name exists, writes, closes. What  *)
(* a client of another user writes is never read and is left out.           *)
Connect(c) ==
    /\ named /\ pc # "done" /\ c \notin Connected
    /\ queue' = Append(queue, c)
    /\ UNCHANGED <<now, pc, named, sent, closed, result, stream>>

Send(c) ==
    /\ c \in (Peers \cap Connected) \ closed /\ Len(sent[c]) < MaxSent
    /\ \E x \in Symbols : sent' = [sent EXCEPT ![c] = Append(@, x)]
    /\ UNCHANGED <<now, pc, named, queue, closed, result, stream>>

Close(c) ==
    /\ c \in Connected \ closed
    /\ closed' = closed \cup {c}
    /\ UNCHANGED <<now, pc, named, queue, sent, result, stream>>

Tick ==
    /\ now < Deadline /\ now' = now + 1
    /\ UNCHANGED <<pc, named, queue, sent, closed, result, stream>>

Finish(r) == pc' = "done" /\ result' = r /\ named' = FALSE

(* External: another process of the user removes or replaces the name.      *)
Rename ==
    /\ named /\ named' = FALSE
    /\ UNCHANGED <<now, pc, queue, sent, closed, result, stream>>

(* accept_before_deadline: the first client in the kernel's queue, or       *)
(* accept's own error. The name is still there, and others may connect.     *)
Accept ==
    /\ pc = "listening" /\ now < Deadline
    /\ \/ /\ queue # <<>> /\ client' = Head(queue) /\ queue' = Tail(queue)
          /\ pc' = "accepted" /\ UNCHANGED <<named, result>>
       \/ Finish("Accept") /\ UNCHANGED <<client, queue>>
    /\ UNCHANGED <<now, sent, closed, taken, digits, payload>>

(* receive: then SocketCleanup::unlink, for which the name must still lead  *)
(* to this socket, and verify_peer_uid.                                     *)
Unlink ==
    /\ pc = "accepted"
    /\ \/ named /\ client \in Peers /\ named' = FALSE /\ pc' = "length" /\ UNCHANGED result
       \/ named /\ client \notin Peers /\ Finish("PeerUidMismatch")
       \/ ~named /\ Finish("SocketPathChanged")
    /\ UNCHANGED <<now, queue, sent, closed, stream>>

Reading == {"length", "payload", "terminator", "end"}
Available == taken < Len(sent[client])
Ended == client \in closed /\ ~Available

(* remaining_until: accepting and every read check the one deadline first.  *)
Elapse ==
    /\ pc \notin {"accepted", "done"} /\ now = Deadline /\ Finish("DeadlineElapsed")
    /\ UNCHANGED <<now, queue, sent, closed, stream>>

LengthOf(prefix) ==
    LET value[n \in 0 .. Len(prefix)] ==
            IF n = 0 THEN 0 ELSE 10 * value[n - 1] + Value[prefix[n]]
    IN  value[Len(prefix)]
DeclaredLength == LengthOf(digits)

(* read_length_prefix, one byte; at the colon the canonical form and the    *)
(* size are checked before anything is allocated (read_one_frame).          *)
LengthRead(x) ==
    \/ /\ x \in Digits /\ Len(digits) < MaxDigits
       /\ digits' = Append(digits, x) /\ UNCHANGED <<pc, result, named>>
    \/ /\ x = ":" /\ digits # <<>> /\ ~(Len(digits) > 1 /\ digits[1] = "0")
       /\ UNCHANGED digits
       /\ IF DeclaredLength = 0 THEN Finish("Empty")
          ELSE IF DeclaredLength > MaxBytes THEN Finish("TooLarge")
          ELSE pc' = "payload" /\ UNCHANGED <<result, named>>
    \/ /\ ~(x \in Digits /\ Len(digits) < MaxDigits)
       /\ ~(x = ":" /\ digits # <<>> /\ ~(Len(digits) > 1 /\ digits[1] = "0"))
       /\ Finish("InvalidLengthPrefix") /\ UNCHANGED digits

(* read_exact_before, read_terminator_before, require_end_of_stream.        *)
PayloadRead(x) ==
    /\ payload' = Append(payload, x)
    /\ pc' = IF Len(payload') = DeclaredLength THEN "terminator" ELSE "payload"
    /\ UNCHANGED <<digits, result, named>>

ReadByte ==
    /\ pc \in Reading /\ now < Deadline /\ Available
    /\ taken' = taken + 1
    /\ LET x == sent[client][taken + 1]
       IN  \/ pc = "length" /\ LengthRead(x) /\ UNCHANGED payload
           \/ pc = "payload" /\ PayloadRead(x)
           \/ /\ pc = "terminator" /\ UNCHANGED <<digits, payload>>
              /\ IF x = "," THEN pc' = "end" /\ UNCHANGED <<result, named>>
                 ELSE Finish("MissingTerminator")
           \/ pc = "end" /\ Finish("TrailingData") /\ UNCHANGED <<digits, payload>>
    /\ UNCHANGED <<now, queue, client, sent, closed>>

(* A read that returns zero bytes; Credential::from_bytes checks UTF-8 last.*)
EndRead ==
    IF "!" \in Range(payload) THEN "InvalidUtf8" ELSE "ok"

ReadEnd ==
    /\ pc \in Reading /\ now < Deadline /\ Ended
    /\ Finish(CASE pc = "end" -> EndRead
                [] pc = "terminator" -> "MissingTerminator"
                [] OTHER -> "TruncatedFrame")
    /\ UNCHANGED <<now, queue, sent, closed, stream>>

Receiver == Accept \/ Unlink \/ Elapse \/ ReadByte \/ ReadEnd
Next == Receiver \/ Tick \/ Rename \/ \E c \in Clients : Connect(c) \/ Send(c) \/ Close(c)

Spec == Init /\ [][Next]_vars
(* The clock advances and the receiver runs; a client may stop for good.    *)
FairSpec == Spec /\ WF_vars(Receiver) /\ WF_vars(Tick)

(* Every variable keeps its shape, and what was buffered never exceeds the  *)
(* declared limits.                                                         *)
TypeOK ==
    /\ now \in 0..Deadline /\ named \in BOOLEAN
    /\ pc \in Reading \cup {"listening", "accepted", "done"}
    /\ Len(digits) <= MaxDigits /\ Len(payload) <= MaxBytes
    /\ client \in Clients \cup {NoClient}

(* A credential is delivered only when the accepted, verified client wrote  *)
(* exactly its canonical frame and closed: no prefix, no second value, no   *)
(* other spelling of the length (the netstring of receive).                 *)
DeliveredExactly ==
    result = "ok" =>
        /\ client \in Peers \cap closed
        /\ sent[client] = digits \o <<":">> \o payload \o <<",">>
        /\ Len(payload) = DeclaredLength /\ Len(payload) \in 1..MaxBytes
        /\ (Len(digits) > 1 => digits[1] # "0")

(* Before a byte is read the name is gone, so nobody connects any more; a   *)
(* client that connected between the accept and the unlink waits in vain,   *)
(* and an error leaves no name behind either.                               *)
OneShot == pc \in Reading \cup {"done"} => ~named

(****************************************************************************)
(* The inductive invariant.                                                 *)
(****************************************************************************)
ReceiverTypes ==
    /\ sent \in [Clients -> Seq(Symbols)] /\ queue \in Seq(Clients)
    /\ digits \in Seq(Symbols) /\ payload \in Seq(Symbols) /\ taken \in Nat

(* The frame as far as it was read.                                         *)
FrameSoFar ==
    CASE pc = "length" -> digits
      [] pc \in {"payload", "terminator"} -> digits \o <<":">> \o payload
      [] OTHER -> digits \o <<":">> \o payload \o <<",">>

(* What was read is what the accepted client wrote first, and beyond the    *)
(* colon its length is the declared one.                                    *)
ReadIsPrefix ==
    /\ pc \in {"listening", "accepted"} => taken = 0 /\ digits = <<>> /\ payload = <<>>
    /\ pc \in Reading =>
         /\ client \in Peers /\ taken <= Len(sent[client])
         /\ SubSeq(sent[client], 1, taken) = FrameSoFar
         /\ pc = "length" => payload = <<>>
         /\ pc # "length" => /\ DeclaredLength # 0 /\ ~(DeclaredLength > MaxBytes)
                             /\ Len(digits) > 1 => digits[1] # "0"
         /\ pc \in {"terminator", "end"} => Len(payload) = DeclaredLength

FrameKept ==
    /\ ReceiverTypes /\ ReadIsPrefix /\ (result = "ok" => pc = "done")
    /\ DeliveredExactly /\ OneShot

(* And the one behind the limits: what was taken of the value is shorter    *)
(* than the length that was declared in digits and found within the limit.  *)
BuffersKept ==
    /\ TypeOK /\ digits \in Seq(Digits)
    /\ pc = "payload" => Len(payload) < DeclaredLength

=============================================================================
