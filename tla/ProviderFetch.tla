------------------------------ MODULE ProviderFetch ------------------------------
(****************************************************************************)
(* One fetch of a provider adapter. Every adapter of providers/src/         *)
(* providers is a sequential program that asks its services questions and   *)
(* returns a usage sample or one classified error; what happens between is  *)
(* decided by the answers. An adapter module gives its program as a plan:   *)
(* a function of what has been answered so far, whose value is the next     *)
(* question, the sample or the error. This module runs it against every     *)
(* sequence of answers, and gives the combinators plans are written with.   *)
(****************************************************************************)
EXTENDS ProviderErrors, Integers, Sequences, FiniteSets

VARIABLES
    setup,    \* the configuration and credentials the adapter was built with
    log,      \* the questions asked, with their answers
    verdict   \* what the fetch returned; a question while it runs

vars == <<setup, log, verdict>>

(* The three values a plan can have.                                        *)
Ask(req) == [is |-> "ask", req |-> req]
Ok(value) == [is |-> "ok", value |-> value]
Err(kind) == [is |-> "err", kind |-> kind]

Asked(req) == \E i \in DOMAIN log : log[i].req = req
ReplyTo(req) == log[CHOOSE i \in DOMAIN log : log[i].req = req].reply
(* The caller's token is cancelled: every later request ends at once.       *)
Cancelled == \E i \in DOMAIN log : log[i].cut
(* ... and it was before req was answered: a plan is read again with every  *)
(* answer, and what it decided earlier does not change.                     *)
CancelledBy(req) == \E i \in DOMAIN log : log[i].cut /\ \E j \in i..Len(log) : log[j].req = req

(* `?`: the first step's value is used, its question or error is the whole. *)
Then(p, F(_)) == IF p.is = "ok" THEN F(p.value) ELSE p
(* A fallback for an error; a question stays a question.                    *)
OrElse(p, F(_)) == IF p.is = "err" THEN F(p) ELSE p
(* A step whose value and whose error are both looked at.                   *)
Settled(p, F(_)) == IF p.is = "ask" THEN p ELSE F(p)
(* if let Some: a value that is absent is <<>>.                             *)
None == <<>>
Some(value) == <<value>>
(* ApiKeyCredential::resolve: the first key that is set counts, even if it  *)
(* is no good.                                                              *)
FirstKey(keys) ==
    LET there == SelectSeq(keys, LAMBDA k : k # "none")
    IN  IF there = <<>> \/ there[1] = "malformed" THEN Err("MissingCredential") ELSE Ok(there[1])
(* The first of a sequence of options that is there.                        *)
FirstOf(options) ==
    LET there == {i \in DOMAIN options : options[i] # None}
    IN  IF there = {} THEN None
        ELSE options[CHOOSE i \in there : \A j \in there : i <= j]
Clamp(x, low, high) == IF x < low THEN low ELSE IF x > high THEN high ELSE x

(* A failure that costs nothing but the value.                              *)
Optional(p, default) == IF p.is = "err" THEN Ok(default) ELSE p

(* Several sessions or places in turn: the next one after an error of the   *)
(* kinds in again, else the last answer.                                    *)
AnyOf(n, Attempt(_), again) ==
    LET From[i \in 1..n] ==
          LET p == Attempt(i)
          IN  IF p.is = "err" /\ p.kind \in again /\ i < n THEN From[i + 1] ELSE p
    IN  From[1]

(* classify_capture_error: why a pasted session is not taken.               *)
CaptureKind(error) ==
    CASE error \in {"MissingSecret", "InvalidSecret", "DisallowedHeader"} -> "MissingCredential"
      [] error \in {"InvalidSyntax", "ConflictingHeader", "DisallowedUrl"} -> "Parse"
      [] error = "InvalidPolicy" -> "Api"

(* count_percent.                                                           *)
CountPercent(used, limit) == IF limit > 0 THEN Clamp((100 * used) \div limit, 0, 100) ELSE 0

(* A request and the kind its failure has. A request is known by its        *)
(* record: where the code may send the same one again (a repetition, the    *)
(* next session, another page) the record says which of them it is.         *)
Sent(req, KindOf(_)) ==
    IF ~Asked(req) THEN Ask(req)
    ELSE IF ReplyTo(req).code = "200" THEN Ok(ReplyTo(req).body)
    ELSE Err(KindOf(ReplyTo(req).code))

Reply(code, body) == [code |-> code, body |-> body]
Refusals(codes) == [code : codes, body : {[is |-> "none"]}]
Bodies(set) == [code : {"200"}, body : set]

Running == verdict.is = "ask"

Start(Setups) == setup \in Setups /\ log = <<>> /\ verdict = Ask("first")

Send(plan, Replies(_)) ==
    /\ Running /\ plan.is = "ask"
    /\ \E r \in Replies(plan.req), cut \in BOOLEAN :
         /\ Cancelled => r.code = "cancelled"   \* the token may be cancelled
         /\ r.code = "cancelled" => cut          \* during a request or after it
         /\ log' = Append(log, [req |-> plan.req, reply |-> r, cut |-> cut])
    /\ UNCHANGED <<setup, verdict>>

Return(plan) ==
    /\ Running /\ plan.is # "ask" /\ verdict' = plan
    /\ UNCHANGED <<setup, log>>

Advance(plan, Replies(_)) == Send(plan, Replies) \/ Return(plan)

(* For the properties: how the fetch ended.                                 *)
Returned == verdict.is = "ok"
FailedWith(kinds) == verdict.is = "err" /\ verdict.kind \in kinds
Saw(codes) == \E i \in DOMAIN log : log[i].reply.code \in codes
SawBody(bodies) == \E i \in DOMAIN log : log[i].reply.code = "200" /\ log[i].reply.body.is \in bodies
Answered(req, code) == Asked(req) /\ ReplyTo(req).code = code
=============================================================================
