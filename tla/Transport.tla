-------------------------------- MODULE Transport --------------------------------
(****************************************************************************)
(* HttpTransport::send (providers/transport.rs) with its retry policy       *)
(* (retry.rs) and the approved origins (endpoint.rs): one request is sent,  *)
(* its redirects followed by hand, its body read up to a limit, all within  *)
(* one attempt's timeout; a transient failure is tried again after a delay; *)
(* cancellation wins at every await.                                        *)
(****************************************************************************)
EXTENDS ProviderErrors, Integers

CONSTANTS
    Origins, Approved,     \* origins, and the ones of the EndpointPolicy
    Home,                  \* the request's own origin
    Methods,               \* the methods checked: subset of {"GET", "POST"}
    MaxRedirects, MaxBody, \* max_redirects, max_response_bytes
    RequestTimeout,        \* request_timeout
    MaxRetries, BaseDelay, MaxDelay,  \* RetryPolicy
    MaxRetryAfter          \* largest Retry-After a server names

TransportAssumption ==
    /\ Approved \subseteq Origins /\ Home \in Approved
    /\ {MaxRedirects, MaxBody, MaxRetries, BaseDelay, MaxDelay, MaxRetryAfter} \subseteq Nat
    /\ BaseDelay <= MaxDelay   \* RetryPolicy::is_valid
    /\ RequestTimeout \in Nat \ {0}

VARIABLES
    method, phase,
    retries,    \* completed_retries
    redirects,  \* redirect_count
    at,         \* the origin of the current URL
    body,       \* bytes read so far
    clock,      \* ticks since the attempt, or the delay, began
    delay,      \* the Retry-After of the reply, then the delay slept
    cancelled,
    outcome,    \* how the last attempt ended, "none" meanwhile
    sent,       \* the origins that received the authentication
    writes,     \* requests put on the wire in this attempt
    total       \* ticks since send was called

vars == <<method, phase, retries, redirects, at, body, clock, delay, cancelled,
          outcome, sent, writes, total>>

NoRetryAfter == -1

Init ==
    /\ method \in Methods /\ phase = "request"
    /\ retries = 0 /\ redirects = 0 /\ at = Home /\ body = 0 /\ clock = 0
    /\ delay = NoRetryAfter /\ cancelled = FALSE /\ outcome = "none" /\ sent = {}
    /\ writes = 0 /\ total = 0

End(out) == phase' = "ended" /\ outcome' = out

\* Mutant: any origin passes.
ValidateAny(origin) == origin \in Origins

(* EndpointPolicy::validate: an exact origin of the policy.                 *)
Validate(origin) == origin \in Approved

(* follow_redirects, the top of the loop: the URL's origin is validated     *)
(* before the authentication is attached and the request is sent.           *)
Request ==
    /\ phase = "request" /\ ~cancelled
    /\ IF Validate(at)
       THEN /\ sent' = sent \cup {at} /\ writes' = writes + 1
            /\ phase' = "reply" /\ UNCHANGED outcome
       ELSE End("origin") /\ UNCHANGED <<sent, writes>>
    /\ UNCHANGED <<method, retries, redirects, at, body, clock, delay, cancelled, total>>

(* A redirection: refused for a POST, counted, resolved (a missing location *)
(* is malformed) and its target validated at once.                          *)
Redirect ==
    /\ phase = "reply" /\ ~cancelled
    /\ \/ /\ method # "GET" /\ End("broken") /\ UNCHANGED <<redirects, at>>
       \/ /\ method = "GET" /\ redirects = MaxRedirects
          /\ End("redirects") /\ UNCHANGED <<redirects, at>>
       \/ /\ method = "GET" /\ redirects < MaxRedirects
          /\ redirects' = redirects + 1
          /\ \/ End("broken") /\ UNCHANGED at
             \/ /\ at' \in Origins
                /\ IF Validate(at') THEN phase' = "request" /\ UNCHANGED outcome
                   ELSE End("origin")
    /\ UNCHANGED <<method, retries, body, clock, delay, cancelled, sent, writes, total>>

(* status_error: a status that is neither success nor accepted; 429 and 5xx *)
(* carry the Retry-After the server sent, if any.                           *)
StatusError ==
    /\ phase = "reply" /\ ~cancelled
    /\ \E out \in (Statuses \ {"200"}) \cup {"network"} :
         /\ End(out)
         /\ \E after \in NoRetryAfter..MaxRetryAfter :
              delay' = IF out \in {"429", "500"} THEN after ELSE NoRetryAfter
    /\ UNCHANGED <<method, retries, redirects, at, body, clock, cancelled, sent, writes, total>>

(* A success: a declared length over the limit is refused before reading.   *)
Success ==
    /\ phase = "reply" /\ ~cancelled
    /\ \/ phase' = "body" /\ UNCHANGED outcome
       \/ End("toolarge")
    /\ UNCHANGED <<method, retries, redirects, at, body, clock, delay, cancelled, sent, writes, total>>

(* bytes_stream: a chunk that fits, one that does not, a broken stream.     *)
Chunk ==
    /\ phase = "body" /\ ~cancelled
    /\ \/ body < MaxBody /\ body' = body + 1 /\ UNCHANGED <<phase, outcome>>
       \/ body = MaxBody /\ End("toolarge") /\ UNCHANGED body
       \/ End("broken") /\ UNCHANGED body
    /\ UNCHANGED <<method, retries, redirects, at, clock, delay, cancelled, sent, writes, total>>

Complete ==
    /\ phase = "body" /\ ~cancelled /\ End("200")
    /\ UNCHANGED <<method, retries, redirects, at, body, clock, delay, cancelled, sent, writes, total>>

Attempting == phase \in {"request", "reply", "body"}

(* tokio::time::timeout around the whole attempt, redirects included.       *)
Timeout ==
    /\ Attempting /\ ~cancelled /\ clock = RequestTimeout
    /\ End("timeout") /\ delay' = NoRetryAfter
    /\ UNCHANGED <<method, retries, redirects, at, body, clock, cancelled, sent, writes, total>>

(* Time passes while something is awaited; a deadline reached is acted on.  *)
Tick ==
    /\ \/ Attempting /\ clock < RequestTimeout
       \/ phase = "sleeping" /\ clock < delay
    /\ clock' = clock + 1 /\ total' = total + 1
    /\ UNCHANGED <<method, phase, retries, redirects, at, body, delay, cancelled, outcome, sent, writes>>

AtMost(x, y) == IF x < y THEN x ELSE y

(* send: RetryPolicy::delay decides whether the attempt's error is tried    *)
(* again and after how long; everything else is returned.                   *)
Decide ==
    /\ phase = "ended"
    /\ IF outcome # "200" /\ retries < MaxRetries /\ Retryable(outcome)
       THEN /\ phase' = "sleeping" /\ retries' = retries + 1
            /\ delay' = AtMost(IF delay = NoRetryAfter THEN BaseDelay ELSE delay, MaxDelay)
       ELSE phase' = "returned" /\ UNCHANGED <<retries, delay>>
    /\ clock' = 0
    /\ UNCHANGED <<method, redirects, at, body, cancelled, outcome, sent, writes, total>>

(* The delay is over: a new attempt starts from the request's own URL.      *)
Again ==
    /\ phase = "sleeping" /\ clock = delay /\ ~cancelled
    /\ phase' = "request" /\ redirects' = 0 /\ at' = Home /\ body' = 0
    /\ clock' = 0 /\ delay' = NoRetryAfter /\ outcome' = "none" /\ writes' = 0
    /\ UNCHANGED <<method, retries, cancelled, sent, total>>

(* The caller cancels; the biased select returns before anything else.      *)
Cancel ==
    /\ ~cancelled /\ phase # "returned" /\ cancelled' = TRUE
    /\ UNCHANGED <<method, phase, retries, redirects, at, body, clock, delay, outcome, sent, writes, total>>

Cancelled ==
    /\ cancelled /\ (Attempting \/ phase = "sleeping")
    /\ phase' = "returned" /\ outcome' = "cancelled"
    /\ UNCHANGED <<method, retries, redirects, at, body, clock, delay, cancelled, sent, writes, total>>

Next ==
    \/ Request \/ Redirect \/ StatusError \/ Success \/ Chunk \/ Complete
    \/ Timeout \/ Tick \/ Decide \/ Again \/ Cancel \/ Cancelled

Spec == Init /\ [][Next]_vars
(* The runtime polls a ready future, and its timer fires; a server need     *)
(* never answer.                                                            *)
FairSpec ==
    /\ Spec /\ WF_vars(Tick) /\ WF_vars(Timeout) /\ WF_vars(Decide)
    /\ WF_vars(Again) /\ WF_vars(Cancelled)

(* Every variable keeps its shape; the body never exceeds its limit.        *)
TypeOK ==
    /\ phase \in {"request", "reply", "body", "ended", "sleeping", "returned"}
    /\ retries \in 0..MaxRetries /\ redirects \in 0..MaxRedirects
    /\ body \in 0..MaxBody /\ at \in Origins /\ sent \subseteq Origins
    /\ outcome \in Outcomes \cup {"none", "cancelled"}

(* No redirect chain, in any attempt, carries the authentication to an      *)
(* origin that was not approved (EndpointPolicy::validate).                 *)
CredentialsStayApproved == sent \subseteq Approved

(* A body is put on the wire at most once per attempt: a redirected POST is *)
(* an error, never replayed elsewhere.                                      *)
PostSentOnce == method = "POST" => writes <= 1

(* Whatever the servers do, send is back within its attempts' timeouts and  *)
(* capped delays, however large a Retry-After they name.                    *)
TimeBounded == total <= (MaxRetries + 1) * RequestTimeout + MaxRetries * MaxDelay

(* What send returns is a response, a cancellation, a failure that is never *)
(* retried, or a transient one after all the retries the policy allows.     *)
RetriesUsedUp ==
    phase = "returned" /\ Retryable(outcome) => retries = MaxRetries
RetriedOnlyTransient ==
    retries' = retries + 1 => Retryable(outcome)

(****************************************************************************)
(* The inductive invariant behind the policy's bounds.                      *)
(****************************************************************************)
(* What n failed attempts may cost, each with the delay after it.           *)
Rounds(n) == n * (RequestTimeout + MaxDelay)

(* The time send has taken is paid for: by the rounds before this one and   *)
(* the clock of the attempt, or of the delay that ends the last round.      *)
TimeAccounted ==
    /\ Attempting => clock \in 0..RequestTimeout /\ total <= Rounds(retries) + clock
    /\ phase = "sleeping" => /\ retries > 0 /\ delay \in 0..MaxDelay /\ clock \in 0..delay
                             /\ total + MaxDelay <= Rounds(retries) + clock
    /\ phase \in {"ended", "returned"} => total <= Rounds(retries) + RequestTimeout

(* Only a GET is ever asked for again within an attempt.                    *)
OnlyGetRepeats ==
    method # "GET" => writes <= 1 /\ (phase = "request" => writes = 0)

WithinPolicy ==
    /\ TypeOK /\ total \in Nat /\ writes \in Nat /\ delay \in Int /\ NoRetryAfter <= delay
    /\ TimeAccounted /\ OnlyGetRepeats /\ CredentialsStayApproved /\ RetriesUsedUp

=============================================================================
