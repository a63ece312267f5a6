----------------------------- MODULE ProviderErrors -----------------------------
(****************************************************************************)
(* The error vocabulary every provider adapter shares: how the transport    *)
(* classifies an HTTP status or a failure (providers/transport.rs), what    *)
(* each kind means for the scheduler (domain/error.rs), and how an adapter  *)
(* overrides the classification for single statuses (providers/             *)
(* fixed_api.rs). An outcome of a request is a status or a failure name.    *)
(****************************************************************************)

Kinds == {"MissingCredential", "AuthenticationExpired", "PermissionDenied",
          "RateLimited", "ProviderUnavailable", "Network", "Parse", "Api"}

Statuses == {"200", "400", "401", "403", "404", "408", "429", "500"}
Failures == {"timeout", "network", "toolarge", "broken", "redirects", "origin"}
Outcomes == Statuses \cup Failures

(* status_error and TransportError::classified.                             *)
Classified(out) ==
    CASE out = "401" -> "AuthenticationExpired"
      [] out = "403" -> "PermissionDenied"
      [] out = "429" -> "RateLimited"
      [] out = "500" -> "ProviderUnavailable"
      [] out \in {"408", "timeout", "network", "cancelled"} -> "Network"
      [] out \in {"toolarge", "broken", "redirects"} -> "Parse"
      [] OTHER -> "Api"

(* is_retryable: what send may try again by itself.                         *)
Retryable(out) == out \in {"timeout", "network", "408", "429", "500"}

(* ClassifiedError::semantics: which kinds the scheduler retries.           *)
Retry(kind) ==
    CASE kind \in {"MissingCredential", "AuthenticationExpired", "PermissionDenied"} -> "Manual"
      [] kind = "Parse" -> "Never"
      [] OTHER -> "Automatic"

(* send_with_status_map: a status the adapter maps, else the transport's.   *)
Mapped(map, out) == IF out \in DOMAIN map THEN map[out] ELSE Classified(out)
=============================================================================
