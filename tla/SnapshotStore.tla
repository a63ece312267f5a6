---------------------------- MODULE SnapshotStore ----------------------------
(****************************************************************************)
(* The transitions of one provider/account snapshot in the actor-owned      *)
(* store (crates/runtime/src/snapshot_store.rs over the snapshot types of   *)
(* crates/domain/src/snapshot.rs), as operators from the current snapshot   *)
(* to the one that is published.  Publication itself replaces the watched   *)
(* value in the same step, so the map of snapshots is what readers see.     *)
(*                                                                          *)
(* A sample keeps the time of its fetch, the refresh generation that        *)
(* produced it, the reset boundary of its rate window and the ledger (cost  *)
(* usage) attached to it; a ledger is named by the generation of the worker *)
(* that computed it.                                                        *)
(****************************************************************************)
EXTENDS Timestamps

NoError == "NoError"
NoHistory == "NoHistory"

AutomaticErrors == {"RateLimited", "ProviderUnavailable", "Network", "Api"}
ManualErrors == {"MissingCredential", "AuthenticationExpired", "PermissionDenied"}
ErrorKind == AutomaticErrors \cup ManualErrors \cup {"Parse"}

LocalHistoryState == {"Scanning", "Ready", "Empty", "Failed"}
RefreshPhase == {"Idle", "Scheduled", "Refreshing"}

Sample == [fetchedAt : Nat, gen : Nat, reset : Nat, cost : Nat]
NoSample == [fetchedAt |-> None, gen |-> None, reset |-> None, cost |-> None]

(* stale = None is Freshness::Fresh, any other value Stale { since }. *)
ProviderSnapshot ==
    [state : {"Loading", "Ready", "Unavailable"}, sample : Sample, stale : Nat,
     phase : RefreshPhase, at : Nat, error : ErrorKind \cup {NoError},
     retryAfter : Nat, history : LocalHistoryState \cup {NoHistory}, data : Nat]

Loading ==
    [state |-> "Loading", sample |-> NoSample, stale |-> None,
     phase |-> "Idle", at |-> None, error |-> NoError, retryAfter |-> None,
     history |-> NoHistory, data |-> None]

Ready(sample, stale, error, retryAfter) ==
    [Loading EXCEPT !.state = "Ready", !.sample = sample, !.stale = stale,
                    !.error = error, !.retryAfter = retryAfter]

Unavailable(error, retryAfter) ==
    [Loading EXCEPT !.state = "Unavailable", !.error = error,
                    !.retryAfter = retryAfter]

(* The checks of ProviderSnapshot::ready; a transition that fails them is a *)
(* RuntimeFault that ends the actor.                                        *)
IsValid(snapshot) ==
    snapshot.state = "Ready" =>
        /\ snapshot.stale # None => snapshot.stale >= snapshot.sample.fetchedAt
        /\ snapshot.error # NoError => snapshot.stale # None

HasSample(snapshot) == snapshot.state = "Ready"

------------------------------------------------------------------------------
(* publish_change: a transition that says nothing about local history keeps *)
(* the current one.                                                         *)
KeepHistory(current, next) ==
    [next EXCEPT !.history = current.history, !.data = current.data]

(* backfilling_reset_time: only a missing reset, from a cached one still in *)
(* the future.  `window' says whether the fresh sample has the rate window. *)
Backfill(sample, window, cached, now) ==
    IF window /\ sample.reset = None /\ cached.reset > now
    THEN [sample EXCEPT !.reset = cached.reset]
    ELSE sample

(* Mutant: a success keeps the ledger that the fetch itself carried. *)
SuccessIgnoringHistory(current, sample, window, now) ==
    KeepHistory(current,
        Ready(IF HasSample(current)
              THEN Backfill(sample, window, current.sample, now) ELSE sample,
              None, NoError, None))

ApplySuccess(current, sample, window, now) ==
    LET filled == IF HasSample(current)
                  THEN Backfill(sample, window, current.sample, now)
                  ELSE sample
        ledger == IF current.history # NoHistory THEN current.data ELSE filled.cost
    IN  KeepHistory(current,
            Ready([filled EXCEPT !.cost = ledger], None, NoError, None))

(* Mutant: the failure time is taken from the wall clock as it is. *)
FailureAtWallTime(current, error, retryAfter, now) ==
    KeepHistory(current,
        IF error \in AutomaticErrors /\ HasSample(current)
        THEN Ready(current.sample, now, error, retryAfter)
        ELSE Unavailable(error, retryAfter))

(* Mutant: the overlay keeps the refresh phase of the failed fetch. *)
FailureKeepingPhase(current, error, retryAfter, now) ==
    KeepHistory(current,
        IF error \in AutomaticErrors /\ HasSample(current)
        THEN [Ready(current.sample, Later(now, current.sample.fetchedAt),
                    error, retryAfter) EXCEPT !.phase = current.phase]
        ELSE Unavailable(error, retryAfter))

(* A transient failure overlays the last-known-good sample; any other one   *)
(* retires it.                                                              *)
ApplyFailure(current, error, retryAfter, now) ==
    KeepHistory(current,
        IF error \in AutomaticErrors /\ HasSample(current)
        THEN Ready(current.sample, Later(now, current.sample.fetchedAt),
                   error, retryAfter)
        ELSE Unavailable(error, retryAfter))

ApplyLocalHistory(current, state, data) ==
    LET next == [current EXCEPT !.history = state, !.data = data]
    IN  IF HasSample(current) THEN [next EXCEPT !.sample.cost = data] ELSE next

MarkHistoryState(current, state) ==
    IF current.history = NoHistory THEN current
    ELSE ApplyLocalHistory(current, state, current.data)

ApplyCostUsage(current, baseFetchedAt, ledger) ==
    IF HasSample(current) /\ current.sample.fetchedAt = baseFetchedAt
    THEN [current EXCEPT !.sample.cost = ledger]
    ELSE current

SetReadyRefreshPhase(current, phase, at) ==
    IF HasSample(current) THEN [current EXCEPT !.phase = phase, !.at = at]
    ELSE current

MarkScheduled(current, at) == SetReadyRefreshPhase(current, "Scheduled", at)
MarkRefreshing(current, at) == SetReadyRefreshPhase(current, "Refreshing", at)

(* Mutant: a retained sample starts fresh. *)
RestoreAsFresh(retained, now) ==
    IF HasSample(retained) THEN Ready(retained.sample, None, NoError, None)
    ELSE Loading

(* new_with_retained: a retained last-known-good sample starts stale and    *)
(* idle, without its error; anything else starts loading.                   *)
Restore(retained, now) ==
    IF HasSample(retained)
    THEN Ready(retained.sample, Later(now, retained.sample.fetchedAt), NoError, None)
    ELSE Loading

==============================================================================
