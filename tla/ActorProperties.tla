--------------------------- MODULE ActorProperties ---------------------------
(****************************************************************************)
(* What the runtime actor promises its clients: bounded and unique fetches, *)
(* a queue that loses nothing, snapshots that never show one fetch's data   *)
(* as another's, and refreshes that conclude.                               *)
(****************************************************************************)
EXTENDS RuntimeActor

RequiredWorkers == {w \in workers : w.kind = "required"}

(* At most MaxInFlight required fetches run at once, no scope is fetched    *)
(* twice at the same time (every running fetch is the one active_required   *)
(* names), and this also holds while the shutdown drains them.              *)
FetchesBounded ==
    /\ Cardinality(RequiredWorkers) <= MaxInFlight
    /\ \A w \in RequiredWorkers : RequiredIsCurrent(w)

(* Until the drain, a scope in active_required has a running worker whose   *)
(* join frees it: otherwise every later request would be coalesced into     *)
(* work that never ends.  The same holds for active_optional.               *)
ActiveHasWorker ==
    pc \in {"select", "admit", "fill"} =>
        \A s \in Scopes :
            /\ activeRequired[s] # None =>
                  \E w \in RequiredWorkers : w.scope = s /\ w.gen = activeRequired[s]
            /\ activeOptional[s] # None =>
                  \E w \in workers \ RequiredWorkers :
                      w.scope = s /\ w.gen = activeOptional[s]

(* "pending queue and membership set stay synchronized" and "a              *)
(* non-coalesced scope must be newly pending" (the debug assertions of      *)
(* admit_refresh and fill_required_slots): the queue holds every scope of   *)
(* the set once and no other, and no queued scope is being fetched.         *)
PendingConsistent ==
    /\ \A i, j \in 1 .. Len(pending) : pending[i].scope = pending[j].scope => i = j
    /\ pendingScopes = {pending[i].scope : i \in 1 .. Len(pending)}
    /\ \A s \in pendingScopes : activeRequired[s] = None

(* When the actor waits for input, a request is queued only because every   *)
(* slot is taken: no freed slot is left idle while work is queued.          *)
WorkConserving == pc = "select" /\ pending # <<>> => ~SlotFree

(* Every published snapshot passes the domain's checks even when the wall   *)
(* clock runs backwards or a provider's sample lies in the future, so that  *)
(* no transition ends the actor with a RuntimeFault.                        *)
NoRuntimeFault == \A s \in Scopes : IsValid(snapshots[s])

(* The ledger shown with a sample belongs to it: without a local history it *)
(* was computed by the refresh that fetched the sample; with one it is the  *)
(* current local history, which a quota fetch never overwrites.             *)
LedgerBelongsToSample ==
    \A s \in Scopes : HasSample(snapshots[s]) =>
        IF s \in HistoryScopes
        THEN snapshots[s].sample.cost = snapshots[s].data
        ELSE snapshots[s].sample.cost \in {None, snapshots[s].sample.gen}

(* A snapshot says Refreshing only while its fetch runs, so that the panel  *)
(* never shows a refresh that nothing will end.                             *)
NeverStuckRefreshing ==
    \A s \in Scopes : snapshots[s].phase = "Refreshing" => activeRequired[s] # None

(* Once a scope has been admitted for the first time its local history says *)
(* Scanning only while a history worker is current.                         *)
ScanHasWorker ==
    \A s \in Scopes : snapshots[s].history = "Scanning" /\ generations[s] > 0
                          => activeOptional[s] # None

(* The three together: what is marked as running is run by somebody, and    *)
(* what can run is not left waiting.                                        *)
WorkIsInHand == ActiveHasWorker /\ WorkConserving /\ ScanHasWorker

(* A fetch that starts for any reason but a manual request starts outside   *)
(* the scope's cooldown, and a periodic one not before the minimum interval *)
(* since the last attempt, also when it waited in the queue in between.     *)
AutomaticStartsHonourBackoff ==
    [][\A w \in {v \in workers' \ workers : v.kind = "required"} :
          /\ w.trigger # "Manual" => cooldowns[w.scope] <= mono
          /\ w.trigger = "Periodic" /\ lastAttempts[w.scope] # None
                => lastAttempts[w.scope] + MinInterval[w.scope] <= mono]_vars

(* "automatic quota refreshes do not interrupt a running history scan"      *)
(* (docs/codexbar-parity.md): the current history worker of a scope is only *)
(* given up for one of a manual refresh, or when it is joined.              *)
ScanSurvivesAutomaticRefresh ==
    [][\A w \in workers : (/\ w.scope \in HistoryScopes
                           /\ w.kind = "optional"
                           /\ OptionalIsCurrent(w)
                           /\ w \in workers'
                           /\ activeOptional'[w.scope] # w.gen)
          => \E v \in workers' \ workers :
                 v.scope = w.scope /\ v.trigger = "Manual"]_vars

(* The published local history never goes back to an older scan: a late     *)
(* worker that a newer one superseded cannot overwrite the newer data.      *)
HistoryNeverRegresses ==
    [][\A s \in Scopes : snapshots'[s].data # None
                             => snapshots'[s].data >= snapshots[s].data]_vars

(* The actor drives its scheduler as SchedulerMachine does: every actor     *)
(* step is a step of that specification or leaves scheduler and clocks      *)
(* alone, so that what holds of the scheduler under an arbitrary caller     *)
(* holds of it inside the actor.                                            *)
Sched == INSTANCE SchedulerMachine
ImplementsScheduler == Sched!Spec

(* docs/superpowers/specs/2026-08-29-omarchy-ai-bar-design.md, 9.4: "A      *)
(* failed refresh does not erase the last successful snapshot."             *)
FailureKeepsLastGood ==
    [][\A s \in Scopes : HasSample(snapshots[s]) => HasSample(snapshots'[s])]_vars

------------------------------------------------------------------------------
(* Fairness.  The handler's loops run to their end, and provider fetches,   *)
(* bounded by their transport and subprocess timeouts, are joined before    *)
(* any command or deadline is taken.                                        *)
FinishFetchOf(s) ==
    \E w \in workers : w.scope = s /\ (RequiredSucceeded(w) \/ RequiredMismatched(w)
                                       \/ RequiredFailed(w) \/ RequiredPanicked(w))

Fairness ==
    /\ WF_vars(AdmitStep) /\ WF_vars(FillStep)
    /\ \A s \in Scopes : WF_vars(FinishFetchOf(s))

FairSpec == Spec /\ Fairness

(* An admitted refresh, running or queued behind the limit, concludes       *)
(* unless the daemon is told to stop.                                       *)
RefreshConcludes ==
    \A s \in Scopes : Busy(s) ~> (~Busy(s) \/ shutdown)

==============================================================================
