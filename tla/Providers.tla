------------------------------- MODULE Providers -------------------------------
(****************************************************************************)
(* The provider adapters side by side: a fetch of one of them, chosen in    *)
(* the initial state, against every sequence of answers of its services.    *)
(****************************************************************************)
EXTENDS ProviderFetch

VARIABLE adapter

MM == INSTANCE MiniMax WITH MaxBillingPages <- 2, MaxBillingRecords <- 4
KI == INSTANCE Kiro
AL == INSTANCE AlibabaAdapters WITH MaxProfiles <- 2, PersonalAttempts <- 3
PS == INSTANCE ProviderSources WITH HistoryMinutes <- 15
SE == INSTANCE SessionAdapters WITH MaxSessions <- 2, MaxHops <- 2, MaxWorkspaces <- 2, HistoryDays <- 3, MaxEntries <- 2
AG == INSTANCE AgentAdapters WITH Deadline <- 9, KiloMaxOrganizations <- 2, MaxLifetime <- 6, MaxInterval <- 3, SlowDown <- 2, MaxProfiles <- 3,
          MaxBudgetSessions <- 2, MaxBudgetPages <- 2, MaxBudgetWindows <- 3, MaxBudgetsPerPage <- 3, MaxMetaTags <- 2, MonthHours <- 120
CX == INSTANCE CodexAdapter WITH MaxExtraWindows <- 2, MaxAdditionalLimits <- 4, MaxLimitEntries <- 2, MaxResetCredits <- 2
CK == INSTANCE CookieAdapters WITH ZoomMaxSessions <- 2, ZoomPageLimit <- 2, ZoomMaxPages <- 2, ZoomHistoryDays <- 10, QoderMaxQuota <- 50,
          DevinMaxSessions <- 3, StepMaxRedirects <- 2, NotionMaxProfiles <- 2
KY == INSTANCE KeyAdapters WITH ZaiMaxInteger <- 100800, ZaiMaxRows <- 6, ZaiMaxPoints <- 3, OrMaxInteger <- 9, OrMaxRows <- 6, OrMaxDistinct <- 3,
          OrHistoryDays <- 30, DoubaoMaxQuotas <- 3, DoubaoMillis <- 2000, DoubaoMaxTime <- 1000, BedrockMaxVariables <- 3, BedrockMaxPages <- 2,
          BedrockMaxGroups <- 3, BedrockMonthHours <- 720, VertexEarly <- 5, VertexMaxPages <- 2, VertexMaxSeries <- 3, VertexMaxPoints <- 3
PL == INSTANCE PlanAdapters WITH GrokMaxProfiles <- 3, GrokMaxSessions <- 2, ChutesMaxQuotas <- 2, ChutesMillis <- 2000, ChutesMaxMinutes <- 100000,
          LongMaxSessions <- 3, LongMaxPackages <- 2, LongOldest <- 100, LongMillis <- 2000, CcMaxProfiles <- 2, CcMaxAmount <- 1000, CcMillis <- 2000

AdapterInit ==
    \/ adapter = "minimax" /\ MM!Init
    \/ adapter = "kiro" /\ KI!Init
    \/ adapter = "alibaba" /\ AL!Init
    \/ adapter = "sources" /\ PS!Init
    \/ adapter = "session" /\ SE!Init
    \/ adapter = "agent" /\ AG!Init
    \/ adapter = "codex" /\ CX!Init
    \/ adapter = "cookie" /\ CK!Init
    \/ adapter = "key" /\ KY!Init
    \/ adapter = "plan" /\ PL!Init

AdapterNext ==
    \/ adapter = "minimax" /\ MM!Next /\ UNCHANGED adapter
    \/ adapter = "kiro" /\ KI!Next /\ UNCHANGED adapter
    \/ adapter = "alibaba" /\ AL!Next /\ UNCHANGED adapter
    \/ adapter = "sources" /\ PS!Next /\ UNCHANGED adapter
    \/ adapter = "session" /\ SE!Next /\ UNCHANGED adapter
    \/ adapter = "agent" /\ AG!Next /\ UNCHANGED adapter
    \/ adapter = "codex" /\ CX!Next /\ UNCHANGED adapter
    \/ adapter = "cookie" /\ CK!Next /\ UNCHANGED adapter
    \/ adapter = "key" /\ KY!Next /\ UNCHANGED adapter
    \/ adapter = "plan" /\ PL!Next /\ UNCHANGED adapter

Spec == AdapterInit /\ [][AdapterNext]_<<vars, adapter>>

(* The user is told to sign in again only when a service, a tool or a       *)
(* stored login said so; and that a credential is missing only before       *)
(* anything was sent, or when the session, file or tool that was used last  *)
(* turned out not to have one. Which of several failures an adapter reports *)
(* decides what the user is asked for.                                      *)
LoginOnlyWhenRefused ==
    CASE adapter = "minimax" -> MM!AuthenticationMeansRefused
      [] adapter = "kiro" -> KI!LoginWasAsked
      [] adapter = "alibaba" -> AL!LoginOnlyWhenRefused
      [] adapter = "sources" -> PS!LoginOnlyWhenRefused
      [] adapter = "session" -> SE!LoginOnlyWhenRefused
      [] adapter = "agent" -> AG!LoginOnlyWhenRefused
      [] adapter = "codex" -> CX!LoginOnlyWhenRefused
      [] adapter = "cookie" -> CK!LoginOnlyWhenRefused
      [] adapter = "key" -> KY!LoginOnlyWhenRefused
      [] adapter = "plan" -> PL!LoginOnlyWhenRefused

(* The optional requests whose failure is passed over whatever it is, a     *)
(* cancellation too; and Claude's, whose panel of a moment ago is shown.    *)
Forgiving ==
    {<<"claude", "oauth usage">>, <<"copilot", "identity">>, <<"copilot", "budget page">>, <<"copilot", "budgets">>,
     <<"zai", "models">>, <<"zai", "balance">>, <<"openrouter", "key">>, <<"openrouter", "activity">>,
     <<"grok", "settings">>, <<"chutes", "quotas">>, <<"chutes", "quota_usage">>, <<"longcat", "fuel">>}
CancellationHeeded ==
    Returned => \A i \in DOMAIN log : log[i].reply.code = "cancelled" =>
        adapter \in {"agent", "key", "plan"} /\ <<setup.provider, log[i].req.to>> \in Forgiving


(* What is sent, and where: no credential to an origin its configuration    *)
(* does not allow, no other source once one has answered, no program run a  *)
(* second time that had answered the first, no page beyond the limit, and   *)
(* no fetch from a source other than the registered one or its browser.     *)
RequestsStayInBounds ==
    CASE adapter = "minimax" -> MM!FirstUsableWins /\ MM!StrictStaysOwned
      [] adapter = "kiro" -> KI!SecondRunOnlyAfterSilence
      [] adapter = "alibaba" -> AL!RequestsStayInBounds
      [] adapter = "sources" -> PS!RequestsStayInBounds
      [] adapter = "session" -> SE!RequestsStayInBounds
      [] adapter = "agent" -> AG!RequestsStayInBounds
      [] adapter = "codex" -> CX!RequestsStayInBounds
      [] adapter = "cookie" -> CK!RequestsStayInBounds
      [] adapter = "key" -> KY!RequestsStayInBounds
      [] adapter = "plan" -> PL!RequestsStayInBounds

================================================================================
