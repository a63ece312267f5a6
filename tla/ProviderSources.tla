----------------------------- MODULE ProviderSources -----------------------------
(****************************************************************************)
(* How the daemon comes to a provider's usage: the sources it registers at  *)
(* start (app/provider_bootstrap.rs) from the configuration and the         *)
(* environment, and one refresh of a registered source                      *)
(* (app/provider_refresh.rs): the adapter built from the environment, the   *)
(* browser session as its fallback, and the local history with its cache.   *)
(* An adapter's fetch is one question here; its answer is a sample or the   *)
(* kind of its error.                                                       *)
(****************************************************************************)
EXTENDS ProviderFetch, TLC

CONSTANTS
    HistoryMinutes   \* how long a scanned history is served from the cache

----------------------------------------------------------------------------
(* What a provider's descriptor supports: sources_for of descriptor.rs.     *)
Key == "ApiKey"
Endpoint == "ConfigurableEndpoint"
Manual == "ManualCookie"
Browser == "BrowserSession"
Local == "LocalData"
Cloud == "CloudCredentials"

KeyOnly == {"OpenAi", "Fireworks", "DeepInfra", "Warp", "AiAnd", "IbmBob", "ClinePass", "Moonshot",
            "Synthetic", "Crof", "Venice", "Poe", "ZenMux", "Xai"}
Endpoints == {"AzureOpenAi", "ElevenLabs", "Deepgram", "Chutes", "Neuralwatt", "OpenRouter", "LlmProxy",
              "LiteLlm", "ClawRouter", "Sub2Api"}
Cookies == {"T3Chat", "QwenCloud", "OpenCode", "Devin", "Manus", "Mistral", "CommandCode", "Qoder",
            "Perplexity", "LongCat", "ZoomMate", "Notion", "Abacus"}
SourcesFor(p) ==
    CASE p \in KeyOnly -> {Key}
      [] p \in Endpoints -> {Endpoint, Key}
      [] p \in Cookies -> {Manual, Browser}
      [] p = "Wayfinder" -> {Endpoint}
      [] p = "Copilot" -> {"OAuth"}
      [] p \in {"Bedrock", "VertexAi"} -> {Cloud}
      [] p = "Doubao" -> {Cloud, Key, "Cli"}
      [] p = "Codebuff" -> {Key, Local}
      [] p = "Amp" -> {Key, Manual, Browser, "Cli"}
      [] p = "Kilo" -> {Key, "Cli"}
      [] p = "Kiro" -> {"Cli"}
      [] p = "JetBrains" -> {Local}
      [] p \in {"Alibaba", "MiniMax", "DeepSeek", "Groq"} -> {Key, Manual, Browser}
      [] p = "AlibabaTokenPlan" -> {Manual, Browser, "Cli"}
      [] p = "Mimo" -> {Manual, Browser, Local}
      [] p = "Grok" -> {"Cli", "OAuth", Manual, Browser, Local}
      [] p \in {"Sakana", "StepFun"} -> {Manual}
      [] p = "Kimi" -> {Key, Endpoint, Manual, Browser, "Cli", Local}
      [] p = "Codex" -> {Key, "OAuth", "Cli", Local, Browser}
      [] p = "Claude" -> {"OAuth", "Cli", Local, Browser}
      [] p \in {"Gemini", "Antigravity"} -> {"OAuth", "Cli", Local}
      [] p \in {"Zai", "OpenCodeGo"} -> {Endpoint, Key, Local}
      [] p = "Factory" -> {Key, "OAuth", Browser}
      [] p = "Ollama" -> {Key, Endpoint, Browser}
      [] p = "Zed" -> {Local, Key}
      [] p \in {"Augment", "Cursor", "Windsurf"} -> {"Cli", Local, Manual, Browser}

----------------------------------------------------------------------------
(* The registrations: a table of providers with one source, and those whose *)
(* source depends on what the environment names.                            *)

Has(name) == name \in setup.env
HasAny(names) == names \cap setup.env # {}

LazyProviders ==
    (KeyOnly \cup Endpoints \cup Cookies
     \cup {"Zai", "Bedrock", "VertexAi", "JetBrains", "Wayfinder", "Kiro", "AlibabaTokenPlan", "Sakana",
           "StepFun", "Copilot", "DeepSeek", "Groq", "OpenCodeGo", "Zed", "Augment", "Gemini", "Factory",
           "Cursor", "Antigravity", "Windsurf"})
SelectedProviders == {"Codebuff", "Amp", "Doubao", "Kilo", "Alibaba", "MiniMax", "Kimi", "Mimo", "Ollama"}

(* LAZY_PROVIDER_SPECS.                                                     *)
LazySource(p) ==
    CASE p \in {"AzureOpenAi", "LiteLlm", "LlmProxy", "Sub2Api", "Wayfinder", "ClawRouter"} -> Endpoint
      [] p \in {"Bedrock", "VertexAi"} -> Cloud
      [] p \in {"JetBrains", "Windsurf"} -> Local
      [] p \in {"Kiro", "AlibabaTokenPlan", "Augment"} -> "Cli"
      [] p \in Cookies \cup {"Sakana", "StepFun", "Cursor"} -> Manual
      [] p \in {"Copilot", "Gemini", "Antigravity"} -> "OAuth"
      [] OTHER -> Key

(* browser_lazy_spec: the providers with a browser session as fallback.     *)
Fallback == {"Abacus", "CommandCode", "Devin", "Mistral", "Notion", "OpenCode", "Perplexity", "QwenCloud",
             "T3Chat", "Amp", "MiniMax", "Kimi"}

(* choose_source.                                                           *)
ChooseSource(condition, whenTrue, whenFalse) == IF condition THEN whenTrue ELSE whenFalse
AlibabaKeys == {"ALIBABA_CODING_PLAN_API_KEY", "ALIBABA_QWEN_API_KEY", "DASHSCOPE_API_KEY"}
MiniMaxKeys == {"MINIMAX_CODING_API_KEY", "MINIMAX_API_KEY"}
KimiSession == {"KIMI_MANUAL_COOKIE", "KIMI_AUTH_TOKEN"}
DoubaoAccess == {"VOLCENGINE_ACCESS_KEY_ID", "DOUBAO_ACCESS_KEY_ID"}
DoubaoSecret == {"VOLCENGINE_SECRET_ACCESS_KEY", "DOUBAO_SECRET_ACCESS_KEY"}
DoubaoKeys == {"ARK_API_KEY", "DOUBAO_API_KEY"}

(* kimi_source.                                                             *)
KimiSource ==
    IF Has("KIMI_CODE_API_KEY") THEN ChooseSource(Has("KIMI_CODE_BASE_URL"), Endpoint, Key)
    ELSE ChooseSource(HasAny(KimiSession), Manual, "Cli")
(* doubao_source: signed requests need both keys.                           *)
DoubaoSource ==
    IF HasAny(DoubaoAccess) /\ HasAny(DoubaoSecret) THEN Cloud
    ELSE ChooseSource(HasAny(DoubaoKeys), Key, "Cli")

(* selected_lazy_specs.                                                     *)
SelectedSource(p) ==
    CASE p = "Codebuff" -> ChooseSource(Has("CODEBUFF_API_KEY"), Key, Local)
      [] p = "Amp" -> ChooseSource(Has("AMP_API_KEY"), Key, "Cli")
      [] p = "Doubao" -> DoubaoSource
      [] p = "Kilo" -> ChooseSource(Has("KILO_API_KEY"), Key, "Cli")
      [] p = "Alibaba" -> ChooseSource(HasAny(AlibabaKeys), Key, Manual)
      [] p = "MiniMax" -> ChooseSource(HasAny(MiniMaxKeys), Key, Manual)
      [] p = "Kimi" -> KimiSource
      [] p = "Mimo" -> ChooseSource(Has("OMARCHY_AI_BAR_MIMO_COOKIE"), Manual, Local)
      [] p = "Ollama" -> ChooseSource(Has("OLLAMA_API_URL"), Endpoint, Key)

(* resolve_lazy_source: OpenCode Go reads its local data without a key.     *)
ResolvedSource(p) ==
    IF p = "OpenCodeGo" /\ ~Has("OPENCODE_API_KEY") /\ "opencodego" \in setup.files THEN Local
    ELSE IF p \in SelectedProviders THEN SelectedSource(p) ELSE LazySource(p)

(* The builders: each adapter is made from the environment again, when it   *)
(* is detected and at every refresh, and takes its own decision about the   *)
(* source (build_kimi, build_doubao, build_opencodego, build_mimo, ...);    *)
(* one that does not decide has the source it was registered for.           *)
BuildKimi ==
    IF Has("KIMI_CODE_API_KEY") THEN ChooseSource(Has("KIMI_CODE_BASE_URL"), Endpoint, Key)
    ELSE IF HasAny(KimiSession) THEN Manual ELSE "Cli"
BuildDoubao ==
    IF HasAny(DoubaoAccess) /\ HasAny(DoubaoSecret) THEN Cloud
    ELSE IF HasAny(DoubaoKeys) THEN Key ELSE "Cli"
BuildAlibaba == IF HasAny(AlibabaKeys) THEN Key ELSE Manual
BuildMiniMax == IF HasAny(MiniMaxKeys) THEN Key ELSE Manual
BuildAmp == IF Has("AMP_API_KEY") THEN Key ELSE "Cli"
BuildKilo == IF Has("KILO_API_KEY") THEN Key ELSE "Cli"
BuildMimo == IF Has("OMARCHY_AI_BAR_MIMO_COOKIE") THEN Manual ELSE Local
BuildOpenCodeGo == IF Has("OPENCODE_API_KEY") THEN Key ELSE Local
BuiltSource(p) ==
    CASE p = "Kimi" -> BuildKimi
      [] p = "Doubao" -> BuildDoubao
      [] p = "Alibaba" -> BuildAlibaba
      [] p = "MiniMax" -> BuildMiniMax
      [] p = "Amp" -> BuildAmp
      [] p = "Kilo" -> BuildKilo
      [] p = "Mimo" -> BuildMimo
      [] p = "OpenCodeGo" -> BuildOpenCodeGo
      [] OTHER -> ResolvedSource(p)
Built(p) == IF p \in setup.settings THEN Ok(BuiltSource(p)) ELSE Err("MissingCredential")

(* lazy_provider_detected: a builder that succeeds without a credential     *)
(* does not count for the providers that need none.                         *)
Detected(p) ==
    /\ Built(p).is = "ok"
    /\ CASE p = "OpenCodeGo" -> Has("OPENCODE_API_KEY") \/ "opencodego" \in setup.files
         [] p = "Wayfinder" -> Has("WAYFINDER_GATEWAY_URL")
         [] p = "Mimo" -> Has("OMARCHY_AI_BAR_MIMO_COOKIE") \/ "mimo" \in setup.files
         [] p = "Windsurf" -> "windsurf" \in setup.files
         [] p = "JetBrains" -> "jetbrains" \in setup.files
         [] OTHER -> TRUE

Registration(p, account, source, fallback, history, detected) ==
    [provider |-> p, account |-> account, source |-> source, fallback |-> fallback,
     history |-> history, detected |-> detected]

(* discover_lazy, LazyProviderRefreshSource::new and with_browser_fallback. *)
LazyHistory(p) == p \in {"Copilot", "OpenCodeGo", "VertexAi", "Cursor", "Antigravity"}
DiscoverLazy(p) ==
    IF ResolvedSource(p) \notin SourcesFor(p) \/ (p \in Fallback /\ Browser \notin SourcesFor(p))
    THEN Err("UnsupportedSource")
    ELSE Ok({Registration(p, "ambient", ResolvedSource(p), p \in Fallback,
                          IF LazyHistory(p) THEN "local" ELSE "none", Detected(p))})

(* provider_source of the configuration's default route.                    *)
Mode(p) == IF p \in DOMAIN setup.config THEN setup.config[p].mode ELSE "auto"

(* discover_codex: the ambient account, and every managed account that is   *)
(* enabled, each with its own home; one history for the machine when the    *)
(* ledger is on.                                                            *)
DiscoverCodex ==
    IF Mode("Codex") \notin {"auto", "pat", "oauth", "api", "apikey", "cli"} THEN Err("Coordinator")
    ELSE LET detected == "codex" \in setup.executables \/ setup.managed # {}
             enabled == {a \in setup.managed : a.enabled}
         IN  Ok({Registration("Codex", "ambient", Mode("Codex"), FALSE, "machine", detected)}
                \cup {Registration("Codex", a.id, Mode("Codex"), FALSE,
                                   IF setup.ledger THEN "machine" ELSE a.id, detected) : a \in enabled})

(* discover_claude.                                                         *)
DiscoverClaude ==
    IF Mode("Claude") \notin {"auto", "oauth", "cli"} THEN Err("Claude")
    ELSE Ok({Registration("Claude", "ambient", IF Mode("Claude") = "cli" THEN "Cli" ELSE "OAuth", FALSE, "machine",
                          Has("CLAUDE_OAUTH_TOKEN") \/ "claude" \in setup.files \cup setup.executables)})

(* validate_grok_source, grok_source_mode, grok_cookie_source, and          *)
(* discover_grok: the browser only for automatic cookies.                   *)
GrokSource ==
    CASE Mode("Grok") = "oauth" -> "OAuth"
      [] Mode("Grok") = "web" -> IF setup.grokCookie = "manual" THEN Manual ELSE Browser
      [] OTHER -> "Cli"
DiscoverGrok ==
    IF Mode("Grok") \notin {"auto", "cli", "oauth", "web"} THEN Err("Grok")
    ELSE Ok({Registration("Grok", "ambient", GrokSource,
                          setup.grokCookie = "auto" /\ Mode("Grok") \in {"auto", "web"}, "local",
                          \/ HasAny({"GROK_OAUTH_TOKEN", "OMARCHY_AI_BAR_GROK_COOKIE"})
                          \/ "grok" \in setup.files \cup setup.executables)})

(* provider_enabled: the configured default route decides; a provider that  *)
(* has none is enabled when it was detected.                                *)
Enabled(p, detected) == IF p \in DOMAIN setup.config THEN setup.config[p].enabled ELSE detected
(* select_enabled_providers: a provider is detected once for its accounts.  *)
SelectEnabled(all) ==
    {r \in all : Enabled(r.provider, \E s \in all : s.provider = r.provider /\ s.detected)}

(* discover: any provider that cannot be registered stops all of them.      *)
DiscoverLazies ==
    LET all == {DiscoverLazy(p) : p \in LazyProviders \cup SelectedProviders}
    IN  IF \E r \in all : r.is = "err" THEN Err("UnsupportedSource")
        ELSE Ok(UNION {r.value : r \in all})
Discover ==
    IF ~setup.home THEN Err("MissingHome")
    ELSE Then(DiscoverCodex, LAMBDA codex :
           Then(DiscoverClaude, LAMBDA claude :
             Then(DiscoverGrok, LAMBDA grok :
               Then(DiscoverLazies, LAMBDA lazies :
                 Ok(SelectEnabled(codex \cup claude \cup grok \cup lazies))))))

----------------------------------------------------------------------------
(* One refresh of a registered lazy source.                                 *)

Fetched(to) == [to |-> to]
FetchedFrom(to, source) == [to |-> to, source |-> source]
(* An adapter answers with a sample or with its error's kind.               *)
AdapterKind(code) == IF code = "cancelled" THEN "Network" ELSE code
(* should_try_browser_fallback.                                             *)
ForBrowser == {"MissingCredential", "AuthenticationExpired"}

(* resolve_fallback_error: what the primary source said, unless it had no   *)
(* credential at all.                                                       *)
FallbackError(primary, fallback) == IF primary.kind = "MissingCredential" THEN fallback ELSE primary

(* fetch_lazy_adapter, and the check every adapter's fetch begins with: the *)
(* source it was built for is the one it is asked to fetch from.            *)
FetchLazyAdapter(built, p, source, to) ==
    Then(built, LAMBDA s :
      IF source \notin SourcesFor(p) \/ s # source THEN Err("Api") ELSE Sent(FetchedFrom(to, s), AdapterKind))

(* BrowserRuntime::prepare: the keyring is given a moment, its failure only *)
(* costs the keys; install_browser_secret keeps what could be read.         *)
PrepareBrowser ==
    IF ~setup.profiles THEN Err("MissingCredential")
    ELSE IF ~setup.keyring THEN Ok("ready")
    ELSE IF ~Asked(Fetched("keyring")) THEN Ask(Fetched("keyring"))
    ELSE IF ReplyTo(Fetched("keyring")).code = "cancelled" THEN Err("Network") ELSE Ok("ready")

(* LazyProviderRefreshSource::fetch_required.                               *)
BrowserFallback(p, primary) ==
    LET prepared == PrepareBrowser
        last == IF setup.keyring THEN Fetched("keyring") ELSE FetchedFrom("primary", ResolvedSource(p))
        fetched == FetchLazyAdapter(Ok(Browser), p, Browser, "browser")
    IN  IF prepared.is = "err" THEN FallbackError(primary, prepared)
        ELSE IF prepared.is = "ask" THEN prepared
        ELSE IF CancelledBy(last) THEN Err("Network")
        ELSE IF ~setup.clock THEN FallbackError(primary, Err("Api"))
        ELSE IF fetched.is = "ask" THEN fetched
        ELSE IF CancelledBy(FetchedFrom("browser", Browser)) THEN Err("Network")
        ELSE IF fetched.is = "err" THEN FallbackError(primary, fetched) ELSE fetched
FetchRequired ==
    LET p == setup.provider
        primary == FetchLazyAdapter(Built(p), p, ResolvedSource(p), "primary")
    IN  IF ~setup.own THEN Err("Api")
        ELSE IF setup.cancelled THEN Err("Network")
        ELSE IF primary.is # "err" \/ p \notin Fallback THEN primary
        ELSE IF CancelledBy(FetchedFrom("primary", ResolvedSource(p))) THEN Err("Network")
        ELSE IF primary.kind \notin ForBrowser THEN primary
        ELSE BrowserFallback(p, primary)

(* ProviderRefreshSource::fetch_required_with_trigger: a manual refresh     *)
(* asks the adapter to pass over its cache.                                 *)
FetchBound ==
    IF ~setup.own THEN Err("Api")
    ELSE IF setup.cancelled THEN Err("Network")
    ELSE Sent([to |-> "primary", bypass |-> setup.manual], AdapterKind)

(* fetch_local_history of a bound source: the cache only for an automatic   *)
(* refresh, and only on the day it was scanned.                             *)
Fresh(cached) == cached # None /\ cached[1].age < HistoryMinutes
BoundServes == ~setup.manual /\ Fresh(setup.cache) /\ setup.cache[1].today
(* fetch_optional of a lazy source: the age alone decides.                  *)
LazyServes == Fresh(setup.cache)
FetchHistory ==
    LET serves == IF setup.lazy THEN LazyServes ELSE BoundServes
    IN  IF ~setup.root THEN Ok([shown |-> None, cache |-> setup.cache])
        ELSE IF serves THEN Ok([shown |-> setup.cache, cache |-> setup.cache])
        ELSE Then(Sent(Fetched("scan"), AdapterKind), LAMBDA body :
               Ok(IF body.is = "empty" THEN [shown |-> None, cache |-> setup.cache]
                  ELSE [shown |-> Some([age |-> 0, today |-> TRUE]),
                        cache |-> Some([age |-> 0, today |-> TRUE])]))

----------------------------------------------------------------------------
(* Instances.                                                               *)
Environments ==
    {{}, {"KIMI_CODE_API_KEY"}, {"KIMI_CODE_API_KEY", "KIMI_CODE_BASE_URL"}, {"KIMI_AUTH_TOKEN"},
     {"DOUBAO_ACCESS_KEY_ID"}, {"DOUBAO_ACCESS_KEY_ID", "VOLCENGINE_SECRET_ACCESS_KEY", "ARK_API_KEY"},
     {"ARK_API_KEY", "MINIMAX_API_KEY", "DASHSCOPE_API_KEY", "AMP_API_KEY", "OMARCHY_AI_BAR_MIMO_COOKIE"},
     {"OPENCODE_API_KEY", "OLLAMA_API_URL", "WAYFINDER_GATEWAY_URL", "CODEBUFF_API_KEY"}}
Route(enabled, mode) == [enabled |-> enabled, mode |-> mode]
Configs == {<<>>, "Codex" :> Route(FALSE, "auto"), "Codex" :> Route(TRUE, "web"),
            ("Claude" :> Route(TRUE, "cli")) @@ ("Grok" :> Route(TRUE, "web")) @@ ("Kimi" :> Route(FALSE, "auto")),
            "Claude" :> Route(TRUE, "web"), ("Grok" :> Route(FALSE, "local")), "OpenCodeGo" :> Route(TRUE, "auto")}
Machine == [kind |-> "discover", home |-> TRUE, env |-> {}, files |-> {}, config |-> <<>>, executables |-> {},
            settings |-> {"Kimi", "Wayfinder", "Mimo", "Windsurf", "JetBrains", "OpenCodeGo", "Zai"},
            managed |-> {}, ledger |-> FALSE, grokCookie |-> "auto"]
Source == [Machine EXCEPT !.kind = "refresh"] @@
          [provider |-> "Kimi", own |-> TRUE, cancelled |-> FALSE, profiles |-> TRUE, keyring |-> TRUE,
           clock |-> TRUE, manual |-> FALSE, lazy |-> TRUE, root |-> TRUE, cache |-> None]
Setups ==
    {[Machine EXCEPT !.env = e, !.config = k, !.files = f] :
        e \in Environments, k \in Configs, f \in {{}, {"opencodego", "mimo", "claude"}}}
    \cup {[Machine EXCEPT !.home = FALSE]}
    \cup {[Machine EXCEPT !.managed = m, !.ledger = l, !.executables = x, !.config = k, !.grokCookie = g] :
            m \in {{}, {[id |-> "a", enabled |-> TRUE], [id |-> "b", enabled |-> FALSE]}}, l \in BOOLEAN,
            x \in {{}, {"codex", "grok"}}, k \in Configs, g \in {"auto", "manual", "off"}}
    \cup {[Source EXCEPT !.provider = p, !.keyring = k, !.profiles = b, !.clock = c] :
            p \in {"Kimi", "Zai", "QwenCloud"}, k, b, c \in BOOLEAN}
    \cup {[Source EXCEPT !.provider = p, !.env = e, !.files = f] :
            p \in {"Kimi", "OpenCodeGo", "Mimo"}, e \in Environments, f \in {{}, {"opencodego"}}}
    \cup {[Source EXCEPT !.own = o, !.cancelled = TRUE] : o \in BOOLEAN}
    \cup {[Source EXCEPT !.kind = "bound", !.own = o, !.cancelled = c, !.manual = m] : o, c, m \in BOOLEAN}
    \cup {[Source EXCEPT !.kind = "history", !.lazy = l, !.manual = m, !.root = r, !.cache = c] :
            l, m, r \in BOOLEAN,
            c \in {None} \cup {Some([age |-> a, today |-> t]) : a \in {0, HistoryMinutes - 1, HistoryMinutes},
                                                                 t \in BOOLEAN}}
Replies(req) ==
    CASE req.to = "keyring" -> Refusals({"timeout", "cancelled"}) \cup Bodies({[is |-> "secrets"]})
      [] req.to = "scan" -> Refusals({"ProviderUnavailable", "Api", "cancelled"})
                            \cup Bodies({[is |-> "empty"], [is |-> "scanned"]})
      [] OTHER -> Refusals({"MissingCredential", "AuthenticationExpired", "Network", "Api", "RateLimited", "cancelled"})
                  \cup Bodies({[is |-> "sample"]})

Fetch == CASE setup.kind = "discover" -> Discover
           [] setup.kind = "refresh" -> FetchRequired
           [] setup.kind = "bound" -> FetchBound
           [] setup.kind = "history" -> FetchHistory

Init == Start(Setups)
Next == Advance(Fetch, Replies)
Spec == Init /\ [][Next]_vars

----------------------------------------------------------------------------
Refresh == setup.kind \in {"refresh", "bound"}
Said(kind) == \E i \in DOMAIN log : log[i].reply.code = kind

(* The user is told that a session expired only when the primary source or  *)
(* the browser's said so, and that there is no credential only when neither *)
(* had one: a refused key is not hidden by a browser without cookies, a     *)
(* missing key not by a browser that failed (resolve_fallback_error).       *)
LoginOnlyWhenRefused ==
    /\ Refresh /\ FailedWith({"AuthenticationExpired"}) => Said("AuthenticationExpired")
    /\ Refresh /\ FailedWith({"MissingCredential"}) =>
         ~Said("AuthenticationExpired") /\ ~Answered(FetchedFrom("browser", Browser), "Api")


(* A lazy source fetches from the source it was registered with or from the *)
(* browser, whatever the builder decides at the refresh (build_kimi,        *)
(* build_opencodego, ...). The browser's cookies and the keyring are        *)
(* touched only after the primary source had no credential or an expired    *)
(* one, never for a provider without that fallback, and not once the        *)
(* refresh was cancelled (fetch_required); a source never fetches for       *)
(* another account.                                                         *)
RequestsStayInBounds ==
    Refresh =>
    /\ ~setup.own \/ setup.cancelled => log = <<>>
    /\ setup.kind = "refresh" => \A i \in DOMAIN log :
         log[i].req.to = "primary" => log[i].req.source = ResolvedSource(setup.provider)
    /\ \A i \in DOMAIN log : log[i].req.to \in {"keyring", "browser"} =>
         /\ setup.provider \in Fallback /\ setup.profiles
         /\ log[i].req.to = "keyring" => setup.keyring
         /\ \A j \in 1..(i - 1) : ~log[j].cut /\ (log[j].req.to = "primary" => log[j].reply.code \in ForBrowser)

(* OpenCode Go enabled by hand, with neither a key nor local usage when the *)
(* daemon starts: it is registered for the key, and the builder reads local *)
(* data.                                                                    *)
Misregistered(p) == p = "OpenCodeGo" /\ ~Has("OPENCODE_API_KEY") /\ "opencodego" \notin setup.files

=============================================================================
