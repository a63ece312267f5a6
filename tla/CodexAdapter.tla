------------------------------ MODULE CodexAdapter ------------------------------
(****************************************************************************)
(* Codex: a personal access token, an OAuth login that other programs keep  *)
(* on disk, and the app server of the Codex CLI, tried in the order of the  *)
(* source mode (codex_provider.rs, codex_runner.rs, codex.rs,               *)
(* codex_files.rs, codex_http.rs, codex_normalize.rs, codex_resets.rs and   *)
(* codex_app_server.rs). The files may be rewritten by their owner between  *)
(* two reads, so reading one is a question like any other. Times are in     *)
(* minutes; a failure keeps the code's own name until the fetch ends.       *)
(****************************************************************************)
EXTENDS ProviderFetch, SequencesExt, TLC

CONSTANTS
    MaxExtraWindows,     \* MAX_EXTRA_WINDOWS
    MaxAdditionalLimits, \* MAX_ADDITIONAL_LIMITS
    MaxLimitEntries,     \* MAX_LIMIT_ENTRIES
    MaxResetCredits      \* the credits an inventory may list

NativeRefreshSkew == 5
ExternalRefreshSkew == 1
LastRefreshMaxAge == 8 * 24 * 60
SessionMinutes == 5 * 60
WeeklyMinutes == 7 * 24 * 60

----------------------------------------------------------------------------
(* The settings: which account, and what may be asked for it.               *)

ManagedSelected == setup.account \in {"Managed", "FailClosedManaged"}
AllowsCli == ~ManagedSelected
(* CodexManagedWorkspaceId::new, managed_account_id and                     *)
(* clean_account_override.                                                  *)
ManagedAccountId == IF setup.account = "Managed" THEN Some("managed") ELSE None
(* CodexCredentialPaths::resolve: CODEX_HOME, or $HOME/.codex.              *)
NativeRoot == IF setup.explicit THEN "native" ELSE "ambient"

(* A check of the caller's token, and the request it guards.                *)
CutBefore(req) == \E i \in DOMAIN log : log[i].cut /\ ~\E j \in 1..i : log[j].req = req
Guarded(req, KindOf(_)) == IF CutBefore(req) THEN Err("Cancelled") ELSE Sent(req, KindOf)

----------------------------------------------------------------------------
(* codex_files.rs: the files.                                               *)

(* map_file_error: of open_location and read_auth_from_root.                *)
MapFileError(code) ==
    CASE code = "cancelled" -> "Cancelled"
      [] code \in {"missing", "invalid root"} -> "NotFound"
      [] code = "unsafe" -> "Unreadable"
ReadAuth(place, by) == Guarded([to |-> "auth", place |-> place, by |-> by], MapFileError)
(* read_optional_config and CodexConfigFile::from_contents.                 *)
ReadOptionalConfig(place, by) ==
    LET p == Guarded([to |-> "config", place |-> place, by |-> by], LAMBDA code :
                CASE code = "cancelled" -> "Cancelled" [] code = "missing" -> "None" [] code \in {"invalid root", "unsafe"} -> "Unreadable")
    IN  OrElse(p, LAMBDA e : IF e.kind = "None" THEN Ok([is |-> "none"]) ELSE e)

(* codex.rs: decode_bounded_object, then the secret a document holds.       *)
Decoded(b) == IF b.is = "junk" THEN Err("Invalid") ELSE Ok(b)
ValidSecret(s) == IF s = "bad" THEN Err("Invalid") ELSE Ok(s)
(* pat_credentials and parse_native_codex_pat.                              *)
ParseNativePat(b) ==
    Then(Decoded(b), LAMBDA d : IF d.pat = "none" THEN Err("MissingTokens") ELSE ValidSecret(d.pat))
Bearer(source, kind, t, expires) ==
    [source |-> source, kind |-> kind, account |-> t.account, email |-> t.email, last |-> t.last, expires |-> expires]
(* api_key_credentials.                                                     *)
ApiKeyCredentials(d, source) ==
    IF d.key = "none" THEN Ok(None)
    ELSE Then(ValidSecret(d.key), LAMBDA s : Ok(Some(Bearer(source, "ApiKey", [account |-> None, email |-> None, last |-> None], None))))
(* account_id_from_jwts: the account a document states, or its tokens do.   *)
AccountId(t) == FirstOf(<<t.account, t.claim>>)
(* expiration_from_jwt: an exact integer, once, and of a native login only. *)
Expiration(t, source) == IF source = "Native" /\ t.exp # "bad" /\ t.exp # "none" THEN Some(setup.now + (IF t.exp = "soon" THEN NativeRefreshSkew ELSE NativeRefreshSkew + 1)) ELSE None
(* oauth_credentials.                                                       *)
OauthCredentials(d, source) ==
    IF d.tokens = None THEN Ok(None)
    ELSE Then(ValidSecret(d.tokens[1].secret), LAMBDA s :
           Ok(Some(Bearer(source, "OAuth", [d.tokens[1] EXCEPT !.account = AccountId(d.tokens[1])], Expiration(d.tokens[1], source)))))
(* parse_opencode_object and parse_epoch_milliseconds.                      *)
ParseOpencode(d) ==
    IF d.openai = "none" THEN Err("MissingTokens")
    ELSE Then(ValidSecret(d.openai), LAMBDA s :
           Ok(Bearer("OpenCode", "OAuth", [account |-> None, email |-> None, last |-> None],
                     Some(setup.now + (IF d.openai = "soon" THEN ExternalRefreshSkew ELSE ExternalRefreshSkew + 1)))))
OrMissing(p) == Then(p, LAMBDA c : IF c = None THEN Err("MissingTokens") ELSE Ok(c[1]))
(* parse_codex_bearer: a native key before a native login.                  *)
ParseBearer(b, source) ==
    Then(Decoded(b), LAMBDA d :
      CASE source = "Native" -> Then(ApiKeyCredentials(d, source), LAMBDA k : IF k # None THEN Ok(k[1]) ELSE OrMissing(OauthCredentials(d, source)))
        [] source = "Legacy" -> OrMissing(OauthCredentials(d, source))
        [] source = "OpenCode" -> ParseOpencode(d))

(* needs_refresh_at.                                                        *)
NeedsRefresh(c) ==
    CASE c.kind = "ApiKey" -> FALSE
      [] c.kind = "OAuth" /\ c.expires # None ->
           c.expires[1] - setup.now <= (IF c.source = "Native" THEN NativeRefreshSkew ELSE ExternalRefreshSkew)
      [] c.kind = "OAuth" /\ c.expires = None -> c.last = None \/ (c.last # None /\ setup.now - c.last[1] > LastRefreshMaxAge)

(* load_pat_bundle_for_scope, open_and_parse_pat and bind_pat_config: a     *)
(* profile has its own root, every other account the ambient one.           *)
LoadPat ==
    LET root == IF setup.account = "Profile" THEN NativeRoot ELSE "ambient"
    IN  Then(ReadAuth(root, "Pat"), LAMBDA b : Then(ParseNativePat(b), LAMBDA s : ReadOptionalConfig(root, "Pat")))
(* load_bearer_selection_for_usage: the native login; only when it is not   *)
(* there, and the root was not chosen, one that another program keeps.      *)
LoadBearer(external, by) ==
    LET native == Then(ReadAuth(NativeRoot, by), LAMBDA b : ParseBearer(b, "Native"))
        Other(place, source) == Then(ReadAuth(place, by), LAMBDA b : ParseBearer(b, source))
        opencode == OrElse(Other("opencode", "OpenCode"), LAMBDA e : IF e.kind = "Cancelled" THEN e ELSE Err("NotFound"))
        legacy == OrElse(Other("legacy", "Legacy"), LAMBDA e : IF e.kind = "Cancelled" THEN e ELSE opencode)
    IN  OrElse(native, LAMBDA e : IF e.kind = "NotFound" /\ external /\ ~setup.explicit THEN legacy ELSE e)
(* bind_bearer_config: the config is read only from a root that opened.     *)
BindConfig(c, by) ==
    IF c.source # "Native" /\ ReplyTo([to |-> "auth", place |-> NativeRoot, by |-> by]).code = "invalid root" THEN Ok([is |-> "none"])
    ELSE ReadOptionalConfig(NativeRoot, by)

----------------------------------------------------------------------------
(* codex_http.rs: the two services.                                         *)

(* From<TransportError>.                                                    *)
HttpError(code) ==
    CASE code \in {"401", "403"} -> "Unauthorized"
      [] code = "cancelled" -> "Cancelled"
      [] code \in {"network", "timeout"} -> "Network"
      [] code \in {"toolarge", "broken", "redirects"} -> "InvalidResponse"
      [] code \in {"408", "429", "500", "404"} -> "Server"
      [] code = "origin" -> "Configuration"
(* parse_config_base_url, strip_toml_comment and parse_config_string: the   *)
(* key once, quoted as it should be.                                        *)
ConfigBaseUrl(config) ==
    CASE config.is = "none" -> Ok("https://chatgpt.com") [] config.is = "twice" -> Err("Configuration") [] config.is = "base" -> Ok(config.url)
(* resolve_usage_url and validate_exact_origin: https, and nothing else in  *)
(* the address.                                                             *)
ResolveUsageUrl(config) ==
    Then(ConfigBaseUrl(config), LAMBDA url : IF url = "http://localhost" THEN Err("Configuration") ELSE Ok(url))
(* CodexHttpRoutes::from_config_text, reset_credits_url and the transports. *)
HttpClient(config) == ResolveUsageUrl(config)
(* codex_cli_user_agent and normalize_cli_version.                          *)
CliUserAgent == IF setup.version = "bad" THEN Err("Configuration") ELSE Ok(setup.version)

(* parse_whoami and strict_optional_clean_string.                           *)
ParseWhoami(b) ==
    IF b.is # "whoami" \/ (b.is = "whoami" /\ b.odd) THEN Err("InvalidResponse") ELSE Ok(b)
(* parse_lossy_window and parse_window: absent, or three whole numbers.     *)
WindowDecodeFailed(w) == w.is = "bad"
(* parse_rate_limit.                                                        *)
NoWindow == [is |-> "none", used |-> 0, reset |-> 0, minutes |-> 0]
NoLimit == [is |-> "none", limit |-> None, used |-> None, remaining |-> None, reset |-> None]
ParseRateLimit(r) ==
    IF r.is = "limits" THEN r ELSE [is |-> "none", primary |-> NoWindow, secondary |-> NoWindow, limit |-> NoLimit]
RateDecodeFailed(r) == WindowDecodeFailed(r.primary) \/ WindowDecodeFailed(r.secondary)
(* parse_additional_limits and parse_additional_limit: what fits.           *)
ParseAdditional(list) ==
    LET taken == SubSeq(list, 1, Min({Len(list), MaxAdditionalLimits}))
    IN  [limits |-> SelectSeq(taken, LAMBDA x : x.is = "limit"),
         failed |-> Len(list) > MaxAdditionalLimits
                    \/ \E i \in DOMAIN taken : taken[i].is # "limit" \/ WindowDecodeFailed(taken[i].primary) \/ WindowDecodeFailed(taken[i].secondary)]
(* parse_codex_usage_response.                                              *)
ParseUsage(b) ==
    IF b.is # "usage" THEN Err("InvalidResponse")
    ELSE Ok([rate |-> ParseRateLimit(b.rate), balance |-> b.balance, individual |-> b.individual, spend |-> b.spend,
             account |-> b.account, more |-> ParseAdditional(b.more)])
(* resolved_individual_limit, with the aliases of the names.                *)
ResolvedLimit(u) ==
    LET found == {i \in 1..3 : <<u.individual, u.rate.limit, u.spend>>[i].is = "limit"}
    IN  IF found = {} THEN NoLimit ELSE <<u.individual, u.rate.limit, u.spend>>[Min(found)]

(* fetch_pat_usage, pat_request.                                            *)
FetchPatUsage(url) ==
    Then(CliUserAgent, LAMBDA a :
    Then(Guarded([to |-> "whoami"], HttpError), LAMBDA w0 : Then(ParseWhoami(w0), LAMBDA w :
    Then(Guarded([to |-> "usage", with |-> "Pat", url |-> url, account |-> w.account], HttpError), LAMBDA u0 :
    Then(ParseUsage(u0), LAMBDA u : Ok([usage |-> u, whoami |-> w]))))))
(* fetch_oauth_usage, oauth_request.                                        *)
FetchOauthUsage(url, c) ==
    Then(Guarded([to |-> "usage", with |-> c.source, url |-> url, account |-> FirstOf(<<ManagedAccountId, c.account>>)], HttpError), ParseUsage)
(* fetch_reset_credits, its own timeout, and parse_codex_reset_credits.     *)
FetchResetCredits(url, c) ==
    Then(Guarded([to |-> "reset credits", url |-> url, account |-> FirstOf(<<ManagedAccountId, c.account>>)], HttpError), LAMBDA b :
      IF b.is = "inventory" /\ b.count <= MaxResetCredits THEN Ok(Some(b.count)) ELSE Err("InvalidResponse"))

----------------------------------------------------------------------------
(* codex_normalize.rs: what is shown of an answer.                          *)

(* normalize_window, of a window of the account or of an extra one: any     *)
(* reset, or only one that is positive.                                     *)
NormalizeWindow(w, policy) ==
    LET duration == IF w.minutes > 0 THEN Some(w.minutes) ELSE None
        any == policy = "AnyRepresentable"
        reset == IF any \/ w.reset > 0 THEN Some(w.reset) ELSE None
    IN  [window |-> [percent |-> w.used, minutes |-> duration, reset |-> reset], lossy |-> any /\ w.minutes <= 0]
(* window_role.                                                             *)
WindowRole(w) ==
    CASE w.minutes = Some(SessionMinutes) -> "Session" [] w.minutes = Some(WeeklyMinutes) -> "Weekly"
      [] w.minutes \notin {Some(SessionMinutes), Some(WeeklyMinutes)} -> "Unknown"
(* normalize_window_roles, normalize_windows: the weekly window is second.  *)
WindowRoles(p, s) ==
    LET weekly(w) == w # None /\ WindowRole(w[1]) = "Weekly"
    IN  IF (p # None /\ s # None /\ weekly(p) /\ ~weekly(s)) \/ (p # None /\ s = None /\ weekly(p)) \/ (p = None /\ s # None /\ ~weekly(s))
        THEN <<s, p>> ELSE <<p, s>>
Normalized(w) == IF w.is = "window" THEN Some(NormalizeWindow(w, "AnyRepresentable").window) ELSE None
(* normalize_credit_limit, make_credit_limit.                               *)
CreditLimit(l) ==
    IF l.is # "limit" \/ l.limit = None \/ (l.limit # None /\ l.limit[1] <= 0) THEN None
    ELSE LET limit == l.limit[1]
             given == IF l.remaining = None THEN None ELSE Some(Clamp(l.remaining[1], 0, 100))
             used == IF l.used # None THEN Max({l.used[1], 0}) ELSE IF given # None THEN ((100 - given[1]) * limit) \div 100 ELSE 0
         IN  Some([used |-> used, limit |-> limit, reset |-> IF l.reset # None /\ l.reset[1] > 0 THEN l.reset ELSE None,
                   remaining |-> IF given # None THEN given[1] ELSE Clamp(100 - (100 * used) \div limit, 0, 100)])
(* normalize_credits, build_credits: a balance below zero is none.          *)
Credits(balance, limit) ==
    IF balance = None /\ limit = None THEN None
    ELSE Some([remaining |-> IF balance = None THEN 0 ELSE Max({balance[1], 0}), limit |-> limit])
(* spark_window_kind, SparkWindowKind::id.                                  *)
SparkId(w, fallback) ==
    CASE w.minutes \in 1..(6 * 60) -> "codex-spark"
      [] w.minutes >= 6 * 24 * 60 -> "codex-spark-weekly"
      [] w.minutes <= 0 \/ (w.minutes > 6 * 60 /\ w.minutes < 6 * 24 * 60) -> fallback
(* push_named_window: each name once, and no more than fit.                 *)
PushNamed(list, id, w) ==
    IF \E i \in DOMAIN list.windows : list.windows[i].id = id THEN list
    ELSE IF Len(list.windows) >= MaxExtraWindows THEN [list EXCEPT !.lossy = TRUE]
    ELSE [list EXCEPT !.windows = Append(@, [id |-> id, window |-> NormalizeWindow(w, "PositiveOnly").window])]
(* normalize_extra_windows, is_spark, first_nonempty and slug.              *)
ExtraWindows(limits) ==
    LET Candidates(x) ==
          IF x.spark
          THEN SelectSeq(<<[id |-> SparkId(x.primary, "codex-spark"), w |-> x.primary],
                           [id |-> SparkId(x.secondary, "codex-spark-weekly"), w |-> x.secondary]>>, LAMBDA c : c.w.is = "window")
          ELSE IF x.name = "none" \/ (x.primary.is # "window" /\ x.secondary.is # "window") THEN <<>>
          ELSE <<[id |-> x.name, w |-> IF x.primary.is = "window" THEN x.primary ELSE x.secondary]>>
        all == FlattenSeq([i \in DOMAIN limits |-> Candidates(limits[i])])
    IN  FoldLeft(LAMBDA l, c : PushNamed(l, c.id, c.w), [windows |-> <<>>, lossy |-> FALSE], all)
(* normalize_http_usage.                                                    *)
NormalizeHttp(u, identity, via) ==
    LET roles == WindowRoles(Normalized(u.rate.primary), Normalized(u.rate.secondary))
        core == roles # <<None, None>>
        credits == Credits(u.balance, CreditLimit(ResolvedLimit(u)))
        extra == IF core THEN ExtraWindows(u.more.limits) ELSE [windows |-> <<>>, lossy |-> FALSE]
        short == \E w \in {u.rate.primary, u.rate.secondary} : w.is = "window" /\ w.minutes <= 0
        lossy == RateDecodeFailed(u.rate) \/ u.more.failed \/ short \/ (u.balance # None /\ u.balance[1] < 0) \/ ~core \/ extra.lossy
    IN  IF ~core /\ credits = None THEN Err("InvalidResponse")
        ELSE Ok([primary |-> roles[1], secondary |-> roles[2], extras |-> extra.windows, credits |-> credits, exact |-> ~lossy,
                 account |-> identity.account, email |-> identity.email, resets |-> None, via |-> via])
(* normalize_codex_pat_usage and normalize_codex_oauth_usage: whose usage   *)
(* it is said to be.                                                        *)
NormalizePat(f) == NormalizeHttp(f.usage, [account |-> f.whoami.account, email |-> f.whoami.email], "pat")
NormalizeOauth(u, c) ==
    NormalizeHttp(u, [account |-> FirstOf(<<ManagedAccountId, u.account, c.account>>), email |-> c.email], "oauth")

----------------------------------------------------------------------------
(* codex_app_server.rs: the app server of the CLI.                          *)

(* map_child_error.                                                         *)
ChildError(code) ==
    CASE code = "spawn" -> "Start" [] code = "cancelled" -> "Cancelled" [] code = "timeout" -> "Transport" [] code = "closed" -> "Transport"
      [] code = "toolarge" -> "Protocol" [] code = "protocol" -> "Protocol" [] code = "remote" -> "Remote"
(* parse_limit_map: whole, or nothing of it.                                *)
LimitMap(b) == IF Len(b.byid) > MaxLimitEntries THEN <<>> ELSE b.byid
(* ParsedRateResponse::parse, ParsedLimit::parse, parse_rpc_window,         *)
(* parse_rpc_credits and parse_spend_limit.                                 *)
ParseRateResponse(b) ==
    IF b.is # "limits" THEN Err("Protocol")
    ELSE Ok([primary |-> Normalized(b.primary), secondary |-> Normalized(b.secondary), balance |-> b.balance, limit |-> b.limit, plan |-> b.plan, byid |-> LimitMap(b)])
(* find_credit_limit: the account's, else the first by name that has one.   *)
FindCreditLimit(rate) ==
    FirstOf(<<CreditLimit(rate.limit)>> \o [i \in DOMAIN rate.byid |-> CreditLimit(rate.byid[i])])
(* parse_account_response: an answer that cannot be read is none.           *)
AccountFields(b) == IF b.is = "account" THEN [email |-> b.email, plan |-> b.plan] ELSE [email |-> None, plan |-> None]
(* read_account_best_effort.                                                *)
ReadAccount ==
    LET req == [to |-> "account"]
    IN  OrElse(Then(Guarded(req, ChildError), LAMBDA b : Ok(AccountFields(b))), LAMBDA e :
          IF e.kind = "Cancelled" \/ CancelledBy(req) THEN Err("Cancelled") ELSE Ok(AccountFields([is |-> "none"])))
(* build_usage: windows, or a login without any when one is to be shown.    *)
BuildUsage(roles, fields, empty, credits) ==
    IF roles # <<None, None>> \/ (empty /\ (fields.email # None \/ fields.plan # None))
    THEN Some([primary |-> roles[1], secondary |-> roles[2], extras |-> <<>>, credits |-> credits, exact |-> FALSE,
               account |-> None, email |-> fields.email, resets |-> None, via |-> "cli"])
    ELSE None
(* into_usage_sample: credits alone are a sample too.                       *)
IntoSample(usage, credits, email) ==
    IF usage # None THEN Ok(usage[1])
    ELSE IF credits = None THEN Err("NoRateLimits")
    ELSE Ok([primary |-> None, secondary |-> None, extras |-> <<>>, credits |-> credits, exact |-> FALSE,
             account |-> None, email |-> email, resets |-> None, via |-> "cli"])
(* normalize_success and build_identity.                                    *)
NormalizeSuccess(rate, account) ==
    LET fields == [email |-> account.email, plan |-> FirstOf(<<account.plan, rate.plan>>)]
        credits == Credits(rate.balance, FindCreditLimit(rate))
        usage == BuildUsage(WindowRoles(rate.primary, rate.secondary), fields, credits = None \/ rate.plan # None, credits)
    IN  IntoSample(usage, credits, fields.email)
(* extract_recovery_body, balanced_object and bounded_recovery_json: the    *)
(* usage inside an error message.                                           *)
RecoveryBody(message) == IF message.is = "body" THEN Some(message) ELSE None
(* parse_recovery_windows, parse_recovery_credits and                       *)
(* recover_remote_snapshot: a primary window that could not be read is not  *)
(* replaced by nothing.                                                     *)
RecoverRemote(message) ==
    IF RecoveryBody(message) = None THEN Err("Remote")
    ELSE LET m == RecoveryBody(message)[1]
             roles == WindowRoles(Normalized(m.primary), Normalized(m.secondary))
             unsafe == (WindowDecodeFailed(m.primary) \/ WindowDecodeFailed(m.secondary)) /\ roles[1] = None
             credits == IF m.balance # None /\ m.balance[1] >= 0 THEN Credits(m.balance, None) ELSE None
             usage == IF unsafe THEN None ELSE BuildUsage(roles, [email |-> m.email, plan |-> None], FALSE, credits)
         IN  IF usage = None /\ credits = None THEN Err("Remote")
             ELSE IntoSample(usage, credits, None)
(* fetch_from_child.                                                        *)
FetchFromChild ==
    Then(Guarded([to |-> "initialize"], ChildError), LAMBDA i : Then(Guarded([to |-> "initialized"], ChildError), LAMBDA n :
      LET req == [to |-> "rate limits"]
          answer == Guarded(req, ChildError)
      IN  IF answer.is = "err" /\ answer.kind = "Remote"
          THEN IF CancelledBy(req) THEN Err("Cancelled") ELSE RecoverRemote(ReplyTo(req).body)
          ELSE Then(answer, LAMBDA b : Then(ParseRateResponse(b), LAMBDA rate : Then(ReadAccount, LAMBDA account :
                 IF CancelledBy([to |-> "account"]) THEN Err("Cancelled") ELSE NormalizeSuccess(rate, account))))))
(* CodexAppServerClient::fetch: the child is shut down however it went.     *)
CliFetch ==
    Then(Guarded([to |-> "spawn"], ChildError), LAMBDA c :
      Settled(FetchFromChild, LAMBDA result : IF Asked([to |-> "shutdown"]) THEN result ELSE Ask([to |-> "shutdown"])))

----------------------------------------------------------------------------
(* codex_runner.rs: one attempt each.                                       *)

(* credential_load_outcome: no credential is no attempt.                    *)
LoadOutcome(p) == OrElse(p, LAMBDA e : IF e.kind \in {"NotFound", "MissingTokens"} THEN Err("Unavailable") ELSE e)
(* run_pat.                                                                 *)
RunPat ==
    Then(LoadOutcome(LoadPat), LAMBDA config : Then(HttpClient(config), LAMBDA url : Then(FetchPatUsage(url), NormalizePat)))
(* attach_reset_credits: an inventory that fails costs nothing.             *)
AttachResetCredits(url, c, sample) ==
    IF ~setup.resetkey THEN Ok(sample)
    ELSE LET p == FetchResetCredits(url, c)
         IN  IF p.is = "ask" THEN p
             ELSE IF Cancelled \/ (p.is = "err" /\ p.kind = "Cancelled") THEN Err("Cancelled")
             ELSE Ok(IF p.is = "ok" THEN [sample EXCEPT !.resets = p.value] ELSE sample)
(* run_oauth: a login that must be renewed is left to its owner.            *)
RunOauth ==
    IF setup.account = "FailClosedManaged" THEN Err("Unavailable")
    ELSE Then(LoadOutcome(LoadBearer(setup.external, "OAuth")), LAMBDA c :
           IF NeedsRefresh(c) THEN Err(IF c.source = "Native" THEN "NativeRefreshRequired" ELSE "ReadOnlySource")
           ELSE Then(LoadOutcome(BindConfig(c, "OAuth")), LAMBDA config : Then(HttpClient(config), LAMBDA url :
                Then(FetchOauthUsage(url, c), LAMBDA u : Then(NormalizeOauth(u, c), LAMBDA sample : AttachResetCredits(url, c, sample))))))
(* run_cli: the reset credits of the same person only.                      *)
RunCli ==
    IF ~setup.cli THEN Err("Unavailable")
    ELSE Then(CliFetch, LAMBDA sample :
           IF ~setup.resetkey \/ ManagedSelected THEN Ok(sample)
           ELSE LET Keep(e) == IF e.kind = "Cancelled" THEN e ELSE Ok(sample)
                    Same(c) == c.email # None /\ sample.email # None /\ c.email = sample.email
                               /\ (c.account # None /\ sample.account # None => c.account = sample.account)
                    Use(c, F(_)) == Settled(c, LAMBDA r : IF r.is = "err" THEN Keep(r) ELSE F(r.value))
                IN  Use(LoadBearer(FALSE, "Credits"), LAMBDA c :
                      IF ~Same(c) \/ NeedsRefresh(c) THEN Ok(sample)
                      ELSE Use(BindConfig(c, "Credits"), LAMBDA config :
                             Use(HttpClient(config), LAMBDA url : AttachResetCredits(url, c, sample)))))
(* may_attempt_codex_cli_owner_recovery and run_cli_owner_recovery: only    *)
(* the CLI may renew the login it owns.                                     *)
MayRecover(c) == c.source = "Native" /\ NeedsRefresh(c)
RunRecovery ==
    IF ~setup.cli \/ ManagedSelected THEN Err("Unavailable")
    ELSE Settled(LoadBearer(setup.external, "Recovery"), LAMBDA load :
           IF load.is = "err" THEN Err(IF load.kind = "Cancelled" THEN load.kind ELSE "Unavailable")
           ELSE IF MayRecover(load.value) THEN RunCli ELSE Err("Unavailable"))
(* CodexAttemptRunner::run.                                                 *)
Run(attempt) ==
    CASE attempt = "Pat" -> RunPat [] attempt = "OAuth" -> RunOauth [] attempt = "Cli" -> RunCli [] attempt = "CliOwnerRecovery" -> RunRecovery

----------------------------------------------------------------------------
(* codex_provider.rs: the attempts in turn.                                 *)

(* CodexSourcePlan::new.                                                    *)
SourcePlan ==
    CASE setup.mode = "Auto" -> <<"Pat", "OAuth">> \o (IF AllowsCli THEN <<"Cli">> ELSE <<>>)
      [] setup.mode = "Pat" -> <<"Pat">>
      [] setup.mode = "OAuth" -> <<"OAuth", "CliOwnerRecovery">>
      [] setup.mode = "Cli" -> <<"Cli">>
(* should_continue_codex_plan.                                              *)
ShouldContinue(attempt, failure) ==
    \/ attempt = "Pat" /\ setup.mode = "Auto" /\ failure \in {"Unavailable", "Unauthorized", "NotFound", "Unreadable", "MissingTokens"}
    \/ attempt = "OAuth" /\ setup.mode = "Auto" /\ failure \in {"Unavailable", "Unauthorized", "NotFound", "Unreadable", "MissingTokens", "NativeRefreshRequired"}
    \/ attempt = "OAuth" /\ setup.mode = "OAuth" /\ failure \in {"Unavailable", "NativeRefreshRequired"}
(* attempt_failure: the CLI that does not start is not there.               *)
AttemptFailure(kind) == IF kind = "Start" THEN "Unavailable" ELSE kind
(* classified, of the coordinator's, the services' and the CLI's errors.    *)
CodexKind(failure) ==
    CASE failure \in {"MissingCredential", "NotFound", "Unreadable", "MissingTokens"} -> "MissingCredential"
      [] failure \in {"Invalid", "InvalidResponse", "Protocol", "NoRateLimits"} -> "Parse"
      [] failure \in {"NativeRefreshRequired", "ReadOnlySource", "Unauthorized"} -> "AuthenticationExpired"
      [] failure = "Configuration" -> "Api"
      [] failure \in {"Server", "Start", "Remote"} -> "ProviderUnavailable"
      [] failure \in {"Cancelled", "Network", "Transport"} -> "Network"
(* CodexCoordinator::fetch_at: the last failure that was one is reported.   *)
FetchAt ==
    LET From[i \in 1..Len(SourcePlan)] ==
          [failure \in {"MissingCredential", "Unreadable", "Unauthorized", "NativeRefreshRequired"} |->
             Settled(Run(SourcePlan[i]), LAMBDA o :
               LET last == IF o.is = "err" /\ o.kind # "Unavailable" THEN o.kind ELSE failure
               IN  IF o.is = "err" /\ ShouldContinue(SourcePlan[i], AttemptFailure(o.kind)) /\ i < Len(SourcePlan) THEN From[i + 1][last]
                   ELSE IF Cancelled THEN Err("Cancelled")
                   ELSE IF o.is = "ok" THEN o ELSE Err(last))]
    IN  From[1]["MissingCredential"]
Fetch == OrElse(FetchAt, LAMBDA e : Err(CodexKind(e.kind)))

----------------------------------------------------------------------------
(* What may be configured, and answered. One part of a fetch is varied      *)
(* fully at a time; the others answer what leads to it.                     *)

Setups ==
    LET base == [provider |-> "codex", source |-> "Auto", now |-> 100000, mode |-> "Auto", account |-> "Ambient", explicit |-> FALSE,
                 external |-> TRUE, version |-> "1", resetkey |-> FALSE, cli |-> TRUE, varies |-> "login"]
    IN  {[base EXCEPT !.mode = m, !.account = a, !.explicit = x, !.external = e, !.cli = c] :
           m \in {"Auto", "OAuth", "Cli"}, a \in {"Ambient", "Managed", "FailClosedManaged"}, x \in BOOLEAN, e \in BOOLEAN, c \in BOOLEAN}
        \cup {[base EXCEPT !.mode = m, !.account = a, !.explicit = x, !.version = v, !.varies = "token"] : m \in {"Auto", "Pat"},
                a \in {"Ambient", "Profile", "Managed", "FailClosedManaged"}, x \in BOOLEAN, v \in {"1", "bad"}}
        \cup {[base EXCEPT !.mode = "OAuth", !.resetkey = k, !.varies = v] : k \in BOOLEAN, v \in {"services", "usage", "credits"}}
        \cup {[base EXCEPT !.mode = "Cli", !.varies = "cli"], [base EXCEPT !.mode = "Auto", !.varies = "services"], [base EXCEPT !.mode = "Cli", !.resetkey = TRUE, !.varies = "credits"]}

Replies(req) ==
    LET Varies(part) == setup.varies = part
        tokens == [secret |-> "token", account |-> None, claim |-> Some("own"), email |-> Some("e1"), last |-> None, exp |-> "later"]
        doc == [is |-> "document", pat |-> "none", key |-> "none", tokens |-> None, openai |-> "none"]
        Login(exp, last) == [doc EXCEPT !.tokens = Some([tokens EXCEPT !.exp = exp, !.last = last])]
        window == [is |-> "window", used |-> 40, reset |-> setup.now + 10, minutes |-> SessionMinutes]
        weekly == [window EXCEPT !.minutes = WeeklyMinutes]
        bad == [NoWindow EXCEPT !.is = "bad"]
        limit == [is |-> "limit", limit |-> Some(50), used |-> Some(70), remaining |-> None, reset |-> Some(0)]
        Rate(p, s, l) == [is |-> "limits", primary |-> p, secondary |-> s, limit |-> l]
        usage == [is |-> "usage", rate |-> Rate(window, weekly, NoLimit), balance |-> None, individual |-> NoLimit, spend |-> NoLimit,
                  account |-> None, more |-> <<>>]
        Extra(spark, name, p, s) == [is |-> "limit", spark |-> spark, name |-> name, primary |-> p, secondary |-> s]
        usages == {[usage EXCEPT !.rate = Rate(p, s, l), !.balance = b, !.spend = d] :
                     p \in {NoWindow, bad, window, weekly, [window EXCEPT !.minutes = 0, !.reset = -5]}, s \in {NoWindow, window, weekly},
                     l \in {NoLimit, limit}, b \in {None, Some(-3), Some(4)}, d \in {NoLimit, [limit EXCEPT !.limit = Some(0)], [limit EXCEPT !.used = None, !.remaining = Some(130)]}}
                  \cup {[usage EXCEPT !.more = m] : m \in
                          {<<Extra(TRUE, "none", [window EXCEPT !.minutes = 6 * 60], [weekly EXCEPT !.minutes = 400]), Extra(TRUE, "none", weekly, NoWindow)>>,
                           <<Extra(FALSE, "x", NoWindow, [weekly EXCEPT !.reset = 0]), Extra(FALSE, "x", window, NoWindow), Extra(FALSE, "y", window, NoWindow), Extra(FALSE, "z", bad, NoWindow)>>,
                           <<[is |-> "odd", spark |-> FALSE, name |-> "none", primary |-> NoWindow, secondary |-> NoWindow], Extra(FALSE, "none", window, window)>>,
                           [i \in 1..(MaxAdditionalLimits + 1) |-> Extra(FALSE, <<"a", "b", "c", "d", "e">>[i], window, NoWindow)]}}
        refused == Refusals(IF Varies("services") THEN {"401", "403", "429", "500", "network", "broken", "origin", "cancelled"} ELSE {"401"})
        Unread(part) == Refusals(IF Varies(part) THEN {"missing", "invalid root", "unsafe", "cancelled"} ELSE {"missing"})
        child == Refusals(IF Varies("cli") THEN {"cancelled", "timeout", "closed", "toolarge", "protocol", "remote"} ELSE {"timeout"})
        Answer(p, s, b, l, plan, byid) == [is |-> "limits", primary |-> p, secondary |-> s, balance |-> b, limit |-> l, plan |-> plan, byid |-> byid]
    IN  CASE req.to = "auth" /\ req.by = "Pat" ->
               Unread("token") \cup (IF Varies("token") THEN Bodies({[doc EXCEPT !.pat = "token"], [doc EXCEPT !.pat = "bad"], [is |-> "junk"], doc})
                                     ELSE IF Varies("services") THEN Bodies({[doc EXCEPT !.pat = "token"]}) ELSE {})
          [] req.to = "auth" /\ req.by # "Pat" /\ req.place \in {"native", "ambient"} ->
               Unread("login") \cup Bodies({Login("later", None), Login("soon", None)} \cup
                 (IF Varies("login") /\ req.by = "OAuth" THEN {[doc EXCEPT !.key = "token"], [Login("later", None) EXCEPT !.key = "bad"], Login("none", None), Login("bad", Some(setup.now - LastRefreshMaxAge)),
                                           Login("none", Some(setup.now - LastRefreshMaxAge - 1)), [is |-> "junk"], doc} ELSE {}))
          [] req.to = "auth" /\ req.by # "Pat" /\ req.place = "legacy" -> Unread("none") \cup (IF Varies("login") /\ req.by = "OAuth" THEN Bodies({doc, Login("soon", Some(setup.now - 1)), Login("later", None)}) ELSE {})
          [] req.to = "auth" /\ req.by # "Pat" /\ req.place = "opencode" -> Unread("none") \cup (IF Varies("login") /\ req.by = "OAuth" THEN Bodies({[doc EXCEPT !.openai = o] : o \in {"none", "bad", "soon", "later"}}) ELSE {})
          [] req.to = "config" -> Refusals({"missing"} \cup (IF Varies("token") THEN {"unsafe", "cancelled"} ELSE {})) \cup
                 (IF Varies("services") THEN Bodies({[is |-> "twice", url |-> "none"]} \cup [is : {"base"}, url : {"https://own.example", "http://localhost"}]) ELSE {})
          [] req.to = "whoami" -> refused \cup Bodies({[is |-> "whoami", odd |-> FALSE, account |-> Some("own"), email |-> Some("e1")]} \cup
                 (IF Varies("services") THEN {[is |-> "junk"], [is |-> "whoami", odd |-> TRUE, account |-> None, email |-> None]} ELSE {}))
          [] req.to = "usage" -> refused \cup Bodies(IF Varies("usage") THEN usages ELSE {usage, [is |-> "junk"]})
          [] req.to = "reset credits" -> Refusals({"403", "timeout", "cancelled"}) \cup Bodies({[is |-> "junk"]} \cup [is : {"inventory"}, count : {0, MaxResetCredits, MaxResetCredits + 1}])
          [] req.to = "spawn" -> Refusals({"spawn"} \cup (IF Varies("cli") THEN {"cancelled"} ELSE {})) \cup Bodies({[is |-> "child"]})
          [] req.to \in {"initialize", "initialized"} -> child \cup Bodies({[is |-> "done"]})
          [] req.to = "shutdown" -> Refusals({"cancelled"}) \cup Bodies({[is |-> "done"]})
          [] req.to = "rate limits" ->
               Refusals({"timeout"}) \cup Bodies({Answer(window, weekly, None, NoLimit, None, <<>>)}) \cup
               (IF ~Varies("cli") THEN {}
                ELSE {Reply("remote", m) : m \in {[is |-> "plain"]} \cup [is : {"body"}, primary : {NoWindow, bad, window, weekly}, secondary : {NoWindow, bad, weekly},
                                                                         balance : {None, Some(-1), Some(2)}, email : {None, Some("e1")}]}
                     \cup Bodies({[is |-> "junk"]} \cup {Answer(p, s, b, l, plan, byid) : p \in {NoWindow, window, weekly}, s \in {NoWindow, weekly, window},
                                   b \in {None, Some(-3)}, l \in {NoLimit, [limit EXCEPT !.limit = Some(-1)]}, plan \in {None, Some("plus")},
                                   byid \in {<<>>, <<NoLimit, limit>>, [i \in 1..(MaxLimitEntries + 1) |-> limit]}}))
          [] req.to = "account" -> child \cup Bodies({[is |-> "junk"], [is |-> "account", email |-> Some("e1"), plan |-> None]}
                                                     \cup (IF setup.varies \in {"cli", "credits"} THEN {[is |-> "account", email |-> Some("e2"), plan |-> Some("pro")]} ELSE {}))

Init == Start(Setups)
Next == Advance(Fetch, Replies)
Spec == Init /\ [][Next]_vars

----------------------------------------------------------------------------
(* A credential that was read, and whether it must be renewed first.        *)
Read(place, by) == Asked([to |-> "auth", place |-> place, by |-> by]) /\ ReplyTo([to |-> "auth", place |-> place, by |-> by]).code = "200"
BearerRead(by) == {p \in {LoadBearer(setup.external, by)} : p.is = "ok"}

(* The user is asked to sign in only when a service refused the credential  *)
(* or the login on disk had to be renewed and nobody could; and is told     *)
(* that there is none only when no file held one that was not refused.      *)
LoginOnlyWhenRefused ==
    /\ FailedWith({"AuthenticationExpired"}) =>
         \/ Saw({"401", "403"})
         \/ \E p \in BearerRead("OAuth") : NeedsRefresh(p.value)
    /\ FailedWith({"MissingCredential"}) =>
         /\ ~Asked([to |-> "initialize"])
         /\ \A i \in DOMAIN log : log[i].req.to \in {"usage", "reset credits"} => log[i].reply.code \in {"401", "403"}
         /\ \A i \in DOMAIN log : log[i].req.to = "auth" /\ log[i].req.by = "Pat" /\ log[i].reply.code = "200" =>
              ParseNativePat(log[i].reply.body).is = "err" \/ Saw({"401", "403", "unsafe"})


(* A token is sent only while it needs no renewal; the login of another     *)
(* program is used only when the native one is missing from a root nobody   *)
(* chose; a managed account never runs the CLI, and its own account is the  *)
(* one named; a profile's token is never the ambient one; the CLI renews a  *)
(* login only when it owns it, and is shut down in the end.                 *)
RequestsStayInBounds ==
    /\ \A i \in DOMAIN log :
         LET req == log[i].req IN
         /\ req.to = "usage" /\ req.with # "Pat" =>
              /\ \E p \in BearerRead("OAuth") : ~NeedsRefresh(p.value) /\ p.value.source = req.with
              /\ req.with # "Native" => setup.external /\ ~setup.explicit /\ ReplyTo([to |-> "auth", place |-> "ambient", by |-> "OAuth"]).code \in {"missing", "invalid root"}
              /\ setup.account = "Managed" => req.account = Some("managed")
              /\ setup.account # "FailClosedManaged"
         /\ req.to = "spawn" => ~ManagedSelected \/ setup.mode = "Cli"
         /\ req.to = "spawn" /\ setup.mode = "OAuth" => \E p \in BearerRead("Recovery") : p.value.source = "Native" /\ NeedsRefresh(p.value)
         /\ req.to = "auth" /\ req.by = "Pat" /\ setup.account = "Profile" /\ setup.explicit => req.place = "native"
         /\ req.to = "reset credits" /\ Asked([to |-> "rate limits"]) =>
              ReplyTo([to |-> "auth", place |-> NativeRoot, by |-> "Credits"]).body.tokens[1].email
                = (IF Answered([to |-> "account"], "200") THEN ReplyTo([to |-> "account"]).body.email ELSE ReplyTo([to |-> "rate limits"]).body.email)
    /\ verdict.is # "ask" /\ Answered([to |-> "spawn"], "200") => Asked([to |-> "shutdown"])

=============================================================================
