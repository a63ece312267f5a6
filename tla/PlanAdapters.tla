------------------------------ MODULE PlanAdapters ------------------------------
(****************************************************************************)
(* Adapters that show a plan whose windows are put together from several    *)
(* answers: Grok (grok.rs), Chutes (chutes.rs), LongCat (longcat.rs) and    *)
(* Command Code (commandcode.rs).                                           *)
(* Each is a program of ProviderFetch; setup.provider says which one runs.  *)
(****************************************************************************)
EXTENDS ProviderFetch, SequencesExt, TLC

CONSTANTS
    GrokMaxProfiles,   \* MAX_BROWSER_PROFILES of grok.rs
    GrokMaxSessions,   \* MAX_BROWSER_SESSIONS of grok.rs
    ChutesMaxQuotas,   \* MAX_ENRICHED_QUOTAS
    ChutesMillis,      \* where a number is too large to be seconds
    ChutesMaxMinutes,  \* the longest window a duration can hold
    LongMaxSessions,   \* MAX_BROWSER_SESSIONS of longcat.rs
    LongMaxPackages,   \* MAX_FUEL_PACKAGES
    LongOldest,        \* the smallest number that is taken for a time
    LongMillis,        \* where a number is too large to be seconds
    CcMaxProfiles,     \* MAX_BROWSER_PROFILES of commandcode.rs
    CcMaxAmount,       \* MAX_AMOUNT
    CcMillis           \* as LongMillis

----------------------------------------------------------------------------
(* Grok. The agent of the command line tool, asked over its standard input; *)
(* then the billing proxy with the tool's own login; then, if the user      *)
(* pasted a cookie, the site. A browser's sessions are a source of their    *)
(* own. Times are Unix seconds, -1 a time that cannot be read.              *)

(* GrokSettings::new: where the tool keeps its login.                       *)
GrokHome ==
    CASE setup.configured = "absolute" -> Some("configured")
      [] ~setup.home -> None
      [] setup.configured = "none" -> Some("default")
      [] OTHER -> Some("configured")   \* relative to the user's home
(* normalize_oauth_token: a cookie or an API key is no token.               *)
GrokToken(text) == IF text \in {"none", "blank", "cookie", "api key"} THEN None ELSE Some(text)
(* entry_has_token.                                                         *)
GrokHasToken(entry) == entry.key \notin {"none", "blank"}
(* parse_credentials_at: the login of auth.x.ai, then one of a sign-in      *)
(* page; the one chosen may be over while another is not.                   *)
GrokEntry(entries) ==
    LET First(scope) == LET s == SelectSeq(entries, LAMBDA e : e.scope = scope /\ GrokHasToken(e)) IN IF s = <<>> THEN None ELSE Some(s[1])
    IN  FirstOf(<<First("auth"), First("sign-in")>>)
GrokParsed(entries) ==
    LET e == GrokEntry(entries)
    IN  CASE e = None -> Err("MissingCredential")
          [] e # None /\ e[1].expires \notin {None, Some(-1)} /\ setup.now >= e[1].expires[1] -> Err("AuthenticationExpired")
          [] OTHER -> Then(FirstKey(<<e[1].key>>), LAMBDA t :
                        Ok([token |-> t, email |-> e[1].email, team |-> e[1].team, mode |-> e[1].mode, principal |-> e[1].principal]))
(* load_credentials: a token of the environment, or the tool's file.        *)
GrokCredentials ==
    LET given == SelectSeq(setup.tokens, LAMBDA t : GrokToken(t) # None)
    IN  IF given # <<>>
        THEN Then(FirstKey(<<given[1]>>), LAMBDA t : Ok([token |-> t, email |-> "none", team |-> "none", mode |-> "oidc", principal |-> "none"]))
        ELSE CASE GrokHome # Some(setup.place) \/ setup.auth.is = "missing" -> Err("MissingCredential")
               [] setup.auth.is = "junk" -> Err("Parse")
               [] OTHER -> GrokParsed(setup.auth.entries)

(* classify_rpc_remote and classify_rpc.                                    *)
GrokRemoteKind(code) ==
    CASE code = "says limit" -> "RateLimited" [] code = "says network" -> "Network"
      [] code = "says unavailable" -> "ProviderUnavailable" [] code = "says login" -> "AuthenticationExpired" [] OTHER -> "Api"
GrokRpcKind(code) ==
    CASE code = "no file" -> "MissingCredential" [] code \in {"cancelled", "timeout", "closed"} -> "Network"
      [] code \in {"toolarge", "protocol"} -> "Parse" [] OTHER -> GrokRemoteKind(code)
(* CHILD_ENVIRONMENT_ALLOWLIST.                                             *)
GrokEnvironment == setup.environment \cap {"HOME", "PATH", "GROK_HOME"}
(* normalize_billing.                                                       *)
GrokTime(t) == IF t = Some(-1) THEN Err("Parse") ELSE Ok(t)
GrokCycle(cycle) ==
    Then(GrokTime(cycle.start), LAMBDA start : Then(GrokTime(cycle.end), LAMBDA end :
      Ok([seconds |-> IF start # None /\ end # None /\ end[1] > start[1] THEN Some(end[1] - start[1]) ELSE None, reset |-> end])))
GrokBilling(b) ==
    IF b.is # "billing" \/ b.limit = None \/ b.used = None \/ (b.limit # None /\ b.limit[1] <= 0) THEN Err("Parse")
    ELSE Then(GrokCycle(b.cycle), LAMBDA cycle :
           Ok([windows |-> <<[percent |-> CountPercent(b.used[1], b.limit[1])]>>, reset |-> cycle.reset, seconds |-> cycle.seconds,
               plan |-> Some("Grok Build"), team |-> "none", from |-> "cli"]))
(* fetch_cli_billing: the child is stopped however it ends.                 *)
GrokInitialize == [to |-> "initialize", environment |-> GrokEnvironment]
GrokBillingRequest == [to |-> "billing"]
GrokCli ==
    IF ~setup.executable THEN Err("MissingCredential")
    ELSE Then(Sent(GrokInitialize, GrokRpcKind), LAMBDA hello : Then(Sent(GrokBillingRequest, GrokRpcKind), GrokBilling))

(* grok_plan_display, parse_settings_tier.                                  *)
GrokPlan(text) ==
    CASE text \in {"none", "blank"} -> None [] text = "heavy" -> Some("SuperGrok Heavy") [] OTHER -> Some(text)
GrokTier(b) == IF b.is # "settings" \/ b.tier \in {"overlong", "control"} THEN None ELSE GrokPlan(b.tier)
(* normalize_proxy_billing_usage.                                           *)
GrokProxyPercent(b) ==
    IF b.percent # None THEN Some(Clamp(b.percent[1], 0, 100))
    ELSE IF b.cap # None /\ b.used # None /\ b.cap[1] > 0 THEN Some(Clamp((100 * b.used[1]) \div b.cap[1], 0, 100)) ELSE None
GrokProxy(b) ==
    IF b.is # "proxy" THEN Err("Parse")
    ELSE Then(GrokTime(FirstOf(<<b.end, b.billingEnd>>)), LAMBDA reset :
      IF GrokProxyPercent(b) = None /\ reset = None THEN Err("Parse")
      ELSE Ok([percent |-> GrokProxyPercent(b), reset |-> reset, tier |-> GrokPlan(IF b.configTier # "none" THEN b.configTier ELSE b.tier)]))
(* build_proxy_billing_sample.                                              *)
GrokTeam(c) == CASE c.team # "none" -> c.team [] c.principal = "team" -> "Team" [] OTHER -> "none"
GrokLogin(c, tier, settings) ==
    FirstOf(<<settings, tier, IF c.mode = "none" THEN None ELSE Some(IF c.mode = "oidc" THEN "SuperGrok" ELSE c.mode)>>)
GrokSample(c, billing, settings) ==
    IF c.email = "overlong" THEN Err("Parse")
    ELSE Ok([windows |-> IF billing.percent = None THEN <<>> ELSE <<[percent |-> billing.percent[1]]>>, reset |-> billing.reset,
             seconds |-> None, plan |-> GrokLogin(c, billing.tier, settings), team |-> GrokTeam(c), from |-> "proxy"])
(* The status map: the proxy says 403 to a login it does not take.          *)
GrokProxyKind(code) == IF code = "403" THEN "AuthenticationExpired" ELSE Classified(code)
(* fetch_settings_tier and best_effort_settings_tier.                       *)
GrokSettings(c) == Optional(Then(Sent([to |-> "settings", token |-> c.token], Classified), LAMBDA b : Ok(GrokTier(b))), None)
(* fetch_proxy_billing.                                                     *)
GrokProxyBilling ==
    Then(GrokCredentials, LAMBDA c : Then(Sent([to |-> "proxy", token |-> c.token], GrokProxyKind), LAMBDA b :
    Then(GrokProxy(b), LAMBDA billing : Then(GrokSettings(c), LAMBDA tier : GrokSample(c, billing, tier)))))

(* validate_grpc_status: why a call of gRPC failed, and whether to repeat.  *)
GrokGrpcAgain(s) == s.status = "4" \/ (s.status = "1" /\ s.says = "deadline")
GrokGrpcKind(s) ==
    CASE s.status = "odd" -> "Parse"
      [] GrokGrpcAgain(s) -> "Network"
      [] s.status = "8" -> "RateLimited"
      [] s.status \in {"13", "14"} -> "ProviderUnavailable"
      [] s.status = "16" \/ (s.status = "7" /\ s.says = "bad token") -> "AuthenticationExpired"
      [] s.status = "7" -> "PermissionDenied"
      [] OTHER -> "Api"
(* grpc_web_frames, validate_grpc_trailers: the header first, then every    *)
(* trailer.                                                                 *)
GrokGrpc(b) == SelectSeq(<<b.header>> \o b.trailers, LAMBDA s : s.status \notin {"none", "0"})
(* scan_protobuf, read_varint: fields five levels deep, by wire type.       *)
GrokScan(fields, wire) == SelectSeq(fields, LAMBDA f : f.wire = wire /\ Len(f.path) <= 5)
(* parse_grpc_web_billing: the shallowest field 1 that can be a percentage, *)
(* the earliest time ahead, the known place first.                          *)
GrokWebPercent(fields) ==
    LET fixed == GrokScan(fields, "fixed32")
        fit == {i \in DOMAIN fixed : Last(fixed[i].path) = 1 /\ fixed[i].value \in 0..100}
    IN  IF fit = {} THEN None
        ELSE Some(fixed[CHOOSE i \in fit : \A j \in fit : Len(fixed[i].path) < Len(fixed[j].path) \/ (Len(fixed[i].path) = Len(fixed[j].path) /\ i <= j)].value)
GrokWebReset(fields) ==
    LET varints == GrokScan(fields, "varint")
        ahead == {f \in ToSet(varints) : f.value >= 1700000000 /\ f.value <= 2100000000 /\ f.value > setup.now}
        known == {f \in ahead : f.path = <<1, 5, 1>>}
    IN  IF ahead = {} THEN None ELSE Some(Min({f.value : f \in IF known # {} THEN known ELSE ahead}))
GrokHasPeriod(fields) ==
    \E f \in ToSet(GrokScan(fields, "varint")) : IsPrefix(<<1, 6>>, f.path) \/ (f.path = <<1, 8, 1>> /\ f.value \in {1, 2})
GrokUnused(fields) ==
    GrokScan(fields, "fixed32") = <<>> /\ GrokWebReset(fields) # None /\ GrokHasPeriod(fields)
GrokWebBilling(b) ==
    LET percent == IF b.fields = None THEN None ELSE FirstOf(<<GrokWebPercent(b.fields[1]), IF GrokUnused(b.fields[1]) THEN Some(0) ELSE None>>)
    IN  IF percent = None THEN Err("Parse")
        ELSE Ok([windows |-> <<[percent |-> percent[1]]>>, reset |-> GrokWebReset(b.fields[1]), seconds |-> None, plan |-> None, team |-> "none", from |-> "web"])
(* parse_web_billing_response.                                              *)
GrokWebResponse(b) == IF GrokGrpc(b) # <<>> THEN Err(GrokGrpcKind(GrokGrpc(b)[1])) ELSE GrokWebBilling(b)
(* should_retry_web_transport.                                              *)
GrokRetried(code) == code \in {"timeout", "network", "408", "503"}
GrokAgain(r) == IF r.code # "200" THEN GrokRetried(r.code) ELSE GrokGrpc(r.body) # <<>> /\ GrokGrpcAgain(GrokGrpc(r.body)[1])
GrokWebKind(code) == IF code = "503" THEN "ProviderUnavailable" ELSE Classified(code)
(* fetch_web_session: at most one repetition.                               *)
GrokWebRequest(session, nth) == [to |-> "web", session |-> session, nth |-> nth]
GrokWeb(session) ==
    LET second == Asked(GrokWebRequest(session, 1)) /\ GrokAgain(ReplyTo(GrokWebRequest(session, 1)))
    IN  Then(Sent(GrokWebRequest(session, IF second THEN 2 ELSE 1), GrokWebKind), GrokWebResponse)
(* validated_grok_cookie, has_required_grok_cookie.                         *)
GrokCookie(cookie) ==
    CASE cookie = "broken" -> Err("Parse") [] cookie \in {"none", "other"} -> Err("MissingCredential") [] OTHER -> Ok(cookie)
(* fetch_manual_web_billing, from_manual_capture and                        *)
(* classify_manual_cookie_error.                                            *)
GrokManual ==
    CASE setup.cookies # "Manual" \/ setup.capture \in {"none", "MissingSecret"} -> Err("MissingCredential")
      [] setup.capture = "InvalidSyntax" -> Err("Parse")
      [] OTHER -> Then(GrokCookie(setup.capture), GrokWeb)
(* should_advance_to_cookie, resolve_source_error.                          *)
GrokToCookie(kind) == kind \in {"MissingCredential", "AuthenticationExpired"}
GrokWorse(earlier, later) == IF later = "MissingCredential" THEN earlier ELSE later
(* should_advance_cli_to_oauth: any failure of the tool but a cancellation. *)
GrokStopped == CancelledBy(GrokInitialize) \/ CancelledBy(GrokBillingRequest)
(* fetch_billing.                                                           *)
GrokAuto ==
    OrElse(GrokCli, LAMBDA cli : IF GrokStopped THEN cli
    ELSE OrElse(GrokProxyBilling, LAMBDA proxy : IF ~GrokToCookie(proxy.kind) \/ setup.cookies # "Manual" THEN proxy
    ELSE OrElse(GrokManual, LAMBDA web : Err(GrokWorse(proxy.kind, web.kind)))))

(* grok_browser_sessions: one session for each profile with a cookie of its *)
(* own; a profile that cannot be read is passed over.                       *)
GrokSessions ==
    LET found == SelectSeq(setup.profiles, LAMBDA p : p \notin {"unreadable", "none", "other"})
        once == SelectSeq([i \in DOMAIN found |-> [cookie |-> found[i], first |-> \A j \in 1..(i - 1) : found[j] # found[i]]], LAMBDA s : s.first)
    IN  CASE Len(setup.profiles) > GrokMaxProfiles \/ "broken" \in ToSet(found) \/ Len(once) > GrokMaxSessions -> Err("Parse")
          [] once = <<>> -> Err(IF setup.profiles = <<>> THEN "MissingCredential" ELSE "AuthenticationExpired")
          [] OTHER -> Ok([i \in DOMAIN once |-> once[i].cookie])
(* fetch_browser_billing.                                                   *)
GrokBrowser ==
    Then(GrokSessions, LAMBDA sessions : AnyOf(Len(sessions), LAMBDA i : GrokWeb(sessions[i]), {"AuthenticationExpired", "PermissionDenied"}))
GrokFetch ==
    CASE setup.mode = "Cli" -> GrokCli [] setup.mode = "OAuth" -> GrokProxyBilling [] setup.mode = "Web" -> GrokManual
      [] setup.mode = "Auto" -> GrokAuto [] setup.mode = "Browser" -> GrokBrowser

GrokSetups ==
    LET E(scope, key, expires, email, team, mode, principal) ==
          [scope |-> scope, key |-> key, expires |-> expires, email |-> email, team |-> team, mode |-> mode, principal |-> principal]
        mine == E("auth", "t", Some(1800000000), "me", "none", "oidc", "team")
        file == [is |-> "file", entries |-> <<mine>>]
        S(mode, executable, configured, home, auth, tokens, cookies, capture, profiles, varies) ==
          [provider |-> "grok", source |-> IF mode = "Browser" THEN "BrowserSession" ELSE "Cli", now |-> 1750000000, mode |-> mode, executable |-> executable,
           configured |-> configured, home |-> home, place |-> IF configured = "none" THEN "default" ELSE "configured", auth |-> auth, tokens |-> tokens,
           environment |-> {"HOME", "PATH", "XAI_API_KEY"}, cookies |-> cookies, capture |-> capture, profiles |-> profiles, varies |-> varies]
        A(auth, tokens, varies) == S("OAuth", FALSE, "none", TRUE, auth, tokens, "Off", "none", <<>>, varies)
    IN  {S("OAuth", FALSE, c, h, file, <<"none">>, "Off", "none", <<>>, "nothing") : c \in {"none", "absolute", "relative"}, h \in BOOLEAN}
        \cup {A([is |-> f], <<a, b>>, "nothing") : f \in {"missing", "junk"}, a \in {"none", "blank", "api key"}, b \in {"cookie", "malformed", "e"}}
        \cup {A([is |-> "file", entries |-> <<a, b>>], <<"none">>, "nothing") :
                a \in {E("other", "o", None, "none", "none", "none", "none"), [mine EXCEPT !.key = "blank"], [mine EXCEPT !.expires = Some(1750000000)], [mine EXCEPT !.key = "malformed"]},
                b \in {E("sign-in", "s", Some(-1), "none", "crew", "api_key", "user"), [mine EXCEPT !.email = "overlong"], E("sign-in", "none", None, "none", "none", "none", "none")}}
        \cup {A(file, <<"none">>, "proxy"), S("Cli", TRUE, "none", TRUE, file, <<"none">>, "Off", "none", <<>>, "cli")}
        \cup {S("Auto", x, "none", TRUE, f, <<"none">>, c, "sso", <<>>, "auto") : x \in BOOLEAN, c \in {"Auto", "Manual"},
                f \in {file, [is |-> "missing"], [is |-> "file", entries |-> <<[mine EXCEPT !.expires = Some(1)]>>]}}
        \cup {S(m, FALSE, "none", TRUE, [is |-> "missing"], <<"none">>, c, p, <<>>, "nothing") : m \in {"Auto", "Web"}, c \in {"Off", "Manual"},
                p \in {"none", "MissingSecret", "InvalidSyntax", "broken", "other", "sso"}}
        \cup {S("Web", FALSE, "none", TRUE, file, <<"none">>, "Manual", "sso", <<>>, "web")}
        \cup {S("Browser", FALSE, "none", TRUE, file, <<"none">>, "Auto", "none", p, "sessions") :
                p \in {<<>>, <<"unreadable", "other">>, <<"a", "broken">>, <<"a", "none", "a">>, <<"a", "other", "b">>, <<"a", "b", "c">>, <<"a", "a", "a", "a">>}}
GrokReplies(req) ==
    LET B(limit, used, start, end) == [is |-> "billing", limit |-> limit, used |-> used, cycle |-> [start |-> start, end |-> end]]
        P(percent, cap, used, end, billingEnd, configTier, tier) ==
          [is |-> "proxy", percent |-> percent, cap |-> cap, used |-> used, end |-> end, billingEnd |-> billingEnd, configTier |-> configTier, tier |-> tier]
        G(status, says) == [status |-> status, says |-> says]
        W(header, trailers, fields) == [is |-> "web", header |-> header, trailers |-> trailers, fields |-> fields]
        F(path, wire, value) == [path |-> path, wire |-> wire, value |-> value]
        used == Some(<<F(<<1, 2>>, "fixed32", 40), F(<<1, 5, 1>>, "varint", 1800000000), F(<<1, 1>>, "fixed32", 30)>>)
        fine == G("none", "none")
        rpc == {"no file", "cancelled", "timeout", "closed", "toolarge", "protocol", "says limit", "says network", "says unavailable", "says login", "says other"}
    IN  CASE req.to = "initialize" -> Refusals(IF setup.varies = "cli" THEN rpc ELSE {"no file", "cancelled", "says login"}) \cup Bodies([is : {"hello"}])
          [] req.to = "billing" ->
               IF setup.varies = "cli"
               THEN Refusals(rpc \ {"no file"}) \cup Bodies([is : {"junk"}] \cup {B(l, u, s, e) : l \in {None, Some(0), Some(200)}, u \in {None, Some(-5), Some(50), Some(500)},
                      s \in {None, Some(-1), Some(1749000000)}, e \in {None, Some(-1), Some(1751000000)}})
               ELSE Refusals({"cancelled", "timeout"}) \cup Bodies([is : {"junk"}] \cup {B(Some(200), Some(50), None, None)})
          [] req.to = "proxy" ->
               IF setup.varies = "proxy"
               THEN Refusals({"401", "403", "429", "500", "network", "cancelled"})
                    \cup Bodies([is : {"junk"}] \cup {P(p, c, u, e, f, t, v) : p \in {None, Some(-3), Some(130)}, c \in {None, Some(0), Some(50)}, u \in {None, Some(75)},
                           e \in {None, Some(-1), Some(1751000000)}, f \in {None, Some(1752000000)}, t \in {"none", "blank"}, v \in {"none", "heavy"}})
               ELSE Refusals({"401", "403", "network", "cancelled"}) \cup Bodies({P(None, None, None, None, None, "none", "none"), P(Some(20), None, None, None, None, "heavy", "none")})
          [] req.to = "settings" -> Refusals({"cancelled", "timeout", "403"}) \cup Bodies([is : {"junk"}] \cup [is : {"settings"}, tier : {"blank", "overlong", "heavy", "pro"}])
          [] req.to = "web" /\ setup.varies = "web" ->
               Refusals({"401", "403", "408", "429", "503", "500", "network", "cancelled"})
               \cup Bodies({W(G(s, m), <<>>, used) : s \in {"odd", "0", "1", "4", "5", "7", "8", "14", "16"}, m \in {"none", "deadline", "bad token"}}
                    \cup {W(fine, t, used) : t \in {<<G("0", "none")>>, <<fine, G("16", "none")>>, <<G("4", "none"), G("16", "none")>>}}
                    \cup {W(fine, <<>>, f) : f \in {None, Some(<<>>), used,
                            Some(<<F(<<1, 6, 2>>, "varint", 3), F(<<1, 5, 1>>, "varint", 1900000000), F(<<1, 4>>, "varint", 1800000000)>>),
                            Some(<<F(<<1, 8, 1>>, "varint", 2), F(<<2>>, "varint", 1750000000)>>), Some(<<F(<<1, 8, 1>>, "varint", 1), F(<<2>>, "varint", 1750000001)>>),
                            Some(<<F(<<1, 1, 1, 1, 1, 1>>, "fixed32", 10)>>), Some(<<F(<<1, 1, 1>>, "fixed32", 10), F(<<3, 1>>, "fixed32", 101), F(<<1>>, "fixed64", 5), F(<<4, 1>>, "fixed32", 77)>>)}})
          [] OTHER -> Refusals({"401", "403", "network", "cancelled"}) \cup Bodies({W(fine, <<>>, used), W(G("16", "none"), <<>>, used), W(G("4", "none"), <<>>, None)})

----------------------------------------------------------------------------
(* Chutes. Answers of no fixed shape: objects are searched for figures      *)
(* under many names. The subscription first; the quotas, each asked for     *)
(* its usage, where a window is missing. Shares are in hundredths of a      *)
(* percent; an object with figures is a function from the names' groups.    *)

(* The groups of names: of an object with figures, and of a level.          *)
ChutesNoFigures ==
    [label |-> None, used |-> None, limit |-> None, remaining |-> None, percent |-> None, left |-> None, minutes |-> None, hours |-> None,
     text |-> None, reset |-> None, unit |-> None, id |-> None]
ChutesEmpty == [rolling |-> None, monthly |-> None, quotas |-> <<>>, subscription |-> None, active |-> None, status |-> None, plan |-> None, reset |-> None]

(* clean_setting, has_explicit_scheme, normalize_https_endpoint.            *)
ChutesSetting(text) == IF text = "blank" THEN "none" ELSE text
ChutesScheme(address) == IF address = "bare" THEN "own" ELSE address
ChutesEndpoint(address) ==
    CASE ChutesSetting(address) = "none" -> Ok("chutes")
      [] ChutesScheme(address) \in {"insecure", "query", "user"} -> Err("Api")
      [] OTHER -> Ok(ChutesScheme(address))
(* ChutesSettings::resolve.                                                 *)
ChutesSettings == Then(FirstKey(<<setup.key>>), LAMBDA key : ChutesEndpoint(setup.url))
(* append_segments.                                                         *)
ChutesRequest(base, what) == [to |-> what, at |-> base]
ChutesUsageRequest(base, id, nth) == [to |-> "quota_usage", at |-> base, id |-> id, nth |-> nth]

(* normalized_percent: less than one is a ratio.                            *)
ChutesShare(v) == IF v = None THEN None ELSE Some(Clamp(IF v[1] > -100 /\ v[1] < 100 THEN 100 * v[1] ELSE v[1], 0, 10000))
(* first_date, timestamp_value, epoch_timestamp.                            *)
ChutesTime(v) ==
    IF v = None \/ (v # None /\ v[1] <= 0) THEN None ELSE Some(IF v[1] > ChutesMillis THEN v[1] \div 1000 ELSE v[1])
(* window_minutes and window_minutes_text.                                  *)
ChutesText(text) ==
    CASE text = "4h" -> Some(240) [] text = "30d" -> Some(43200) [] text = "1mo" -> Some(43200) [] OTHER -> None
ChutesMinutes(p) ==
    FirstOf(<<p.minutes, IF p.hours = None THEN None ELSE Some(60 * p.hours[1]), IF p.text = None THEN None ELSE ChutesText(p.text[1])>>)
(* usage_percent: of used, limit and remaining two give the third.          *)
ChutesPercent(w) ==
    LET limit == IF w.limit = None /\ w.used # None /\ w.remaining # None THEN Some(w.used[1] + w.remaining[1]) ELSE w.limit
        used == IF w.used = None /\ limit # None /\ w.remaining # None THEN Some(limit[1] - w.remaining[1]) ELSE w.used
    IN  IF w.percent # None THEN Some(Clamp(w.percent[1], 0, 10000))
        ELSE IF used = None \/ limit = None \/ (limit # None /\ limit[1] <= 0) THEN None
        ELSE Some((10000 * used[1]) \div limit[1])
(* parse_quota.                                                             *)
ChutesQuota(p, label, minutes) ==
    LET share == ChutesShare(p.percent)
        left == ChutesShare(p.left)
        w == [label |-> FirstOf(<<p.label, label>>), used |-> p.used, limit |-> p.limit, remaining |-> p.remaining,
              percent |-> IF share # None THEN share ELSE IF left # None THEN Some(10000 - left[1]) ELSE None,
              minutes |-> FirstOf(<<ChutesMinutes(p), minutes>>), reset |-> ChutesTime(p.reset), unit |-> FirstOf(<<p.unit, Some("credits")>>)]
    IN  IF ChutesPercent(w) = None THEN None ELSE Some(w)
(* is_quota_payload.                                                        *)
ChutesHasFigures(p) == \E f \in {"limit", "used", "remaining", "percent", "left"} : p[f] # None
(* window_kind.                                                             *)
ChutesKind(w) ==
    CASE w.label = Some("4-hour") \/ w.minutes = Some(240) -> "rolling"
      [] w.label = Some("month") \/ (w.minutes # None /\ w.minutes[1] >= 28 * 24 * 60) -> "monthly"
      [] OTHER -> "other"

(* extract_quota_objects: the objects of a level, by name, with what they   *)
(* hold.                                                                    *)
ChutesLevel(part) == part.monthly \o part.quotas \o part.rolling \o (IF part.subscription = None THEN <<>> ELSE <<part.subscription[1].quota>>)
(* first_dictionary, first_value and its kinds first_string, first_bool and *)
(* first_double: what one of a group's names holds, the outer level before  *)
(* the inner one.                                                           *)
ChutesInner(doc) == IF doc.data = None THEN doc.root ELSE doc.data[1]
ChutesFirst(doc, name) == FirstOf(<<doc.root[name], ChutesInner(doc)[name]>>)
(* fallback_quota_objects: each object once.                                *)
ChutesObjects(doc) ==
    LET inner == ChutesInner(doc)
        all == doc.root.quotas \o inner.quotas \o ChutesLevel(inner) \o (IF doc.data = None THEN <<>> ELSE ChutesLevel(inner)) \o ChutesLevel(doc.root)
        marked == [i \in DOMAIN all |-> [object |-> all[i], kept |-> ChutesHasFigures(all[i]) /\ \A j \in 1..(i - 1) : all[j] # all[i]]]
        kept == SelectSeq(marked, LAMBDA m : m.kept)
    IN  [i \in DOMAIN kept |-> kept[i].object]
(* subscription_state: a flag first, then the words of a status.            *)
ChutesState(doc) ==
    LET s == ChutesFirst(doc, "subscription")
        active == FirstOf(<<doc.root.active, ChutesInner(doc).active, IF s = None THEN None ELSE s[1].active>>)
        status == FirstOf(<<doc.root.status, ChutesInner(doc).status, IF s = None THEN None ELSE s[1].status>>)
    IN  CASE active # None -> IF active[1] THEN "Active" ELSE "Inactive"
          [] status = Some("active") -> "Active" [] status = Some("expired") -> "Inactive" [] OTHER -> "Unknown"
(* plan_name, subscription_renews_at.                                       *)
ChutesPlan(doc) ==
    LET s == ChutesFirst(doc, "subscription")
    IN  FirstOf(<<doc.root.plan, ChutesInner(doc).plan, IF s = None THEN None ELSE s[1].plan>>)
ChutesRenews(doc) ==
    LET s == ChutesFirst(doc, "subscription")
    IN  FirstOf(<<ChutesTime(doc.root.reset), ChutesTime(ChutesInner(doc).reset), IF s = None THEN None ELSE ChutesTime(s[1].quota.reset)>>)
(* parse_snapshot: windows by their own names, then by what kind a quota    *)
(* is; what neither is taken for is left over.                              *)
ChutesNamed(p, label, minutes) == IF p = None THEN None ELSE ChutesQuota(p[1], Some(label), Some(minutes))
ChutesMonthlyIn(part) == FirstOf(<<part.monthly, IF part.subscription = None THEN None ELSE Some(part.subscription[1].quota)>>)
ChutesWindows(objects) == FlattenSeq([i \in DOMAIN objects |-> ChutesQuota(objects[i], None, None)])
ChutesChosen(doc, windows) ==
    LET First(kind) == LET k == SelectSeq(windows, LAMBDA w : ChutesKind(w) = kind) IN IF k = <<>> THEN None ELSE Some(k[1])
    IN  [rolling |-> FirstOf(<<ChutesNamed(ChutesFirst(doc, "rolling"), "4-hour", 240), First("rolling")>>),
         monthly |-> FirstOf(<<ChutesNamed(FirstOf(<<ChutesMonthlyIn(doc.root), ChutesMonthlyIn(ChutesInner(doc))>>), "month", 43200), First("monthly")>>)]
ChutesSorted(doc, windows, chosen) ==
    [rolling |-> chosen.rolling, monthly |-> chosen.monthly,
     fallback |-> SelectSeq(windows, LAMBDA w : Some(w) \notin {chosen.rolling, chosen.monthly}),
     state |-> ChutesState(doc), plan |-> ChutesPlan(doc), renews |-> ChutesRenews(doc)]
ChutesSnapshot(doc) ==
    Then(Ok(ChutesWindows(ChutesObjects(doc))), LAMBDA windows : ChutesSorted(doc, windows, ChutesChosen(doc, windows)))
(* has_usage, with_subscription_context.                                    *)
ChutesHasUsage(s) == s.rolling # None \/ s.monthly # None \/ s.fallback # <<>>
ChutesMerged(quotas, s) ==
    [s EXCEPT !.rolling = FirstOf(<<@, quotas.rolling>>), !.monthly = FirstOf(<<@, quotas.monthly>>), !.fallback = @ \o quotas.fallback]

(* quota_definitions; an answer is an array of objects or an object.        *)
ChutesDefinitions(b) ==
    IF b.doc.root.quotas # <<>> \/ b.doc.data = None THEN b.doc.root.quotas ELSE b.doc.data[1].quotas
(* quota_identifier.                                                        *)
ChutesId(p) == IF p.id = Some("overlong") THEN None ELSE p.id
(* response_dictionary: what the usage says replaces what the quota said.   *)
ChutesExtended(p, u) == [f \in DOMAIN p |-> IF u[f] # None THEN u[f] ELSE p[f]]
(* is_authentication_error.                                                 *)
ChutesRefused(p) == p.is = "err" /\ p.kind \in {"AuthenticationExpired", "PermissionDenied"}
(* fetch_quotas: one definition after the other.                            *)
ChutesDefinition(base, p, nth) ==
    IF ChutesId(p) = None THEN Ok(p)
    ELSE LET usage == Sent(ChutesUsageRequest(base, ChutesId(p)[1], nth), Classified)
         IN  CASE usage.is = "ok" -> Ok(IF usage.value.is = "object" THEN ChutesExtended(p, usage.value.fields) ELSE p)
               [] usage.is = "ask" \/ ChutesRefused(usage) -> usage
               [] OTHER -> Ok(p)
ChutesEnriched(base, definitions) ==
    LET n == IF Len(definitions) > ChutesMaxQuotas THEN ChutesMaxQuotas ELSE Len(definitions)
        Walk[i \in 0..n] ==
          IF i = 0 THEN Ok(<<>>)
          ELSE Then(Walk[i - 1], LAMBDA done : Then(ChutesDefinition(base, definitions[i], i), LAMBDA p : Ok(Append(done, p))))
    IN  Walk[n]
ChutesQuotas(base) ==
    Then(Sent(ChutesRequest(base, "quotas"), Classified), LAMBDA b :
      IF b.is = "junk" THEN Err("Parse")
      ELSE IF ChutesDefinitions(b) = <<>> THEN Ok(ChutesSnapshot(b.doc))
      ELSE Then(ChutesEnriched(base, ChutesDefinitions(b)), LAMBDA e :
             Then(Ok(ChutesSnapshot([root |-> [ChutesEmpty EXCEPT !.quotas = e], data |-> None])), LAMBDA s :
               Ok(IF ChutesHasUsage(s) THEN s ELSE ChutesSnapshot(b.doc)))))

(* usage_description and format_amount: a text that does not fit fails.     *)
ChutesDescription(w) ==
    IF w.limit = None \/ (w.limit # None /\ w.limit[1] <= 0) \/ (w.used = None /\ w.remaining = None) \/ w.unit # Some("overlong") THEN Ok("fits") ELSE Err("Parse")
(* rate_window.                                                             *)
ChutesWindow(w) ==
    LET minutes == IF w.minutes # None /\ w.minutes[1] > 0 THEN w.minutes ELSE None
    IN  IF minutes # None /\ minutes[1] > ChutesMaxMinutes THEN Err("Parse")
        ELSE Then(ChutesDescription(w), LAMBDA text : Ok([percent |-> Clamp(ChutesPercent(w)[1], 0, 10000) \div 100, minutes |-> minutes, reset |-> w.reset]))
ChutesMaybe(w) == IF w = None THEN Ok(None) ELSE Then(ChutesWindow(w[1]), LAMBDA r : Ok(Some(r)))
(* normalize: what the plan is called when it has no name.                  *)
ChutesLogin(s, has) ==
    CASE s.plan # None -> s.plan [] s.state = "Inactive" -> Some("No active subscription")
      [] s.state = "Unknown" /\ ~has -> Some("No usage data") [] OTHER -> None
ChutesNormal(s) ==
    LET shown == [i \in DOMAIN s.fallback |-> ChutesWindow(s.fallback[i])]
        Nth(i) == IF i \in DOMAIN shown THEN Some(shown[i].value) ELSE None
    IN  IF \E i \in DOMAIN shown : shown[i].is = "err" THEN Err("Parse")
        ELSE Then(ChutesMaybe(s.monthly), LAMBDA monthly : Then(ChutesMaybe(s.rolling), LAMBDA rolling :
          LET primary == IF rolling # None THEN rolling ELSE IF monthly = None THEN Nth(1) ELSE None
              secondary == CASE monthly # None -> monthly [] rolling # None -> Nth(1) [] primary # None -> Nth(2) [] OTHER -> None
          IN  Ok([windows |-> primary \o secondary, login |-> ChutesLogin(s, primary \o secondary # <<>>),
                  renews |-> FirstOf(<<s.renews, IF s.monthly = None THEN None ELSE s.monthly[1].reset>>)])))
(* fetch_at: a failure of the quotas costs nothing, a refusal everything.   *)
ChutesCompleted(base, s) ==
    IF s.rolling # None /\ s.monthly # None THEN Ok(s)
    ELSE Settled(ChutesQuotas(base), LAMBDA quotas :
           CASE ChutesRefused(quotas) -> quotas
             [] quotas.is = "ok" /\ ChutesHasUsage(quotas.value) -> Ok(ChutesMerged(quotas.value, s))
             [] OTHER -> Ok(s))
ChutesFetch ==
    Then(ChutesSettings, LAMBDA base : Then(Sent(ChutesRequest(base, "subscription_usage"), Classified), LAMBDA b :
      IF b.is = "junk" THEN Err("Parse")
      ELSE Then(ChutesCompleted(base, ChutesSnapshot(b.doc)), ChutesNormal)))

ChutesSetups ==
    LET S(key, url, varies) == [provider |-> "chutes", source |-> "ApiKey", now |-> 500, key |-> key, url |-> url, varies |-> varies]
    IN  {S(k, u, "nothing") : k \in {"none", "malformed", "k"}, u \in {"none", "blank", "bare", "insecure", "query", "own"}}
        \cup {S("k", "none", v) : v \in {"windows", "levels", "quotas", "usage"}}
ChutesReplies(req) ==
    LET blank == ChutesNoFigures
        Q(used, limit) == [blank EXCEPT !.used = Some(used), !.limit = Some(limit)]
        odd == {[blank EXCEPT !.percent = Some(v)] : v \in {-20, 50, 99, 100, 20000}} \cup {[blank EXCEPT !.left = Some(v)] : v \in {30, 2500}}
               \cup {[blank EXCEPT !.used = u, !.limit = l, !.remaining = r] : u \in {None, Some(-1), Some(30)}, l \in {None, Some(0), Some(20)}, r \in {None, Some(10)}}
               \cup {[Q(1, 2) EXCEPT !.minutes = m] : m \in {Some(-5), Some(ChutesMaxMinutes), Some(ChutesMaxMinutes + 1)}}
               \cup {[Q(1, 2) EXCEPT !.hours = Some(4)], [Q(1, 2) EXCEPT !.text = Some("1mo")], [Q(1, 2) EXCEPT !.text = Some("odd")], [Q(1, 2) EXCEPT !.label = Some("4-hour")],
                     [Q(1, 2) EXCEPT !.unit = Some("overlong")], [Q(1, 2) EXCEPT !.reset = Some(0)], [Q(1, 2) EXCEPT !.reset = Some(2001)]}
        D(root, data) == [is |-> "doc", doc |-> [root |-> root, data |-> data]]
        sub == [quota |-> [blank EXCEPT !.reset = Some(900)], active |-> None, status |-> Some("active"), plan |-> Some("pro")]
        half == [ChutesEmpty EXCEPT !.rolling = Some(Q(3, 4))]
        named(n, id) == [Q(n, 10) EXCEPT !.id = id]
    IN  CASE req.to = "subscription_usage" /\ setup.varies = "windows" ->
               Refusals({"401", "403", "429", "network", "cancelled"}) \cup Bodies([is : {"junk"}]
                 \cup {D([ChutesEmpty EXCEPT !.rolling = Some(p), !.monthly = m], None) : p \in odd, m \in {None, Some(Q(5, 10))}} \cup {D([ChutesEmpty EXCEPT !.quotas = <<p>>], None) : p \in odd})
          [] req.to = "subscription_usage" /\ setup.varies = "levels" ->
               Bodies({D([ChutesEmpty EXCEPT !.active = a, !.status = s, !.subscription = u], d) : a \in {None, Some(TRUE), Some(FALSE)}, s \in {None, Some("expired"), Some("odd")},
                         u \in {None, Some(sub), Some([sub EXCEPT !.quota = Q(1, 5)])},
                         d \in {None, Some(half), Some([half EXCEPT !.monthly = Some(Q(1, 9)), !.plan = Some("inner"), !.reset = Some(800)])}})
          [] req.to = "subscription_usage" -> Bodies({D(ChutesEmpty, None), D(half, None), D([ChutesEmpty EXCEPT !.monthly = Some(Q(1, 9))], None)})
          [] req.to = "quotas" /\ setup.varies = "quotas" ->
               Refusals({"401", "403", "429", "network", "cancelled"}) \cup Bodies([is : {"junk"}]
                 \cup {D([ChutesEmpty EXCEPT !.quotas = q], d) : d \in {None, Some([ChutesEmpty EXCEPT !.quotas = <<Q(7, 8)>>])},
                         q \in {<<>>, <<blank>>, <<Q(1, 2), Q(1, 2)>>, <<Q(1, 2), Q(1, 3), Q(1, 4)>>, <<[Q(1, 2) EXCEPT !.minutes = Some(240)], [Q(1, 2) EXCEPT !.minutes = Some(40320)], [Q(1, 2) EXCEPT !.id = Some("overlong")]>>}}
                 \cup {D([ChutesEmpty EXCEPT !.rolling = Some(Q(3, 4))], None)})
          [] req.to = "quotas" -> Refusals({"cancelled"}) \cup Bodies({D([ChutesEmpty EXCEPT !.quotas = <<named(1, Some("a")), named(2, Some("a")), named(3, Some("b"))>>], None),
                                        D([ChutesEmpty EXCEPT !.quotas = <<[blank EXCEPT !.id = Some("a"), !.limit = Some(4)]>>], None)})
          [] req.to = "quota_usage" ->
               Refusals({"401", "403", "network", "cancelled"}) \cup Bodies([is : {"junk", "array"}] \cup [is : {"object"}, fields : {blank, [blank EXCEPT !.used = Some(9)],
                 [blank EXCEPT !.minutes = Some(240), !.used = Some(2)], [blank EXCEPT !.label = Some("month")]}])

----------------------------------------------------------------------------
(* LongCat. Four routes, each with the cookies its path selects: the        *)
(* account, the token packs or else the older usage, the fuel packs.        *)

(* Routes.                                                                  *)
LongRoutes == {"account", "summary", "legacy", "fuel"}
(* from_manual_capture_routes: the pasted cookie goes to every route.       *)
LongManual == IF setup.capture # "ok" THEN Err(CaptureKind(setup.capture)) ELSE Ok(<<LongRoutes>>)
(* browser_header and SessionHeaders::from_jar: the routes a jar has        *)
(* cookies for.                                                             *)
LongHeaders(jar) == jar.routes
(* from_browser_jars_routes.                                                *)
LongBrowser ==
    LET sessions == SelectSeq([i \in DOMAIN setup.jars |-> LongHeaders(setup.jars[i])], LAMBDA s : s # {})
    IN  IF setup.jars = <<>> \/ Len(setup.jars) > LongMaxSessions THEN Err("MissingCredential")
        ELSE IF sessions = <<>> THEN Err(IF \A i \in DOMAIN setup.jars : setup.jars[i].empty THEN "MissingCredential" ELSE "AuthenticationExpired")
        ELSE Ok(sessions)
LongSessions == IF setup.source = "ManualCookie" THEN LongManual ELSE LongBrowser

(* classify_transport: a redirect that leaves the site is a login page.     *)
LongKind(code) ==
    CASE code \in {"401", "403", "redirects", "origin"} -> "AuthenticationExpired"
      [] code \in {"network", "timeout", "cancelled"} -> "Network"
      [] code \in {"toolarge", "broken"} -> "Parse"
      [] OTHER -> "Api"
(* parse_bounded_json, envelope_object.                                     *)
LongEnvelope(b) ==
    CASE b.is = "junk" -> Err("Parse")
      [] b.is # "junk" /\ b.code \notin {0, 200} -> Err(IF b.code \in {401, 403} THEN "AuthenticationExpired" ELSE "Api")
      [] OTHER -> IF b.data THEN Ok(b) ELSE Err("Parse")
(* request and request_object.                                              *)
LongRequest(session, nth, route) ==
    IF route \notin session THEN Err("MissingCredential") ELSE Then(Sent([to |-> route, session |-> nth], LongKind), LongEnvelope)
(* active_token_lot.                                                        *)
LongLot(summary) ==
    IF summary = None \/ (summary # None /\ (summary[1].status # "active" \/ summary[1].total = None)) THEN None
    ELSE IF summary[1].total[1] > 0 THEN summary ELSE None
(* validate_legacy_usage.                                                   *)
LongLegacy(b) == IF b.total = None THEN Err("Parse") ELSE Ok(Some(b))
(* parse_timestamp: seconds or milliseconds; a small number is no time.     *)
LongTime(v) ==
    LET seconds == IF v[1] > LongMillis THEN v[1] \div 1000 ELSE v[1]
    IN  IF v = None THEN None ELSE IF seconds > LongOldest THEN Some(seconds) ELSE None
(* apply_fuel: the packs' sum, or the total; the first to expire.           *)
LongFuel(fuel) ==
    LET left == SelectSeq(fuel.packs, LAMBDA p : p.available # None)
        dated == {LongTime(p.expires)[1] : p \in {q \in ToSet(fuel.packs) : LongTime(q.expires) # None}}
        remaining == FoldLeft(LAMBDA sum, p : sum + p.available[1], 0, left)
    IN  IF Len(fuel.packs) > LongMaxPackages THEN Err("Parse")
        ELSE Ok([total |-> IF fuel.total # None /\ fuel.total[1] > 0 THEN fuel.total ELSE None,
                 remaining |-> IF left # <<>> THEN remaining ELSE IF fuel.total = None THEN 0 ELSE fuel.total[1],
                 nearest |-> IF dated = {} THEN None ELSE Some(CHOOSE t \in dated : \A u \in dated : t <= u)])
(* quota_window.                                                            *)
LongWindow(used, total, reset) == <<[percent |-> Clamp((100 * used) \div total, 0, 100), reset |-> reset]>>
LongPositive(x) == IF x < 0 THEN 0 ELSE x
(* normalize_payloads and snapshot_to_sample: what is missing follows from  *)
(* the rest.                                                                *)
LongTokens(lot, legacy) ==
    IF lot # None THEN [total |-> lot[1].total, used |-> IF lot[1].used = None THEN Some(0) ELSE lot[1].used, left |-> None]
    ELSE [total |-> legacy[1].total, used |-> legacy[1].used, left |-> legacy[1].left]
LongPrimary(t) ==
    IF t.total[1] <= 0 THEN <<>>
    ELSE LongWindow(LongPositive(IF t.used # None THEN t.used[1] ELSE IF t.left # None THEN t.total[1] - t.left[1] ELSE 0), t.total[1], None)
LongSecondary(f) == IF f.total = None THEN <<>> ELSE LongWindow(LongPositive(f.total[1] - f.remaining), f.total[1], f.nearest)
LongSample(lot, legacy, fuel) ==
    LET primary == LongPrimary(LongTokens(lot, legacy))
    IN  IF fuel = None THEN Ok([windows |-> primary])
        ELSE Then(LongFuel(fuel[1]), LAMBDA f : Ok([windows |-> primary \o LongSecondary(f)]))
(* fetch_session: the older usage is asked only where no pack is active.    *)
LongMaybe(p) == Optional(Then(p, LAMBDA b : Ok(Some(b))), None)
LongSession(session, nth) ==
    Then(LongRequest(session, nth, "account"), LAMBDA account : Then(LongMaybe(LongRequest(session, nth, "summary")), LAMBDA summary :
    Then(IF LongLot(summary) # None THEN Ok(None) ELSE Then(LongRequest(session, nth, "legacy"), LongLegacy), LAMBDA legacy :
    Then(LongMaybe(LongRequest(session, nth, "fuel")), LAMBDA fuel : LongSample(LongLot(summary), legacy, fuel)))))
(* fetch_at.                                                                *)
LongFetch ==
    Then(LongSessions, LAMBDA sessions : AnyOf(Len(sessions), LAMBDA i : LongSession(sessions[i], i), {"MissingCredential", "AuthenticationExpired"}))

LongSetups ==
    LET J(routes) == [routes |-> routes, empty |-> FALSE]
        none == [routes |-> {}, empty |-> TRUE]
    IN  [provider : {"longcat"}, source : {"ManualCookie"}, now : {500}, capture : {"ok", "MissingSecret", "InvalidSyntax", "InvalidPolicy"}, varies : {"usage", "fuel"}]
        \cup [provider : {"longcat"}, source : {"BrowserSession"}, now : {500}, varies : {"sessions"},
              jars : {<<>>, <<none>>, <<none, J({})>>, <<J(LongRoutes), J({"account"})>>, <<J({"account", "summary"}), none, J(LongRoutes)>>,
                      <<J({"summary"}), J(LongRoutes)>>, <<none, none, none, J(LongRoutes)>>}]
LongReplies(req) ==
    LET E(code, data) == [is |-> "envelope", code |-> code, data |-> data]
        L(status, total, used) == [is |-> "summary", code |-> 0, data |-> TRUE, status |-> status, total |-> total, used |-> used]
        U(total, used, left) == [is |-> "legacy", code |-> 200, data |-> TRUE, total |-> total, used |-> used, left |-> left]
        P(available, expires) == [available |-> available, expires |-> expires]
        F(total, packs) == [is |-> "fuel", code |-> 0, data |-> TRUE, total |-> total, packs |-> packs]
        poor == [is : {"junk"}] \cup {E(401, TRUE), E(500, TRUE), E(0, FALSE)}
    IN  CASE req.to = "account" -> Refusals({"401", "redirects", "429", "network", "cancelled"}) \cup Bodies(poor \cup {E(0, TRUE)})
          [] req.to = "summary" ->
               Refusals({"403", "network", "cancelled"}) \cup Bodies(IF setup.varies = "usage"
                 THEN poor \cup {L(s, t, u) : s \in {"active", "over"}, t \in {None, Some(0), Some(40)}, u \in {None, Some(-3), Some(50)}} ELSE {L("active", Some(40), Some(10)), L("over", Some(40), None)})
          [] req.to = "legacy" ->
               Refusals({"401", "500", "cancelled"}) \cup Bodies(IF setup.varies = "usage"
                 THEN poor \cup {U(t, u, l) : t \in {None, Some(0), Some(20)}, u \in {None, Some(30)}, l \in {None, Some(5), Some(25)}} ELSE {U(Some(20), Some(5), None)})
          [] req.to = "fuel" ->
               Refusals({"403", "cancelled"}) \cup Bodies(IF setup.varies = "fuel"
                 THEN poor \cup {F(t, p) : t \in {None, Some(0), Some(30)}, p \in {<<>>, <<P(Some(10), Some(900)), P(None, Some(700000))>>, <<P(Some(10), Some(90))>>, <<P(Some(40), None)>>,
                        [i \in 1..(LongMaxPackages + 1) |-> P(Some(1), None)]}} ELSE {F(Some(30), <<P(Some(10), Some(900))>>)})

----------------------------------------------------------------------------
(* Command Code. The credits and the subscription are asked for at the same *)
(* time; the subscription has a moment more once the credits are there. The *)
(* two are one question, whose answer holds both outcomes.                  *)

(* is_bare_token, normalize_manual_cookie, from_manual_capture_routes.      *)
CcCookie(cookie) == CASE cookie = "broken" -> Err("Parse") [] cookie = "none" -> Err("MissingCredential") [] OTHER -> Ok(cookie)
CcManual ==
    CASE setup.paste = "blank" -> Err("MissingCredential")
      [] setup.paste = "token" -> CcCookie("session")
      [] OTHER -> IF setup.capture # "ok" THEN Err(CaptureKind(setup.capture)) ELSE CcCookie(setup.cookie)
(* new_browser_from_discovery: the first profile with a cookie for the site *)
(* is the only one that is tried.                                           *)
CcBrowser ==
    LET readable == SelectSeq(setup.profiles, LAMBDA p : p # "unreadable")
        fit == SelectSeq(readable, LAMBDA p : p = "session")
    IN  IF Len(setup.profiles) > CcMaxProfiles THEN Err("Parse")
        ELSE IF fit # <<>> THEN Ok(fit[1])
        ELSE Err(IF "other" \in ToSet(readable) THEN "AuthenticationExpired" ELSE "MissingCredential")
CcSession == IF setup.source = "ManualCookie" THEN CcManual ELSE CcBrowser
(* classify_required_transport.                                             *)
CcKind(code) ==
    CASE code \in {"401", "403"} -> "AuthenticationExpired" [] code \in {"408", "429", "500"} -> "Api"
      [] code = "redirects" -> "Network" [] OTHER -> Classified(code)
(* optional_decimal, required_decimal: an amount beyond the largest is none.*)
CcAmount(v) == IF v # None /\ (v[1] > CcMaxAmount \/ v[1] < -CcMaxAmount) THEN None ELSE v
CcOrZero(v) == IF CcAmount(v) = None THEN 0 ELSE v[1]
(* optional_timestamp.                                                      *)
CcTime(v) == IF v = None \/ (v # None /\ v[1] <= 0) THEN None ELSE Some(IF v[1] > CcMillis THEN v[1] \div 1000 ELSE v[1])
(* decimal_percent.                                                         *)
CcPercent(used, limit) == IF limit > 0 THEN Clamp((100 * used) \div limit, 0, 100) ELSE 0
(* parse_window and normalize_window.                                       *)
CcWindow(w) ==
    IF w = None \/ (w # None /\ CcOrZero(w[1].cap) <= 0) THEN <<>> ELSE <<[percent |-> CcPercent(CcOrZero(w[1].used), w[1].cap[1]), reset |-> CcTime(w[1].reset)]>>
(* parse_bounded_json and parse_credits.                                    *)
CcCredits(b) ==
    IF b.is = "junk" \/ CcAmount(b.monthly) = None THEN Err("Parse")
    ELSE Ok([remaining |-> b.monthly[1], purchased |-> CcOrZero(b.purchased), five |-> CcWindow(b.five), weekly |-> CcWindow(b.weekly)])
(* parse_subscription: one that is late, failed or cannot be read counts as *)
(* unavailable.                                                             *)
CcSubscription(s) ==
    CASE s.is = "none" -> Ok(None) [] s.is = "plan" /\ s.id # "" -> Ok(Some(s)) [] OTHER -> Err("Parse")
(* plan_for and PLANS.                                                      *)
CcPlans == [go |-> 10, goat |-> 70, pro |-> 30]
CcPlan(s) == IF s = None \/ (s # None /\ s[1].id \notin DOMAIN CcPlans) THEN None ELSE Some(CcPlans[s[1].id])
(* monthly_window, and the sum login_method shows.                          *)
CcUsed(c, plan) == Clamp(plan[1] - c.remaining, 0, plan[1])
CcMonthly(c, plan) ==
    IF plan # None THEN <<[percent |-> CcPercent(CcUsed(c, plan), plan[1])]>>
    ELSE IF c.remaining > 0 \/ c.purchased > 0 THEN <<[percent |-> 0]>> ELSE <<>>
CcLogin(c, plan) ==
    [used |-> IF plan # None THEN Some(CcUsed(c, plan)) ELSE None, remaining |-> IF plan = None /\ c.remaining > 0 THEN Some(c.remaining) ELSE None,
     purchased |-> IF c.purchased > 0 THEN Some(c.purchased) ELSE None]
(* commandcode_extension.                                                   *)
CcMarkers(c, plan, unavailable) == [unavailable |-> unavailable, plan |-> plan # None, depleted |-> c.remaining <= 0]
(* normalize_usage: an active subscription to a plan that is not known is   *)
(* not shown as none.                                                       *)
CcNormal(c, s, unavailable) ==
    LET plan == CcPlan(s)
    IN  IF s # None /\ plan = None /\ s[1].status = "active" THEN Err("Parse")
        ELSE Ok([windows |-> c.five \o c.weekly \o CcMonthly(c, plan), login |-> CcLogin(c, plan), markers |-> CcMarkers(c, plan, unavailable)])
(* parse_commandcode_responses.                                             *)
CcResponses(b) ==
    Then(CcCredits(b.credits), LAMBDA c :
      LET s == CcSubscription(b.subscription) IN CcNormal(c, IF s.is = "ok" THEN s.value ELSE None, s.is = "err"))
(* fetch_at_with_subscription_grace.                                        *)
CcFetch == Then(CcSession, LAMBDA cookie : Then(Sent([to |-> "billing", cookie |-> cookie], CcKind), CcResponses))

CcSetups ==
    [provider : {"commandcode"}, source : {"ManualCookie"}, now : {500}, paste : {"blank", "token", "capture"},
     capture : {"ok", "DisallowedHeader", "ConflictingHeader", "InvalidPolicy"}, cookie : {"none", "broken", "session"}]
    \cup [provider : {"commandcode"}, source : {"BrowserSession"}, now : {500},
          profiles : {<<>>, <<"unreadable">>, <<"empty", "other">>, <<"other", "session">>, <<"empty", "empty", "session">>}]
CcReplies(req) ==
    LET W(cap, used, reset) == Some([cap |-> cap, used |-> used, reset |-> reset])
        C(monthly, purchased, five, weekly) == [is |-> "credits", monthly |-> monthly, purchased |-> purchased, five |-> five, weekly |-> weekly]
        S(id, status) == [is |-> "plan", id |-> id, status |-> status]
        plain == C(Some(12), None, W(Some(10), Some(4), Some(600000)), None)
    IN  Refusals({"401", "403", "429", "500", "redirects", "network", "toolarge", "cancelled"})
        \cup Bodies([is : {"pair"}, credits : {[is |-> "junk"], C(None, None, None, None), C(Some(CcMaxAmount + 1), None, None, None), C(Some(0), Some(-2), W(Some(0), None, None), W(Some(5), Some(9), Some(-1))),
                       C(Some(-8), Some(6), None, W(Some(5), None, None)), C(Some(90), None, W(Some(10), Some(-4), None), W(None, Some(2), None)), plain},
                     subscription : [is : {"late", "failed", "junk", "none"}] \cup {S("", "active"), S("pro", "active"), S("go", "over"), S("new", "active"), S("new", "over")}])

----------------------------------------------------------------------------
Fetch == CASE setup.provider = "grok" -> GrokFetch [] setup.provider = "chutes" -> ChutesFetch
           [] setup.provider = "longcat" -> LongFetch [] setup.provider = "commandcode" -> CcFetch
Replies(req) == CASE setup.provider = "grok" -> GrokReplies(req) [] setup.provider = "chutes" -> ChutesReplies(req)
             [] setup.provider = "longcat" -> LongReplies(req) [] setup.provider = "commandcode" -> CcReplies(req)
Setups == GrokSetups \cup ChutesSetups \cup LongSetups \cup CcSetups

Init == Start(Setups)
Next == Advance(Fetch, Replies)
Spec == Init /\ [][Next]_vars

----------------------------------------------------------------------------
(* The user is asked to sign in only after a refusal, or before anything    *)
(* was sent because there is no key or session; after something was sent, a *)
(* credential is called missing only where the tool's file has none, or the *)
(* last of LongCat's sessions has no cookie for a page it needs.            *)
SaysLogin(r) ==
    \/ r.code \in {"401", "403"}
    \/ setup.provider = "grok" /\
         \/ r.code = "says login"
         \/ r.code = "200" /\ r.body.is = "web" /\ GrokGrpc(r.body) # <<>> /\ GrokGrpc(r.body)[1].status \in {"7", "16"}
    \/ setup.provider = "longcat" /\ (r.code = "redirects" \/ (r.code = "200" /\ r.body.is # "junk" /\ r.body.code \in {401, 403}))
(* ... or the login the tool keeps in its file was over, or not there.      *)
FileSays(kind) == setup.provider = "grok" /\ GrokCredentials = Err(kind)
(* ... or the last session of the browser has no cookie for a page that is  *)
(* required.                                                                *)
LacksCookie == setup.provider = "longcat" /\ LongSessions.is = "ok" /\ ~({"account", "legacy"} \subseteq Last(LongSessions.value))
LoginOnlyWhenRefused ==
    /\ FailedWith({"AuthenticationExpired"}) => log = <<>> \/ FileSays("AuthenticationExpired") \/ \E i \in DOMAIN log : SaysLogin(log[i].reply)
    /\ FailedWith({"MissingCredential"}) => log = <<>> \/ FileSays("MissingCredential") \/ Saw({"no file"}) \/ LacksCookie

(* Every window of an answer of Chutes is one that can be shown.            *)
ChutesFits(b) ==
    b.is = "doc" => \A s \in {ChutesSnapshot(b.doc)} : \A w \in ToSet(s.rolling \o s.monthly \o s.fallback) : ChutesWindow(w).is = "ok"
(* No fuel answer of LongCat has more packs than are read.                  *)
LongFits(b) == b.is = "fuel" => Len(b.packs) <= LongMaxPackages

(* An answer that has usage.                                                *)
HoldsUsage(b) ==
    CASE setup.provider = "grok" -> (CASE b.is = "billing" -> GrokBilling(b).is = "ok" [] b.is = "web" -> GrokWebResponse(b).is = "ok"
                                      [] b.is = "proxy" -> GrokProxy(b).is = "ok" [] OTHER -> FALSE)
      [] setup.provider = "chutes" -> b.is = "doc" /\ ChutesHasUsage(ChutesSnapshot(b.doc))
      [] setup.provider = "longcat" -> b.is = "summary" /\ LongLot(Some(b)) # None
      [] setup.provider = "commandcode" -> CcCredits(b.credits).is = "ok"
(* What makes an adapter withhold it, and say why: an account whose name    *)
(* does not fit; a quota request of Chutes that was refused, which its      *)
(* fetch_at calls authoritative, or a window or pack of a later answer that *)
(* does not fit; an active plan of Command Code that is not known.          *)
WithheldFor(kind) ==
    CASE setup.provider = "grok" -> kind = "Parse" /\ GrokCredentials.value.email = "overlong"
      [] setup.provider = "chutes" -> IF kind = "Parse" THEN \E i \in DOMAIN log : ~ChutesFits(log[i].reply.body)
                                      ELSE kind \in {"AuthenticationExpired", "PermissionDenied"} /\ Last(log).reply.code \in {"401", "403"}
      [] setup.provider = "longcat" -> kind = "Parse" /\ \E i \in DOMAIN log : ~LongFits(log[i].reply.body)
      [] setup.provider = "commandcode" -> kind = "Parse" /\ Last(log).reply.body.subscription = [is |-> "plan", id |-> "new", status |-> "active"]

(* No session of Grok that was refused is tried again, nor another source   *)
(* once one has answered; a secret variable never reaches the tool; Chutes  *)
(* asks for a bounded number of quotas; LongCat's older usage is asked for  *)
(* exactly when no token pack is active.                                    *)
RequestsStayInBounds ==
    /\ setup.provider = "grok" =>
         /\ \A i \in DOMAIN log : log[i].req.to = "initialize" => "XAI_API_KEY" \notin log[i].req.environment
         /\ \A i \in DOMAIN log : log[i].req.to = "web" /\ log[i].req.nth = 2 => ~SaysLogin(ReplyTo(GrokWebRequest(log[i].req.session, 1)))
         /\ \A i, j \in DOMAIN log : i < j /\ log[i].reply.code = "200" /\ HoldsUsage(log[i].reply.body) => log[j].req.to = "settings"
    /\ setup.provider = "chutes" => Len(log) <= 2 + ChutesMaxQuotas
    /\ setup.provider = "longcat" /\ Returned =>
         LET shown == log[Len(log)].req.session
         IN  (Asked([to |-> "legacy", session |-> shown]) <=> ~(Answered([to |-> "summary", session |-> shown], "200")
                /\ LET e == LongEnvelope(ReplyTo([to |-> "summary", session |-> shown]).body) IN e.is = "ok" /\ LongLot(Some(e.value)) # None))

=============================================================================
