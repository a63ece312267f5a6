----------------------------- MODULE AlibabaAdapters -----------------------------
(****************************************************************************)
(* The adapters of Alibaba's consoles: the coding plan (providers/          *)
(* alibaba.rs), Qwen Cloud (qwencloud.rs) and the token plan                *)
(* (alibabatokenplan.rs). An answer is given by what the parsers look for   *)
(* in it, a searched JSON tree by its objects in the order of a depth-first *)
(* search. Percentages are whole numbers, ratios hundredths, times minutes. *)
(****************************************************************************)
EXTENDS ProviderFetch, SequencesExt, TLC

CONSTANTS
    MaxProfiles,       \* MAX_BROWSER_PROFILES
    PersonalAttempts   \* PERSONAL_ATTEMPTS

Now == 1000
MillisFrom == 100000

----------------------------------------------------------------------------
(* The coding plan: regions, routes and credentials.                        *)

AliRegions == {"International", "China"}
AliCookieRoutes == {"dashboard", "user_info", "console_rpc"}

(* build_region_routes: each region has its own gateway and RPC origin.     *)
AliRoute(region, to) == [region |-> region, to |-> to]

(* clean_secret and resolve_api_key: the first name that holds a key.       *)
AliApiKey ==
    LET set == SelectSeq(setup.env, LAMBDA v : v = "key")
    IN  IF set = <<>> THEN Err("MissingCredential") ELSE Ok(Head(set))

(* from_manual_capture_routes: what was pasted must parse, and be a cookie. *)
AliManualCookie ==
    IF setup.capture.error # "none" THEN Err(CaptureKind(setup.capture.error))
    ELSE IF setup.capture.cookie = {} THEN Err("MissingCredential")
    ELSE Ok([r \in AliRegions |-> [t \in AliCookieRoutes |-> setup.capture.cookie]])

(* RoutedCookieHeaders::is_authenticated: a ticket and an account, whatever *)
(* routes they are for.                                                     *)
AliAuthenticated(headers) ==
    \E t, a \in DOMAIN headers : "ticket" \in headers[t] /\ "account" \in headers[a]

(* from_browser_jar_routes: the configured region's cookies, or China's for *)
(* an international account.                                                *)
AliBrowserCookies ==
    LET usable == IF setup.region = "China" THEN {"China"} ELSE AliRegions
    IN  IF \E r \in usable : AliAuthenticated(setup.jar[r]) THEN Ok(setup.jar)
        ELSE Err(IF \A r \in AliRegions, t \in AliCookieRoutes : setup.jar[r][t] = {}
                 THEN "MissingCredential" ELSE "AuthenticationExpired")

----------------------------------------------------------------------------
(* Parsing the coding plan.                                                 *)

Login(mode) == IF mode = "api" THEN "PermissionDenied" ELSE "AuthenticationExpired"

(* RegionalFailure: the error, and whether the other region may be tried.   *)
Failure(kind, alternate) == [is |-> "err", kind |-> kind, alternate |-> alternate]
AliLogin(mode) == Failure(Login(mode), mode = "web")
(* from_completed_transport.                                                *)
AliTransport(code) ==
    IF code \in {"401", "403"} THEN Failure("AuthenticationExpired", TRUE)
    ELSE Failure(Classified(code), code = "404")
AliSent(req) ==
    IF ~Asked(req) THEN Ask(req)
    ELSE IF ReplyTo(req).code = "200" THEN Ok(ReplyTo(req).body) ELSE AliTransport(ReplyTo(req).code)

(* validate_payload_status.                                                 *)
AliStatus(body, mode) ==
    IF body.status \notin {None, Some(0), Some(200)}
    THEN IF body.status \in {Some(401), Some(403)} \/ body.message = "unauthorized"
         THEN Failure("AuthenticationExpired", TRUE) ELSE Failure("Api", FALSE)
    ELSE IF body.needsLogin \/ body.message = "login" THEN AliLogin(mode)
    ELSE IF mode = "api" /\ body.message = "console session" THEN Failure("PermissionDenied", FALSE)
    ELSE Ok(body)

(* active_signal_score: a known status, else a flag, else an expiry ahead.  *)
AliScore(instance) ==
    CASE instance.status = "active" -> 3
      [] instance.status = "ended" -> -1
      [] OTHER -> IF instance.flag # None THEN IF instance.flag[1] THEN 3 ELSE -1
                  ELSE IF instance.expiry # None /\ instance.expiry[1] > Now THEN 1 ELSE 0

(* find_active_instance: the first of the best score, if that is positive.  *)
AliSelected(instances) ==
    LET best == {i \in DOMAIN instances :
                   \A j \in DOMAIN instances : AliScore(instances[i]) >= AliScore(instances[j])}
        active == {i \in best : AliScore(instances[i]) > 0}
    IN  IF instances = <<>> THEN None
        ELSE Some(instances[IF active = {} THEN 1 ELSE CHOOSE i \in active : \A j \in active : i <= j])

(* find_quota_info: the selected instance's, and another's only when it is  *)
(* not one active instance among several.                                   *)
AliQuota(body, selected) ==
    IF selected # None /\ Len(body.instances) > 1 /\ AliScore(selected[1]) > 0
    THEN selected[1].quota
    ELSE FirstOf((IF selected = None THEN <<>> ELSE <<selected[1].quota>>) \o <<body.quota>>
                 \o [i \in DOMAIN body.instances |-> body.instances[i].quota])

(* find_plan_name_in_map and find_plan_name.                                *)
AliPlanName(body, selected) ==
    FirstOf((IF selected = None THEN <<>> ELSE <<selected[1].plan>>)
            \o [i \in DOMAIN body.instances |-> body.instances[i].plan] \o <<body.plan>>)

NoQuota == [w \in {"five", "week", "month"} |-> [used |-> None, total |-> None, reset |-> None]]

(* active_plan_fallback: the name of an active plan is shown without quota. *)
AliFallback(body, selected) ==
    LET source == IF selected = None THEN body.signal ELSE selected[1]
        active == AliScore(source) > 0 \/ (body.instances = <<>> /\ AliScore(body.signal) > 0)
        plan == AliPlanName(body, selected)
    IN  IF active /\ plan # None THEN Ok([plan |-> plan, quota |-> NoQuota]) ELSE Failure("Parse", TRUE)

(* parse_payload.                                                           *)
AliParse(body, mode) ==
    IF body.is = "junk" THEN Failure("Parse", FALSE)
    ELSE IF body.is = "signin" THEN AliLogin(mode)
    ELSE Then(AliStatus(body, mode), LAMBDA root :
           LET selected == AliSelected(root.instances)
               quota == AliQuota(root, selected)
           IN  IF quota = None \/ \A w \in DOMAIN quota[1] : quota[1][w].total = None
               THEN AliFallback(root, selected)
               ELSE Ok([plan |-> AliPlanName(root, selected), quota |-> quota[1]]))

(* scalar_timestamp: a positive number, in milliseconds when it is large.   *)
AliTime(raw) ==
    IF raw = None THEN None
    ELSE IF raw[1] <= 0 THEN None
    ELSE Some(IF raw[1] >= MillisFrom THEN raw[1] \div 1000 ELSE raw[1])

(* normalize_five_hour_reset: at least a minute ahead, a passed one moved   *)
(* by one window, else one window from now.                                 *)
AliFiveHourReset(reset) ==
    IF reset = None \/ reset[1] >= Now + 1 THEN reset
    ELSE Some(IF reset[1] + 300 >= Now + 1 THEN reset[1] + 300 ELSE Now + 300)

(* quota_window.                                                            *)
QuotaWindow(used, total, reset) ==
    IF used = None \/ total = None THEN None
    ELSE IF total[1] <= 0 THEN None
    ELSE Some([percent |-> (100 * Clamp(used[1], 0, total[1])) \div total[1], reset |-> reset])

(* normalize_usage.                                                         *)
AliNormalize(usage) ==
    LET q == usage.quota
    IN  Ok([plan |-> usage.plan,
            windows |-> <<QuotaWindow(q.five.used, q.five.total, AliFiveHourReset(AliTime(q.five.reset))),
                          QuotaWindow(q.week.used, q.week.total, AliTime(q.week.reset)),
                          QuotaWindow(q.month.used, q.month.total, AliTime(q.month.reset))>>])

----------------------------------------------------------------------------
(* Fetching the coding plan.                                                *)

AliUsage(body, mode) == Then(AliParse(body, mode), AliNormalize)

(* resolve_sec_token: the dashboard page, the user information, the cookie; *)
(* failures on the way are forgotten, a cancellation is not.                *)
AliToken(region, cookies, to) ==
    LET req == AliRoute(region, to)
    IN  IF cookies[to] = {} THEN Ok(None)
        ELSE IF ~Asked(req) THEN Ask(req)
        ELSE IF ReplyTo(req).code # "200" THEN IF CancelledBy(req) THEN Failure("Network", FALSE) ELSE Ok(None)
        ELSE Ok(IF ReplyTo(req).body.is = "token" THEN Some(req) ELSE None)
AliSecToken(region, cookies) ==
    Then(AliToken(region, cookies, "dashboard"), LAMBDA first :
      IF first # None THEN Ok(first)
      ELSE Then(AliToken(region, cookies, "user_info"), LAMBDA second :
        IF second # None THEN Ok(second)
        ELSE IF "sec_token" \in cookies["console_rpc"] THEN Ok(Some("cookie"))
        ELSE Failure("AuthenticationExpired", TRUE)))

(* fetch_api_region and fetch_web_region.                                   *)
AliApiRegion(region) == Then(AliSent(AliRoute(region, "quota")), LAMBDA body : AliUsage(body, "api"))
AliWebRegion(region, cookies) ==
    IF cookies["console_rpc"] = {} THEN Failure("AuthenticationExpired", TRUE)
    ELSE Then(AliSecToken(region, cookies), LAMBDA token :
           Then(AliSent(AliRoute(region, "console_rpc")), LAMBDA body : AliUsage(body, "web")))

(* fetch_at: China after International, never the other way round.          *)
AliRegional(Region(_)) ==
    OrElse(Region(setup.region), LAMBDA e :
      IF setup.region = "International" /\ e.alternate THEN Region("China") ELSE e)

AliFetch ==
    CASE setup.source = "ApiKey" -> Then(AliApiKey, LAMBDA key : AliRegional(AliApiRegion))
      [] setup.source = "ManualCookie" -> Then(AliManualCookie, LAMBDA cookies :
           AliRegional(LAMBDA r : AliWebRegion(r, cookies[r])))
      [] setup.source = "BrowserSession" -> Then(AliBrowserCookies, LAMBDA cookies :
           AliRegional(LAMBDA r : AliWebRegion(r, cookies[r])))

----------------------------------------------------------------------------
(* Instances of the coding plan.                                            *)

AliQuotas(used, total, reset) ==
    [NoQuota EXCEPT !.five = [used |-> Some(used), total |-> Some(total), reset |-> reset]]
AliSignal(status, flag, expiry, quota, plan) ==
    [status |-> status, flag |-> flag, expiry |-> expiry, quota |-> quota, plan |-> plan]
Unsigned == AliSignal("none", None, None, None, None)
AliBody(status, message, instances, quota) ==
    [is |-> "json", status |-> status, message |-> message, needsLogin |-> FALSE,
     instances |-> instances, signal |-> Unsigned, quota |-> quota, plan |-> None]
AliVerdicts ==
    {[is |-> "junk"], [is |-> "signin"],
     AliBody(Some(500), "unauthorized", <<>>, None), AliBody(Some(500), "none", <<>>, None),
     AliBody(Some(0), "none", <<>>, Some(NoQuota)), AliBody(None, "none", <<>>, Some(AliQuotas(5, 10, None)))}
AliCounts ==
    {AliBody(Some(401), "none", <<>>, None), AliBody(None, "login", <<>>, None),
     AliBody(Some(200), "console session", <<>>, None)}
    \cup {AliBody(None, "none", <<>>, Some(AliQuotas(u, t, r))) :
            u \in {-3, 12}, t \in {0, 10}, r \in {None, Some(0), Some(600), Some(990), Some(1090000)}}
    \cup {AliBody(None, "none",
                  <<AliSignal("ended", None, None, Some(AliQuotas(9, 10, None)), Some("old")),
                    AliSignal(s, None, e, q, Some("new"))>>, None) :
            s \in {"active", "none"}, e \in {None, Some(1008)}, q \in {None, Some(AliQuotas(1, 10, None))}}
AliJar(china, international) ==
    [r \in AliRegions |-> IF r = "China" THEN china ELSE international]
AliHeaders(dashboard, user, rpc) == [dashboard |-> dashboard, user_info |-> user, console_rpc |-> rpc]
AliBase == [provider |-> "alibaba", source |-> "ApiKey", region |-> "China", env |-> <<>>,
            capture |-> [error |-> "none", cookie |-> {}],
            jar |-> AliJar(AliHeaders({}, {}, {}), AliHeaders({}, {}, {}))]
AliSetups ==
    {[AliBase EXCEPT !.region = r, !.env = <<a, "key">>] : r \in AliRegions, a \in {"blank", "key"}}
    \cup {[AliBase EXCEPT !.env = <<"blank">>]}
    \cup {[AliBase EXCEPT !.source = "ManualCookie", !.region = r, !.capture = c] : r \in AliRegions,
            c \in {[error |-> "none", cookie |-> k] : k \in {{}, {"ticket"}, {"sec_token"}}}
                  \cup {[error |-> e, cookie |-> {}] : e \in {"InvalidSecret", "DisallowedUrl", "InvalidPolicy"}}}
    \cup {[AliBase EXCEPT !.source = "BrowserSession", !.region = r, !.jar = AliJar(c, i)] :
            r \in AliRegions,
            c \in {AliHeaders({}, {}, {}), AliHeaders({}, {"ticket"}, {"account"})},
            i \in {AliHeaders({}, {}, {}), AliHeaders({"ticket", "account"}, {}, {}),
                   AliHeaders({"ticket"}, {}, {"account", "sec_token"})}}
AliReplies(req) ==
    Refusals({"401", "404", "500", "cancelled"}) \cup Bodies(
        IF req.to \in {"dashboard", "user_info"} THEN {[is |-> "junk"], [is |-> "token"]}
        ELSE AliVerdicts \cup IF setup.source = "ApiKey" /\ setup.region = "China" THEN AliCounts ELSE {})

----------------------------------------------------------------------------
(* Qwen Cloud: searching a tree.                                            *)

(* find_first_*_for_key, key after key, each over the whole tree.           *)
Lookup(objects, keys) ==
    LET At(o, k) == IF k \in DOMAIN o THEN Some(o[k]) ELSE None
        ForKey(k) == FirstOf([i \in DOMAIN objects |-> At(objects[i], k)])
    IN  FirstOf([i \in DOMAIN keys |-> ForKey(keys[i])])
(* find_object_containing_any.                                              *)
Containing(objects, keys) ==
    FirstOf([i \in DOMAIN objects |->
        IF DOMAIN objects[i] \cap keys # {} THEN Some(objects[i]) ELSE None])
Field(object, key) == IF key \in DOMAIN object THEN Some(object[key]) ELSE None

(* scalar_timestamp.                                                        *)
QwenTime(raw) == AliTime(raw)

(* classify_text_signals: a workspace refusal is no login.                  *)
QwenSignals(signal) == IF signal = "login" THEN Err("AuthenticationExpired") ELSE Ok(signal)

(* validate_payload_status and classify_error_frame: a frame that says it   *)
(* failed, else a status, else the words of code and message.               *)
QwenStatus(body) ==
    LET frame == FirstOf([i \in DOMAIN body.objects |->
                    IF Field(body.objects[i], "success") = Some(FALSE) THEN Some(body.objects[i]) ELSE None])
        code == Lookup(IF frame = None THEN body.objects ELSE frame, <<"status", "code">>)
    IN  IF code \in {Some(401), Some(403)} THEN Err("AuthenticationExpired")
        ELSE IF frame # None THEN Then(QwenSignals(body.signal), LAMBDA s : Err("Api"))
        ELSE IF code \notin {None, Some(0), Some(200)} THEN Err("Api")
        ELSE QwenSignals(body.signal)

(* plan_code and quota_totals: the plan's name selects its row.             *)
QwenPlan(subscription) == IF subscription = None THEN None ELSE Lookup(subscription[1], <<"spec", "plan">>)
QwenTotals(config, plan) == IF config = None \/ plan = None THEN None ELSE Lookup(config[1], plan)

(* percentage_points.                                                       *)
QwenPoints(ratio) == Clamp(ratio, 0, 100)

(* parse_current: shares of the five hours and of the week.                 *)
QwenCurrent(usage, subscription, config) ==
    LET found == Containing(usage, {"five", "week"})
        plan == QwenPlan(subscription)
        totals == QwenTotals(config, plan)
        Window(key, reset) ==
            LET share == Field(found[1], key)
            IN  IF share = None THEN None
                ELSE Some([percent |-> QwenPoints(share[1]), reset |-> QwenTime(Field(found[1], reset)),
                           credits |-> IF totals = None \/ totals[1] <= 0 THEN None
                                       ELSE Some((totals[1] * QwenPoints(share[1])) \div 100)])
    IN  IF found = None THEN None
        ELSE Some([plan |-> plan, windows |-> <<Window("five", "fiveReset"), Window("week", "weekReset")>>])

(* find_legacy_summary: the data object, one inside it with quotas, else    *)
(* any object that has one of the keys.                                     *)
QwenSummary(objects) ==
    LET quotas == {"used", "total", "remaining"}
        data == {i \in DOMAIN objects : "data" \in DOMAIN objects[i]}
        at == CHOOSE i \in data : \A j \in data : i <= j
        inside == SubSeq(objects, at, Len(objects))
    IN  IF data # {} /\ DOMAIN objects[at] \cap (quotas \cup {"count"}) # {}
        THEN FirstOf(<<Containing(inside, quotas), Some(objects[at])>>)
        ELSE Containing(objects, quotas \cup {"count"})

(* parse_legacy: credits used of a total, from whichever two are known.     *)
QwenCredits(objects, s) ==
    LET total == Field(s, "total")
        remaining == Field(s, "remaining")
        used == FirstOf(<<Field(s, "used"),
                          IF total # None /\ remaining # None THEN Some(total[1] - remaining[1]) ELSE None>>)
        reset == QwenTime(FirstOf(<<Field(s, "reset"), Lookup(objects, <<"reset">>)>>))
    IN  [plan |-> Lookup(objects, <<"plan">>),
         windows |-> <<IF total = None \/ used = None THEN None
                       ELSE IF total[1] <= 0 THEN None
                       ELSE Some([percent |-> (100 * Clamp(used[1], 0, total[1])) \div total[1],
                                  reset |-> reset, credits |-> Some(Clamp(used[1], 0, total[1]))])>>]
QwenLegacy(objects) ==
    LET Shown(summary) == IF summary = None THEN None ELSE Some(QwenCredits(objects, summary[1]))
    IN  Shown(QwenSummary(objects))

(* parse_bounded_json: too large, too deep or no JSON at all.               *)
QwenJson(reply) == IF reply = None THEN None ELSE IF reply[1].is = "json" THEN Some(reply[1].objects) ELSE None

(* What was looked for must be there.                                       *)
Found(option) == IF option = None THEN Err("Parse") ELSE Ok(option[1])

(* parse_usage_responses: only the usage must be sound.                     *)
QwenParse(usage, subscription, config) ==
    CASE usage.is = "signin" -> Err("AuthenticationExpired")
      [] usage.is = "junk" -> Err("Parse")
      [] usage.is = "json" -> Then(QwenStatus(usage), LAMBDA ok :
           Found(FirstOf(<<QwenCurrent(usage.objects, QwenJson(subscription), QwenJson(config)),
                           QwenLegacy(usage.objects)>>)))

----------------------------------------------------------------------------
(* Qwen Cloud: the session and the fetch.                                   *)

(* SessionHeaders::browser: the data origin's cookies with a ticket, and    *)
(* the dashboard's.                                                         *)
QwenHeaders(jar) ==
    IF "ticket" \in jar.api /\ jar.dashboard # {} THEN Ok(jar)
    ELSE Err(IF jar.api \cup jar.dashboard \cup jar.user_info = {} THEN "MissingCredential"
             ELSE "AuthenticationExpired")

(* from_manual_capture_routes, SessionHeaders::manual.                      *)
QwenManual ==
    CASE setup.capture.error = "MissingSecret" -> Err("MissingCredential")
      [] setup.capture.error # "none" -> Err("Parse")
      [] OTHER -> LET c == setup.capture.cookie IN Ok([dashboard |-> c, user_info |-> c, api |-> c])

(* new_browser_from_discovery: the first profile with a session; one that   *)
(* cannot be read is passed over.                                           *)
QwenBrowser ==
    LET usable == {i \in DOMAIN setup.profiles : setup.profiles[i].readable}
        good == {i \in usable : QwenHeaders(setup.profiles[i].jar).is = "ok"}
    IN  IF Len(setup.profiles) > MaxProfiles THEN Err("Parse")
        ELSE IF good # {} THEN QwenHeaders(setup.profiles[CHOOSE i \in good : \A j \in good : i <= j].jar)
        ELSE Err(IF \E i \in usable : \E t \in {"api", "dashboard", "user_info"} : setup.profiles[i].jar[t] # {}
                 THEN "AuthenticationExpired" ELSE "MissingCredential")

(* classify_probe_transport: an answer of the probes that is no token.      *)
QwenProbeKind(code) ==
    CASE code \in {"timeout", "network", "cancelled"} -> "Network"
      [] code \in {"toolarge", "broken", "redirects"} -> "Parse"
      [] OTHER -> "Api"
Probe(to) == [to |-> to, attempt |-> 0]
QwenTokenIn(to) == Answered(Probe(to), "200") /\ ReplyTo(Probe(to)).body.is = "token"
(* send_probe: a status is an answer, however bad.                          *)
QwenAnswered(to) == ReplyTo(Probe(to)).code \in Statuses

(* resolve_sec_token: the page, its cookie, the user information; what went *)
(* wrong with the page is remembered.                                       *)
QwenToken(cookies) ==
    LET page == Probe("dashboard")
        user == Probe("user_info")
        pageError == IF cookies.dashboard = {} THEN None
                     ELSE IF ReplyTo(page).code = "500" THEN Some("Network")
                     ELSE IF QwenAnswered("dashboard") THEN None ELSE Some(QwenProbeKind(ReplyTo(page).code))
    IN  IF cookies.dashboard # {} /\ ~Asked(page) THEN Ask(page)
        ELSE IF cookies.dashboard # {} /\ (QwenTokenIn("dashboard") \/ "sec_token" \in cookies.dashboard)
        THEN Ok("token")
        ELSE IF cookies.user_info # {} /\ ~Asked(user) THEN Ask(user)
        ELSE IF cookies.user_info # {} /\ ~QwenAnswered("user_info") THEN Err(QwenProbeKind(ReplyTo(user).code))
        ELSE IF cookies.user_info # {} /\ QwenTokenIn("user_info") THEN Ok("token")
        ELSE Err(IF pageError = None THEN "AuthenticationExpired" ELSE pageError[1])

(* classify_api_transport.                                                  *)
QwenApiKind(code) == IF code \in {"401", "403"} THEN "AuthenticationExpired" ELSE Classified(code)
(* An extra: what fails is left out, a cancellation is not.                 *)
QwenExtra(to) ==
    OrElse(Then(Sent(Probe(to), QwenApiKind), LAMBDA body : Ok(Some(body))), LAMBDA e :
      IF ReplyTo(Probe(to)).code = "cancelled" THEN Err("Network") ELSE Ok(None))

(* fetch_at.                                                                *)
QwenFetch ==
    Then(IF setup.source = "ManualCookie" THEN QwenManual ELSE QwenBrowser, LAMBDA cookies :
      Then(QwenToken(cookies), LAMBDA token :
        Then(Sent(Probe("usage"), QwenApiKind), LAMBDA usage :
          Then(QwenExtra("subscription"), LAMBDA subscription :
            Then(QwenExtra("quota_config"), LAMBDA config :
              QwenParse(usage, subscription, config))))))

----------------------------------------------------------------------------
(* The token plan: sessions, the command line, parsing.                     *)

(* SessionHeaders::browser: both routes have cookies, and a ticket and an   *)
(* account among them.                                                      *)
PlanHeaders(jar) ==
    LET both == jar.dashboard \cup jar.api
    IN  IF jar.dashboard # {} /\ jar.api # {} /\ {"ticket", "account"} \subseteq both THEN Ok(jar)
        ELSE Err(IF both = {} /\ jar.user_info = {} THEN "MissingCredential" ELSE "AuthenticationExpired")

(* from_manual_capture_routes and classify_capture_error.                   *)
PlanManual ==
    CASE setup.capture.error = "MissingSecret" -> Err("MissingCredential")
      [] setup.capture.error = "InvalidPolicy" -> Err("Api")
      [] setup.capture.error # "none" -> Err("Parse")
      [] OTHER -> LET c == setup.capture.cookie IN Ok([dashboard |-> c, user_info |-> c, api |-> c])

(* map_subprocess_error.                                                    *)
PlanCliKind(code) ==
    CASE code = "notloggedin" -> "AuthenticationExpired"
      [] code = "spawn" -> "MissingCredential"
      [] code \in {"cancelled", "timeout", "wait"} -> "Network"
      [] code \in {"toolarge", "broken"} -> "Parse"
      [] OTHER -> "Api"

(* strict_cli_ratio: of the command line only numbers from 0 to 1.          *)
PlanStrict(share) == IF share = None THEN None ELSE IF share[1] \in 0..100 THEN share ELSE None

(* scalar_timestamp.                                                        *)
PlanTime(raw) == QwenTime(raw)

(* parse_cli_usage_response.                                                *)
PlanParseCli(body) ==
    IF body.is # "json" THEN Err("Parse")
    ELSE LET five == PlanStrict(Field(body.objects[1], "five"))
             week == PlanStrict(Field(body.objects[1], "week"))
             Window(share, reset) ==
                IF share = None THEN None
                ELSE Some([percent |-> share[1], reset |-> PlanTime(Field(body.objects[1], reset)), credits |-> None])
         IN  IF five = None /\ week = None THEN Err("Parse")
             ELSE Ok([plan |-> None, windows |-> <<Window(five, "fiveReset"), Window(week, "weekReset")>>])

(* validate_payload_status and parse_bounded_json: as in qwencloud.rs.      *)
PlanStatus(body) == QwenStatus(body)
PlanJson(reply) == QwenJson(reply)
PlanPayload(body) ==
    CASE body.is = "signin" -> Err("AuthenticationExpired")
      [] body.is = "junk" -> Err("Parse")
      [] body.is = "json" -> Then(PlanStatus(body), LAMBDA ok : Ok(body.objects))
(* parse_team: the summary of the organisation's credits.                   *)
PlanTeam(objects) == QwenLegacy(objects)
(* parse_personal.                                                          *)
PlanPersonal(usage, subscription, config) == QwenCurrent(usage, subscription, config)

(* fetch_cli.                                                               *)
PlanCli == Then(Sent(Probe("cli"), PlanCliKind), PlanParseCli)

(* resolve_sec_token: a missing token is no error here.                     *)
PlanToken(cookies) ==
    LET page == Probe("dashboard")
        user == Probe("user_info")
    IN  IF ~Asked(page) THEN Ask(page)
        ELSE IF ReplyTo(page).code = "cancelled" THEN Err("Network")
        ELSE IF QwenTokenIn("dashboard") THEN Ok("token")
        ELSE IF cookies.user_info # {} /\ ~Asked(user) THEN Ask(user)
        ELSE IF cookies.user_info # {} /\ ReplyTo(user).code = "cancelled" THEN Err("Network")
        ELSE IF cookies.user_info # {} /\ QwenTokenIn("user_info") THEN Ok("token")
        ELSE Ok(IF "sec_token" \in cookies.dashboard \cup cookies.api THEN "token" ELSE "none")

(* PersonalFetch::optional.                                                 *)
PlanOptional(to) ==
    OrElse(Then(Sent(Probe(to), QwenApiKind), LAMBDA body : Ok(Some(body))), LAMBDA e :
      IF CancelledBy(Probe(to)) THEN e ELSE Ok(None))

(* fetch_web, personal: the usage is asked again while it holds no figures. *)
PlanUsage(n) == [to |-> "usage", attempt |-> n]
PlanAttempt(n, subscription, config) ==
    IF n > 1 /\ CancelledBy(PlanUsage(n - 1)) THEN Err("Network")
    ELSE Then(Sent(PlanUsage(n), QwenApiKind), LAMBDA body :
           Then(PlanPayload(body), LAMBDA usage :
             Ok(PlanPersonal(usage, PlanJson(subscription), PlanJson(config)))))
PlanPersonalUsage(subscription, config) ==
    LET Attempt(n) == PlanAttempt(n, subscription, config)
        ends == {n \in 1..PersonalAttempts : Attempt(n) # Ok(None)}
        n == CHOOSE m \in ends : \A k \in ends : m <= k
    IN  IF ends = {} THEN Err("Parse")
        ELSE Then(Attempt(n), LAMBDA parsed : Ok(parsed[1]))

PlanWeb(cookies) ==
    Then(PlanToken(cookies), LAMBDA token :
      IF setup.personal
      THEN Then(PlanOptional("subscription"), LAMBDA subscription :
             Then(PlanOptional("quota_config"), LAMBDA config :
               PlanPersonalUsage(subscription, config)))
      ELSE Then(Sent(Probe("usage"), QwenApiKind), LAMBDA body :
             Then(PlanPayload(body), LAMBDA usage :
               Found(PlanTeam(usage)))))

(* fetch_at.                                                                *)
PlanFetch ==
    CASE setup.source = "Cli" -> PlanCli
      [] setup.source = "ManualCookie" -> Then(PlanManual, PlanWeb)
      [] setup.source = "BrowserSession" -> Then(PlanHeaders(setup.jar), PlanWeb)

----------------------------------------------------------------------------
(* Instances of Qwen Cloud and of the token plan.                           *)

Tree(objects, signal) == [is |-> "json", objects |-> objects, signal |-> signal]
Shares(five, reset) == ("five" :> five) @@ ("fiveReset" :> reset)
Credits(used, total) == ("data" :> 0) @@ ("used" :> used) @@ ("total" :> total) @@ ("reset" :> 1200)
UsageTrees == {[is |-> "junk"], [is |-> "signin"],
               Tree(<<"success" :> FALSE>>, "workspace"), Tree(<<"code" :> 403>>, "none"),
               Tree(<<"code" :> 200>>, "login"), Tree(<<"code" :> 200>>, "workspace"),
               Tree(<<"code" :> 200, Shares(40, 1100)>>, "none")}
FigureTrees == {Tree(<<Shares(f, 1100000)>>, "none") : f \in {-5, 40, 130}}
               \cup {Tree(<<Credits(u, t)>>, "none") : u \in {-5, 3, 30}, t \in {0, 20}}
               \cup {Tree(<<("data" :> 0) @@ ("count" :> 1), "remaining" :> 4>>, "none")}
Specs == Tree(<<"spec" :> "pro">>, "none")
Totals == Tree(<<"pro" :> 50>>, "none")
Jar(dashboard, user, api) == [dashboard |-> dashboard, user_info |-> user, api |-> api]
QwenBase == [provider |-> "qwencloud", source |-> "ManualCookie", personal |-> FALSE,
             capture |-> [error |-> "none", cookie |-> {"ticket"}], profiles |-> <<>>,
             jar |-> Jar({}, {}, {})]
QwenProfile(readable, jar) == [readable |-> readable, jar |-> jar]
QwenSetups ==
    {[QwenBase EXCEPT !.capture.error = e] : e \in {"MissingSecret", "InvalidPolicy", "InvalidSyntax"}}
    \cup {[QwenBase EXCEPT !.capture.cookie = c] : c \in {{"ticket"}, {"ticket", "sec_token"}}}
    \cup {[QwenBase EXCEPT !.source = "BrowserSession", !.profiles = ps] :
            ps \in {<<>>, <<QwenProfile(FALSE, Jar({"ticket"}, {}, {"ticket"}))>>,
                    <<QwenProfile(TRUE, Jar({}, {}, {"ticket"}))>>,
                    <<QwenProfile(TRUE, Jar({}, {}, {})), QwenProfile(TRUE, Jar({"ticket"}, {}, {"ticket"}))>>,
                    [i \in 1..(MaxProfiles + 1) |-> QwenProfile(TRUE, Jar({}, {}, {}))]}}
PlanBase == [QwenBase EXCEPT !.provider = "tokenplan"]
PlanSetups ==
    {[PlanBase EXCEPT !.capture.error = e] : e \in {"MissingSecret", "InvalidPolicy", "InvalidSyntax"}}
    \cup {[PlanBase EXCEPT !.source = "BrowserSession", !.jar = j, !.personal = p] : p \in BOOLEAN,
            j \in {Jar({}, {}, {}), Jar({"ticket"}, {}, {}), Jar({"ticket"}, {}, {"account", "sec_token"})}}
    \cup {[PlanBase EXCEPT !.personal = p] : p \in BOOLEAN} \cup {[PlanBase EXCEPT !.source = "Cli"]}
TreeReplies(req) ==
    IF req.to = "cli"
    THEN Refusals({"notloggedin", "spawn", "timeout", "cancelled", "toolarge", "failed"})
         \cup Bodies({[is |-> "junk"]} \cup FigureTrees)
    ELSE Refusals({"401", "500", "network", "cancelled"}) \cup Bodies(
           CASE req.to \in {"dashboard", "user_info"} -> {[is |-> "junk"], [is |-> "token"]}
             [] req.to = "subscription" -> {[is |-> "junk"], Specs}
             [] req.to = "quota_config" -> {[is |-> "junk"], Totals}
             [] req.to = "usage" -> UsageTrees \cup
                  IF setup.source = "BrowserSession" /\ req.attempt <= 1 THEN FigureTrees ELSE {})

----------------------------------------------------------------------------
Fetch == CASE setup.provider = "alibaba" -> AliFetch
           [] setup.provider = "qwencloud" -> QwenFetch
           [] setup.provider = "tokenplan" -> PlanFetch
Replies(req) == IF setup.provider = "alibaba" THEN AliReplies(req) ELSE TreeReplies(req)

Init == Start(AliSetups \cup QwenSetups \cup PlanSetups)
Next == Advance(Fetch, Replies)
Spec == Init /\ [][Next]_vars

----------------------------------------------------------------------------
(* A usage answer of the coding plan, and what makes an account's region    *)
(* look wrong.                                                              *)
AliMode == IF setup.source = "ApiKey" THEN "api" ELSE "web"
AliAnswer(e) == e.req.to \in {"quota", "console_rpc"} /\ e.reply.code = "200"
AliUsable(e) == AliAnswer(e) /\ AliParse(e.reply.body, AliMode).is = "ok"
AliUnwelcome(e) ==
    \/ e.reply.code \in {"401", "404"} /\ e.req.to \in {"quota", "console_rpc"}
    \/ AliAnswer(e) /\ AliParse(e.reply.body, AliMode).is = "err"

(* The user is told to sign in again only when a service refused the        *)
(* credential, or a web session has no cookies or no security token left    *)
(* (fetch_web_region, resolve_sec_token).                                   *)
AliLoginMeansRefused ==
    /\ FailedWith({"MissingCredential"}) => log = <<>>
    /\ FailedWith({"AuthenticationExpired"}) /\ log # <<>> =>
         LET last == log[Len(log)]
         IN  last.reply.code = "401" \/ AliUnwelcome(last) \/ setup.source # "ApiKey"

(* A region that answered with usage decides the fetch.                     *)
AliUsageKept ==
    (\E i \in DOMAIN log : AliUsable(log[i])) /\ ~Running => Returned

(* A credential goes to the other region's servers only for an              *)
(* international account that its own region did not serve, never from      *)
(* China to the international ones (fetch_at).                              *)
AliRegionStays ==
    \A i \in DOMAIN log : log[i].req.region # setup.region =>
        /\ setup.region = "International"
        /\ \/ \E j \in 1..(i - 1) : AliUnwelcome(log[j]) /\ log[j].req.region = setup.region
           \/ setup.source # "ApiKey" /\ \A j \in 1..(i - 1) :
                log[j].req.region = setup.region => log[j].reply.body.is # "token"

(* Percentages stay percentages for every count, a reset of the five-hour   *)
(* window lies ahead, and an ended instance's quota is never shown while    *)
(* another is active (quota_window, normalize_five_hour_reset,              *)
(* parse_payload).                                                          *)
AliFigures ==
    Returned =>
        LET shown == verdict.value.windows
            body == log[Len(log)].reply.body
        IN  /\ \A i \in DOMAIN shown : shown[i] # None => shown[i][1].percent \in 0..100
            /\ shown[1] # None /\ shown[1][1].reset # None => shown[1][1].reset[1] \in (Now + 1)..(Now + 300)
            /\ (\E i \in DOMAIN body.instances : AliScore(body.instances[i]) > 0)
               /\ (\E i \in DOMAIN body.instances : AliScore(body.instances[i]) < 0)
               => shown[1] = None \/ shown[1][1].percent # 90

----------------------------------------------------------------------------
(* A usage answer of the other two, and one that says the session is over.  *)
TreeAnswer(e) == e.req.to \in {"usage", "cli"} /\ e.reply.code = "200"
TreeRefused(e) ==
    \/ e.reply.code \in {"401", "notloggedin"}
    \/ TreeAnswer(e) /\ PlanPayload(e.reply.body) = Err("AuthenticationExpired")

(* Qwen Cloud and the token plan ask for a login only after a refusal, or,  *)
(* for Qwen Cloud, when the probes answered and held no token: a probe that *)
(* could not be reached is a network error (resolve_sec_token).             *)
TreeLoginMeansRefused ==
    /\ FailedWith({"MissingCredential"}) => log = <<>> \/ Answered(Probe("cli"), "spawn")
    /\ FailedWith({"AuthenticationExpired"}) /\ log # <<>> =>
         \/ \E i \in DOMAIN log : TreeRefused(log[i])
         \/ setup.provider = "qwencloud" /\ ~\E i \in DOMAIN log : log[i].reply.code \in {"network", "cancelled"}

(* A usage answer with figures is shown: what the subscription or the quota *)
(* configuration answer before or after it cannot lose it.                  *)
TreeUsageKept ==
    verdict.is = "err" /\ ~Cancelled =>
        ~\E i \in DOMAIN log :
            /\ TreeAnswer(log[i]) /\ log[i].req.to = "usage" /\ PlanPayload(log[i].reply.body).is = "ok"
            /\ Containing(log[i].reply.body.objects, {"five", "week"}) # None
            /\ setup.provider = "qwencloud" \/ setup.personal

(* The personal usage is asked again only after an answer that was sound    *)
(* and empty, and at most PersonalAttempts times; nothing is asked after a  *)
(* cancelled answer (fetch_web).                                            *)
TreeRepeatsOnlyEmpty ==
    \A i \in DOMAIN log : log[i].req.to = "usage" /\ log[i].req.attempt > 1 =>
        /\ log[i].req.attempt <= PersonalAttempts
        /\ log[i - 1].req.to = "usage" /\ ~log[i - 1].cut
        /\ PlanPayload(log[i - 1].reply.body).is = "ok"

(* Shares and credits stay within their total for every number answered,    *)
(* also a negative one, and credits are named only for the account's plan.  *)
TreeFigures ==
    Returned => \A i \in DOMAIN verdict.value.windows :
        LET w == verdict.value.windows[i] IN
        w # None => /\ w[1].percent \in 0..100
                    /\ w[1].credits # None => w[1].credits[1] \in 0..50
                    /\ w[1].reset # None => w[1].reset[1] < MillisFrom

----------------------------------------------------------------------------
LoginOnlyWhenRefused ==
    IF setup.provider = "alibaba" THEN AliLoginMeansRefused ELSE TreeLoginMeansRefused
RequestsStayInBounds == IF setup.provider = "alibaba" THEN AliRegionStays ELSE TreeRepeatsOnlyEmpty
=============================================================================
