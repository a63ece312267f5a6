----------------------------- MODULE CookieAdapters -----------------------------
(****************************************************************************)
(* Adapters that are signed in with a browser's cookies or with a request   *)
(* the user copied from a browser: ZoomMate (zoommate.rs), Qoder            *)
(* (qoder.rs), Devin (devin.rs), StepFun (stepfun.rs), MiMo (mimo.rs) and   *)
(* Notion (notion.rs).                                                      *)
(* Each is a program of ProviderFetch; setup.provider says which one runs.  *)
(****************************************************************************)
EXTENDS ProviderFetch, SequencesExt, TLC

CONSTANTS
    ZoomMaxSessions,   \* MAX_BROWSER_SESSIONS
    ZoomPageLimit,     \* HISTORY_PAGE_LIMIT: the records of one page
    ZoomMaxPages,      \* MAX_HISTORY_PAGES
    ZoomHistoryDays,   \* HISTORY_DAYS
    QoderMaxQuota,     \* MAX_QUOTA_MAGNITUDE
    DevinMaxSessions,  \* MAX_BROWSER_SESSIONS of devin.rs
    StepMaxRedirects,  \* MAX_HOMEPAGE_REDIRECTS
    NotionMaxProfiles  \* MAX_BROWSER_PROFILES of notion.rs

ReasonKind(code) ==
    CASE code \in {"401", "403"} -> "AuthenticationExpired"
      [] code \in {"network", "timeout", "cancelled"} -> "Network"
      [] code \in {"toolarge", "redirects"} -> "Parse"
      [] OTHER -> "Api"

----------------------------------------------------------------------------
(* ZoomMate. Two hosts serve the same routes; times are hours of days of 10.*)

ZoomDay(time) == time \div 10

(* ZoomMateRouteSet: the hosts that serve the routes; get asks one of them. *)
ZoomOrigins == 1..2
ZoomGet(req) == Sent(req, ReasonKind)

(* normalize_bearer_token and normalize_manual_cookie.                      *)
ZoomToken(token) == IF token = "good" THEN Ok(token) ELSE Err("MissingCredential")
ZoomManualCookie(cookie, host) ==
    CASE cookie = "none" -> Ok([h \in ZoomOrigins |-> FALSE])
      [] cookie = "good" -> Ok([h \in ZoomOrigins |-> h = host])
      [] cookie = "bad" -> Err("MissingCredential")

(* from_manual_capture_routes: the copied request must be the one for the   *)
(* status, and its cookie is for its own host.                              *)
ZoomManual ==
    IF setup.capture # "ok" THEN Err(CaptureKind(setup.capture))
    ELSE IF setup.url \notin ZoomOrigins THEN Err("Parse")
    ELSE Then(ZoomToken(setup.token), LAMBDA token :
         Then(ZoomManualCookie(setup.cookie, setup.url), LAMBDA cookies :
           Ok([sessions |-> <<[id |-> "pasted", cookies |-> cookies, cached |-> "none"]>>])))

(* browser_host_cookies and from_browser_jars_routes: a session is a jar    *)
(* with a login cookie for one of the hosts.                                *)
ZoomLoginCookie(jar) == [h \in ZoomOrigins |-> h \in jar.login]
ZoomBrowser ==
    LET with == SelectSeq(setup.jars, LAMBDA j : j.login # {})
    IN  IF Len(setup.jars) > ZoomMaxSessions THEN Err("Api")
        ELSE IF with # <<>>
        THEN Ok([sessions |-> [i \in DOMAIN with |->
                   [id |-> i, cookies |-> ZoomLoginCookie(with[i]), cached |-> with[i].cached]]])
        ELSE Err(IF \E i \in DOMAIN setup.jars : ~setup.jars[i].empty THEN "AuthenticationExpired" ELSE "MissingCredential")

(* host_order: a copied request's host first.                               *)
ZoomHosts == IF setup.source = "ManualCookie" /\ setup.url = 2 THEN <<2, 1>> ELSE <<1, 2>>

(* request_cookie: only the cookie of the host that is asked.               *)
ZoomRequest(to, session, h) == [to |-> to, session |-> session.id, host |-> ZoomHosts[h], cookie |-> session.cookies[ZoomHosts[h]]]

(* no_host_fallback: the other host is not asked once the answer is plain.  *)
ZoomPlain(p, req) == p.kind \in {"AuthenticationExpired", "PermissionDenied", "Parse"} \/ CancelledBy(req)

(* parse_bounded_json.                                                      *)
ZoomJson(b) == IF b.is = "junk" THEN Err("Parse") ELSE Ok(b)

(* expiry_from_jwt: a token whose expiry cannot be read is not kept.        *)
ZoomKept(b) == b.expiry # None
(* parse_login_response.                                                    *)
ZoomLogin(b) == Then(ZoomJson(b), LAMBDA j : IF b.nak THEN Ok(b) ELSE Err("Parse"))
(* parse_status_response.                                                   *)
ZoomStatusOf(b) == Then(ZoomJson(b), LAMBDA j : IF b.is = "status" /\ b.credit # "odd" THEN Ok(b) ELSE Err("Parse"))

(* mint_bearer: the hosts in turn; what a host answered is not doubted.     *)
ZoomMint(session) ==
    LET First == ZoomRequest("login", session, 1)
        Second == ZoomRequest("login", session, 2)
        p == ZoomGet(First)
    IN  Then(IF p.is = "err" /\ ~ZoomPlain(p, First) THEN ZoomGet(Second) ELSE p, ZoomLogin)

(* resolve_bearer: the token that is cached and not about to expire, else a *)
(* new one; a session that is refused gives way to the next.                *)
ZoomSessionBearer(session) ==
    IF setup.source = "ManualCookie" THEN Ok([session |-> session, minted |-> FALSE, kept |-> FALSE])
    ELSE IF session.cached = "fresh" THEN Ok([session |-> session, minted |-> FALSE, kept |-> TRUE])
    ELSE Then(ZoomMint(session), LAMBDA b : Ok([session |-> session, minted |-> TRUE, kept |-> ZoomKept(b)]))
ZoomLoginCut(session) == \E h \in 1..2 : CancelledBy(ZoomRequest("login", session, h))
ZoomBearer(sessions) ==
    LET n == Len(sessions)
        From[i \in 1..(n + 1)] ==
          IF i > n THEN Err("AuthenticationExpired")
          ELSE LET p == ZoomSessionBearer(sessions[i])
               IN  IF p.is = "err" /\ p.kind = "AuthenticationExpired"
                   THEN IF ZoomLoginCut(sessions[i]) THEN Err("Network") ELSE From[i + 1]
                   ELSE p
    IN  From[1]

(* fetch_status.                                                            *)
ZoomStatus(session) ==
    LET First == ZoomRequest("status", session, 1)
        Second == ZoomRequest("status", session, 2)
        p == ZoomGet(First)
    IN  Then(IF p.is = "err" /\ ~ZoomPlain(p, First) THEN ZoomGet(Second) ELSE p, ZoomStatusOf)

(* parse_history_page and parse_history_record.                             *)
ZoomRecord(r) == r.cost = "odd"
ZoomPage(b) ==
    Then(ZoomJson(b), LAMBDA j :
      IF b.is # "page" \/ Len(b.records) > ZoomPageLimit \/ \E i \in DOMAIN b.records : ZoomRecord(b.records[i])
      THEN Err("Parse") ELSE Ok(b))

(* parse_record_time; the records of the period.                            *)
ZoomOlder(r) == r.time # None /\ r.time[1] < setup.now - 10 * ZoomHistoryDays

(* fetch_history_from_host: page after page until the total that is stated  *)
(* (or what has been read) is reached, a page is empty or all of it is old. *)
ZoomHistoryFrom(session, h) ==
    LET Page(n) == ZoomRequest("history", session, h) @@ [page |-> n]
        From[n \in 0..ZoomMaxPages] ==
          LET before == IF n = 0 THEN Ok([records |-> <<>>, total |-> None, over |-> FALSE]) ELSE From[n - 1]
          IN  Then(before, LAMBDA got :
                IF got.over \/ (got.total # None /\ n * ZoomPageLimit >= got.total[1]) THEN Ok([got EXCEPT !.over = TRUE])
                ELSE IF n = ZoomMaxPages THEN Ok(got)
                ELSE Then(ZoomGet(Page(n)), LAMBDA b : Then(ZoomPage(b), LAMBDA page :
                       LET records == got.records \o page.records
                       IN  Ok([records |-> records,
                               total |-> Some(IF page.total = None THEN Len(records) ELSE page.total[1]),
                               over |-> page.records = <<>> \/ \A i \in DOMAIN page.records : ZoomOlder(page.records[i])]))))
    IN  From[ZoomMaxPages]
(* fetch_history: the other host is asked from its first page.              *)
ZoomHistoryCut(session, h) == \E n \in 0..ZoomMaxPages : CancelledBy(ZoomRequest("history", session, h) @@ [page |-> n])
ZoomHistory(session) ==
    LET p == ZoomHistoryFrom(session, 1)
    IN  IF p.is = "err" /\ p.kind \notin {"AuthenticationExpired", "PermissionDenied", "Parse"} /\ ~ZoomHistoryCut(session, 1)
        THEN ZoomHistoryFrom(session, 2) ELSE p

(* normalize_history: the credits of each day of the last thirty.           *)
ZoomCounted(r) ==
    /\ ~r.deleted /\ r.cost # "negative" /\ r.time # None
    /\ ZoomDay(r.time[1]) >= ZoomDay(setup.now) - (ZoomHistoryDays - 1)
ZoomDaily(records) ==
    LET counted == SelectSeq(records, ZoomCounted)
    IN  [day \in {ZoomDay(counted[i].time[1]) : i \in DOMAIN counted} |->
           Len(SelectSeq(counted, LAMBDA r : ZoomDay(r.time[1]) = day))]
ZoomHistoryFigures(history) ==
    LET daily == ZoomDaily(history.records)
        today == ZoomDay(setup.now)
    IN  [today |-> IF today \in DOMAIN daily THEN daily[today] ELSE 0,
         total |-> FoldSet(LAMBDA d, sum : sum + daily[d], 0, DOMAIN daily),
         days |-> DOMAIN daily, complete |-> history.over]

(* pacing_text: how far the spend is ahead of the cycle, in percent.        *)
ZoomPace(s, percent) ==
    IF s.cycle = None \/ s.unlimited \/ s.budget <= 0 THEN None
    ELSE LET start == s.cycle[1]  end == s.cycle[2]
             left == end - setup.now
             elapsed == (end - start) - left
         IN  IF end <= start \/ left <= 0 \/ left > end - start \/ (elapsed = 0 /\ percent > 0) THEN None
             ELSE Some(percent - (100 * elapsed) \div (end - start))
(* timestamp_from_millis and normalize_usage.                               *)
ZoomReset(s) == IF s.unlimited \/ s.budget <= 0 \/ s.cycle = None \/ s.cycle[2] <= 0 THEN None ELSE Some(s.cycle[2])
ZoomNormalize(s, history) ==
    LET percent == IF s.unlimited THEN 0 ELSE CountPercent(s.used, s.budget)
    IN  Ok([windows |-> <<[percent |-> percent, reset |-> ZoomReset(s)]>>, pace |-> ZoomPace(s, percent),
            history |-> IF history = None THEN None ELSE Some(ZoomHistoryFigures(history[1]))])

(* validate_scope_source, build and fetch_at_with_timeout.                  *)
ZoomCredential == IF setup.source = "ManualCookie" THEN ZoomManual ELSE ZoomBrowser
ZoomFetch ==
    Then(ZoomCredential, LAMBDA credential :
    Then(ZoomBearer(credential.sessions), LAMBDA bearer :
    Then(ZoomStatus(bearer.session), LAMBDA status :
      LET p == ZoomHistory(bearer.session)
          cut == ZoomHistoryCut(bearer.session, 1) \/ ZoomHistoryCut(bearer.session, 2)
      IN  IF p.is = "ask" \/ (p.is = "err" /\ cut) THEN p
          ELSE ZoomNormalize(status, IF p.is = "ok" THEN Some(p.value) ELSE None))))

(* invalidate_cached_bearer: what the cache of a session holds afterwards.  *)
ZoomCached(session) ==
    LET p == ZoomSessionBearer(session)
        refused == \E i \in DOMAIN log : /\ log[i].req.to \in {"status", "history"} /\ log[i].req.session = session.id
                                         /\ log[i].reply.code \in {"401", "403"}
    IN  p.is = "ok" /\ p.value.kept /\ ~refused

ZoomSetups ==
    [provider : {"zoommate"}, source : {"ManualCookie"}, now : {405}, varies : {"none"}, jars : {<<>>}, url : {1, 3},
     capture : {"ok", "MissingSecret", "InvalidSyntax", "InvalidPolicy"}, token : {"good", "bad"}, cookie : {"none", "good", "bad"}]
    \cup [provider : {"zoommate"}, source : {"ManualCookie"}, now : {405}, varies : {"status", "history"}, jars : {<<>>}, url : {2},
          capture : {"ok"}, token : {"good"}, cookie : {"good"}]
    \cup LET J(login, cached) == [login |-> login, cached |-> cached, empty |-> FALSE] IN
         [provider : {"zoommate"}, source : {"BrowserSession"}, now : {405}, varies : {"login", "status"},
          jars : {<<>>, <<[login |-> {}, cached |-> "none", empty |-> TRUE]>>, <<J({}, "none")>>, <<J({2}, "none"), J({1}, "none")>>,
                  <<J({1, 2}, "fresh")>>, <<J({1}, "stale"), J({1, 2}, "fresh")>>, <<J({1}, "none"), J({1}, "none"), J({1}, "none")>>}]

(* The shared deadline: once it has passed nothing is answered.             *)
ZoomReplies(req) ==
    LET any == Refusals({"401", "403", "429", "timeout", "cancelled", "toolarge"})
        B(is, varied) == IF setup.varies = is THEN any \cup Bodies(varied) ELSE Refusals({"401", "cancelled"}) \cup Bodies(varied)
        R(cost, deleted, time) == [cost |-> cost, deleted |-> deleted, time |-> time]
        some == R("some", FALSE, Some(404))
        old == R("some", FALSE, Some(300))
    IN  IF Saw({"timeout"}) THEN Refusals({"timeout", "cancelled"})
        ELSE CASE req.to = "login" -> B("login", [is : {"junk"}] \cup [is : {"login"}, nak : {FALSE}, expiry : {None}]
                                                 \cup [is : {"login"}, nak : {TRUE}, expiry : {None, Some(500)}])
               [] req.to = "status" -> B("status", IF setup.varies = "status"
                    THEN [is : {"junk"}] \cup [is : {"status"}, credit : {"odd"}]
                         \cup [is : {"status"}, credit : {"ok"}, unlimited : BOOLEAN, budget : {0, 10}, used : {-1, 25},
                               cycle : {None, <<400, 410>>, <<410, 400>>, <<405, 410>>}]
                    ELSE [is : {"status"}, credit : {"ok"}, unlimited : {FALSE}, budget : {10}, used : {5}, cycle : {<<400, 410>>}])
               [] req.to = "history" -> B("history", IF setup.varies = "history"
                    THEN [is : {"junk"}] \cup [is : {"page"}, total : IF req.page = 0 THEN {None, Some(3), Some(5)} ELSE {Some(5)},
                          records : {<<>>, <<some, some>>, <<old, old>>, <<some, old>>, <<some, some, some>>, <<R("odd", FALSE, None)>>,
                                     <<R("negative", FALSE, Some(405)), R("some", TRUE, Some(405))>>, <<R("some", FALSE, None), R("some", FALSE, Some(420))>>}]
                    ELSE [is : {"page"}, total : {None}, records : {<<some, some>>}])

----------------------------------------------------------------------------
(* Qoder. Its two sites, international and Chinese, have an account each.   *)
(* A pasted text is a curl command, a request or a bare cookie: what it     *)
(* names as its target, what its Host headers (or Domain parts) say, and    *)
(* the cookies it holds.                                                    *)

(* site_for_host and site_for_url: no other host is a site of Qoder.        *)
QoderSites == <<"international", "china">>
QoderSite(name) == IF name \in {"international", "china"} THEN Ok(name) ELSE Err("Parse")
(* inspect_host_header, curl_header_sites: what all the headers agree on.   *)
QoderAgreed(names, with) ==
    IF \E i \in DOMAIN names : names[i] \notin {"international", "china"} THEN Err("Parse")
    ELSE IF \E i \in DOMAIN names : names[i] # with THEN Err("Parse") ELSE Ok(with)

(* shell_tokens and is_curl_token: quotes close, and one curl is run.       *)
QoderTokens(paste) == IF paste.broken THEN Err("Parse") ELSE Ok(paste)
(* curl_site: exactly one target.                                           *)
QoderCurlSite(paste) ==
    Then(QoderTokens(paste), LAMBDA t :
      IF Len(paste.targets) # 1 THEN Err("Parse")
      ELSE Then(QoderSite(paste.targets[1]), LAMBDA site : QoderAgreed(paste.hosts, site)))
(* http_site: one request line; its URL, or else the Host header, says      *)
(* which site it is.                                                        *)
QoderHttpSite(paste) ==
    IF Len(paste.targets) # 1 THEN Err("Parse")
    ELSE IF paste.targets[1] # "/" THEN Then(QoderSite(paste.targets[1]), LAMBDA site : QoderAgreed(paste.hosts, site))
    ELSE IF paste.hosts = <<>> THEN Err("Parse")
    ELSE Then(QoderSite(paste.hosts[1]), LAMBDA site : QoderAgreed(paste.hosts, site))
(* plain_cookie_site.                                                       *)
QoderPlainSite(paste) ==
    IF paste.broken THEN Err("Parse")
    ELSE IF paste.hosts = <<>> THEN Ok("international") ELSE QoderAgreed(paste.hosts, paste.hosts[1])
(* manual_site: whatever is wrong with the site is a login that is over.    *)
QoderManualSite(paste) ==
    CASE paste.is = "empty" -> Err("MissingCredential")
      [] paste.is = "binary" -> Err("Parse")
      [] OTHER -> OrElse(CASE paste.is = "curl" -> QoderCurlSite(paste) [] paste.is = "http" -> QoderHttpSite(paste)
                           [] paste.is = "plain" -> QoderPlainSite(paste), LAMBDA e : Err("AuthenticationExpired"))

(* cookie_from_header: an empty header or one read from a file is refused.  *)
QoderCookieHeader(cookie) == IF cookie = "empty" THEN Err("Parse") ELSE Ok(cookie)
(* extract_http_cookie and extract_curl_cookie: the first cookie counts.    *)
QoderHttpCookie(paste) == IF paste.cookies = <<>> THEN Err("MissingCredential") ELSE QoderCookieHeader(paste.cookies[1])
QoderCurlCookie(paste) ==
    Then(QoderTokens(paste), LAMBDA t : IF paste.cookies = <<>> THEN Err("MissingCredential") ELSE QoderCookieHeader(paste.cookies[1]))
(* normalize_manual_cookie.                                                 *)
QoderNormalCookie(cookie) == IF cookie = "malformed" THEN Err("MissingCredential") ELSE Ok(cookie)

(* from_manual_capture_at.                                                  *)
QoderManual(paste) ==
    Then(QoderManualSite(paste), LAMBDA site :
    Then(CASE paste.is = "curl" -> QoderCurlCookie(paste) [] paste.is = "http" -> QoderHttpCookie(paste)
           [] paste.is = "plain" -> IF paste.cookies = <<>> THEN Ok("malformed") ELSE Ok(paste.cookies[1]), LAMBDA raw :
    Then(QoderNormalCookie(raw), LAMBDA cookie : Ok(<<[site |-> site, cookie |-> cookie]>>))))

(* cookie_target and merge_browser_cookie_headers: the cookies of the site  *)
(* and of its www host, as one.                                             *)
QoderMerged(jar, site) == jar[site] # {}
(* from_browser_jar_at.                                                     *)
QoderBrowser(jar) ==
    LET with == SelectSeq(QoderSites, LAMBDA site : QoderMerged(jar, site))
    IN  IF with # <<>> THEN Ok([i \in DOMAIN with |-> [site |-> with[i], cookie |-> "good"]])
        ELSE Err(IF jar.other THEN "AuthenticationExpired" ELSE "MissingCredential")
(* build.                                                                   *)
QoderCredentials == IF setup.source = "ManualCookie" THEN QoderManual(setup.paste) ELSE QoderBrowser(setup.jar)

(* endpoint and cookie: a cookie goes to its own site.                      *)
QoderRequest(credential) == [to |-> "quota", site |-> credential.site]

(* send and read_response.                                                  *)
QoderSend(credential) == Sent(QoderRequest(credential), ReasonKind)

(* validate_json_shape, the aliases of the fields and parse_quota_summary.  *)
QoderJson(b) == IF b.is = "junk" THEN Err("Parse") ELSE Ok(b)
QoderSummary(q) == IF q.is # "quota" THEN Err("Parse") ELSE Ok(q)
QoderOptionalSummary(q) == IF q.is = "odd" THEN Err("Parse") ELSE IF q.is = "missing" THEN Ok(None) ELSE Ok(Some(q))
(* remaining.                                                               *)
QoderRemaining(q) ==
    IF q.used < 0 \/ q.total < 0 \/ (q.left # None /\ q.left[1] < 0) THEN Err("Parse")
    ELSE Ok(IF q.left # None THEN q.left[1] ELSE IF q.total > q.used THEN q.total - q.used ELSE 0)
(* percentage: nothing of nothing is all of it.                             *)
QoderPercentage(used, total, left, stated) ==
    IF total = 0 THEN IF used # 0 \/ left # 0 THEN Err("Parse") ELSE Ok(IF stated # None THEN stated[1] ELSE 100)
    ELSE Ok(IF stated # None THEN stated[1] ELSE (100 * used) \div total)
(* checked_quota_add and merge_quota: what the service says of one quota's  *)
(* percentage does not hold for the sum of two.                             *)
QoderSum(left, right) == IF left + right > QoderMaxQuota THEN Err("Parse") ELSE Ok(left + right)
QoderMerge(base, shared) ==
    Then(QoderRemaining(base), LAMBDA left :
      IF shared = None THEN QoderPercentage(base.used, base.total, left, base.percent)
      ELSE Then(QoderRemaining(shared[1]), LAMBDA more :
           Then(QoderSum(base.used, shared[1].used), LAMBDA used : Then(QoderSum(base.total, shared[1].total), LAMBDA total :
           Then(QoderSum(left, more), LAMBDA rest : QoderPercentage(used, total, rest, None))))))
(* parse_reset: what cannot be read is no reset.                            *)
QoderReset(r) == IF r = "odd" THEN None ELSE IF r = "none" THEN None ELSE Some(500)
(* parse_usage_response.                                                    *)
QoderUsage(b) ==
    Then(QoderJson(b), LAMBDA j : Then(QoderSummary(b.base), LAMBDA base :
    Then(QoderOptionalSummary(b.shared), LAMBDA shared : Then(QoderMerge(base, shared), LAMBDA percent :
      Ok([windows |-> <<[percent |-> Clamp(percent, 0, 100), reset |-> QoderReset(b.reset)]>>])))))

(* fetch_at: of a browser every site is tried; a failure that is no refusal *)
(* is what is reported in the end.                                          *)
QoderFetch ==
    Then(QoderCredentials, LAMBDA credentials :
      LET n == Len(credentials)
          Attempt(i) == Then(QoderSend(credentials[i]), QoderUsage)
          From[i \in 1..(n + 1)] ==
            IF i > n
            THEN LET other == {j \in 1..n : Attempt(j).kind # "AuthenticationExpired"}
                 IN  Err(IF other = {} THEN "AuthenticationExpired" ELSE Attempt(Max(other)).kind)
            ELSE LET p == Attempt(i)
                 IN  IF p.is # "err" \/ setup.source = "ManualCookie" \/ CancelledBy(QoderRequest(credentials[i])) THEN p ELSE From[i + 1]
      IN  From[1])

QoderSetups ==
    LET P(is, targets, hosts, cookies, broken) == [is |-> is, targets |-> targets, hosts |-> hosts, cookies |-> cookies, broken |-> broken]
        I == "international"  C == "china"
    IN  [provider : {"qoder"}, source : {"ManualCookie"}, now : {405},
         paste : [is : {"empty", "binary"}]
                 \cup {P("curl", t, h, k, FALSE) : t \in {<<>>, <<C>>, <<I, C>>, <<"foreign">>}, h \in {<<>>, <<C, C>>, <<I>>}, k \in {<<>>, <<"good", "empty">>}}
                 \cup {P("http", t, h, <<"good">>, FALSE) : t \in {<<"/">>, <<C>>, <<"/", C>>}, h \in {<<>>, <<C>>, <<I, C>>, <<"foreign">>}}
                 \cup {P("plain", <<>>, h, k, b) : h \in {<<>>, <<I, I>>, <<I, C>>}, k \in {<<"malformed">>, <<"good">>}, b \in BOOLEAN}
                 \cup {P("curl", <<C>>, <<>>, <<"empty">>, b) : b \in BOOLEAN}]
        \cup [provider : {"qoder"}, source : {"BrowserSession"}, now : {405},
              jar : [international : {{}, {"www"}}, china : {{}, {"bare"}, {"bare", "www"}}, other : BOOLEAN]]
QoderReplies(req) ==
    LET Q(used, total, left, percent) == [is |-> "quota", used |-> used, total |-> total, left |-> left, percent |-> percent]
        some == Q(5, 10, None, None)
        odd == [is |-> "odd"]
        missing == [is |-> "missing"]
    IN  Refusals({"401", "403", "429", "network", "cancelled", "toolarge"})
        \cup Bodies([is : {"junk"}]
             \cup [is : {"quota"}, base : {missing, odd}, shared : {missing}, reset : {"odd"}]
             \cup [is : {"quota"}, base : {some}, shared : {odd, missing}, reset : {"odd"}]
             \cup [is : {"quota"}, reset : {"good"}, shared : {missing},
                   base : {Q(u, t, l, p) : u \in {0, 15, -1}, t \in {0, 10}, l \in {None, Some(0), Some(3)}, p \in {None, Some(120)}}]
             \cup [is : {"quota"}, reset : {"none"}, base : {some, Q(0, 0, None, Some(7))},
                   shared : {Q(0, 0, None, None), Q(20, 0, None, None), Q(20, 40, None, Some(1)), Q(20, 20, Some(50), None), Q(-1, 1, None, None)}])

----------------------------------------------------------------------------
(* Devin. The session is in the browser's local storage; an organisation is *)
(* a pair <<"org", slug>> or <<"organizations", internal id>>.              *)

DevinInternalIds == {"org-1", "org-2"}
DevinSlugs == {"acme", "zeta"}

(* normalize_organization, normalize_optional_organization, internal_org_id.*)
DevinOrganization(raw) ==
    CASE raw \in DevinInternalIds -> Some(<<"organizations", raw>>)
      [] raw \in DevinSlugs -> Some(<<"org", raw>>)
      [] OTHER -> None
DevinOverride ==
    IF setup.override = "unset" THEN Ok(None)
    ELSE IF DevinOrganization(setup.override) = None THEN Err("Api") ELSE Ok(DevinOrganization(setup.override))
DevinInternal(organization) == IF organization[1] = "organizations" /\ organization[2] \in DevinInternalIds THEN Some(organization[2]) ELSE None

(* validate_token and parse_manual_token: a bare token, a header or a curl  *)
(* command.                                                                 *)
DevinValidToken(token) == token \notin {"", "control"}
DevinManualToken ==
    CASE setup.paste = "empty" -> Err("MissingCredential")
      [] setup.paste = "binary" -> Err("Parse")
      [] setup.paste \in {"curl", "header", "bare"} ->
           IF setup.capture = "MissingSecret" THEN Err("MissingCredential") ELSE IF setup.capture # "ok" THEN Err("Parse")
           ELSE IF DevinValidToken(setup.token) THEN Ok(setup.token) ELSE Err("Parse")
(* from_manual_capture_at.                                                  *)
DevinManual ==
    Then(DevinManualToken, LAMBDA token : Then(DevinOverride, LAMBDA organization :
      Ok(<<[token |-> token, organization |-> organization,
            internal |-> IF organization = None THEN None ELSE DevinInternal(organization[1])]>>)))

(* access_token_from_json and access_token: the session entry, the entries  *)
(* of the login library, then any entry that holds a token.                 *)
DevinJsonToken(e) == IF e.token \in {"jwt-1", "jwt-2"} THEN Some(e.token) ELSE None
DevinAccessToken(storage) ==
    LET session == SelectSeq(storage, LAMBDA e : e.key = "auth1" /\ e.token = "auth1")
        library == SelectSeq(storage, LAMBDA e : e.key = "auth0" /\ DevinJsonToken(e) # None)
        any == SelectSeq(storage, LAMBDA e : DevinJsonToken(e) # None)
    IN  IF session # <<>> THEN Some("auth1") ELSE IF library # <<>> THEN Some(library[1].token)
        ELSE IF any # <<>> THEN Some(any[1].token) ELSE None

(* insert_storage and read_profile_storage: a profile that cannot be read   *)
(* is passed over.                                                          *)
DevinStorage(profile) == IF profile.readable THEN Some(profile.storage) ELSE None

(* cleaned_slug and cleaned_org_id.                                         *)
DevinSlug(e) == IF e.slug \in DevinSlugs THEN Some(e.slug) ELSE None
DevinOrgId(e) == IF e.internal \in DevinInternalIds THEN Some(e.internal) ELSE None

(* inferred_organization_info: from what any other entry says.              *)
DevinInferred(storage, override) ==
    LET entries == SelectSeq(storage, LAMBDA e : e.key # "external")
        Matches(e) == \/ override # None /\ DevinInternal(override[1]) # None /\ DevinOrgId(e) = DevinInternal(override[1])
                      \/ override # None /\ override[1][1] = "org" /\ DevinSlug(e) = Some(override[1][2])
        matching == SelectSeq(entries, Matches)
        slug == FirstOf([i \in DOMAIN entries |-> DevinSlug(entries[i])])
        internal == FirstOf([i \in DOMAIN entries |-> DevinOrgId(entries[i])])
    IN  IF matching # <<>> THEN Some([organization |-> override, internal |-> DevinOrgId(matching[1])])
        ELSE IF override # None /\ internal # None THEN Some([organization |-> override, internal |-> internal])
        ELSE IF slug # None THEN Some([organization |-> Some(<<"org", slug[1]>>), internal |-> internal])
        ELSE IF internal # None THEN Some([organization |-> Some(<<"organizations", internal[1]>>), internal |-> internal])
        ELSE None
(* organization_info: first the entries that name the last organisation.    *)
DevinOrganizationInfo(storage, override) ==
    LET external == SelectSeq(storage, LAMBDA e : e.key = "external")
        first == IF external = <<>> THEN None ELSE FirstOf([i \in DOMAIN external |-> DevinOrgId(external[i])])
        Named(e) == IF override = None THEN DevinSlug(e) # None ELSE override[1] = <<"org", e.slug>>
        named == SelectSeq(external, Named)
        inferred == DevinInferred(storage, override)
    IN  IF named # <<>>
        THEN [organization |-> IF override = None THEN Some(<<"org", named[1].slug>>) ELSE override, internal |-> DevinOrgId(named[1])]
        ELSE IF inferred # None THEN inferred[1]
        ELSE IF override # None THEN [organization |-> override, internal |-> FirstOf(<<first, DevinInternal(override[1])>>)]
        ELSE [organization |-> IF first = None THEN None ELSE Some(<<"organizations", first[1]>>), internal |-> first]
(* session_from_storage.                                                    *)
DevinSessionFrom(profile, override) ==
    LET storage == DevinStorage(profile)
        token == IF storage = None THEN None ELSE DevinAccessToken(storage[1])
    IN  IF token = None THEN None ELSE Some([token |-> token[1]] @@ DevinOrganizationInfo(storage[1], override))

(* organization_score and rank_and_deduplicate_sessions: what knows more of *)
(* its organisation comes first, and a token is tried once.                 *)
DevinScore(s) == (IF s.organization # None THEN 1 ELSE 0) + (IF s.internal # None THEN 2 ELSE 0)
DevinRanked(sessions) ==
    LET Best(i) == \A j \in DOMAIN sessions : sessions[j].token = sessions[i].token =>
                      DevinScore(sessions[j]) < DevinScore(sessions[i]) \/ (DevinScore(sessions[j]) = DevinScore(sessions[i]) /\ i <= j)
        First(i) == CHOOSE j \in DOMAIN sessions : sessions[j].token = sessions[i].token /\ \A k \in 1..(j - 1) : sessions[k].token # sessions[i].token
        Place(i) == <<3 - DevinScore(sessions[i]), First(i)>>
        chosen == SetToSortSeq({i \in DOMAIN sessions : Best(i)}, LAMBDA a, b :
                    Place(a)[1] < Place(b)[1] \/ (Place(a)[1] = Place(b)[1] /\ Place(a)[2] < Place(b)[2]))
    IN  [i \in DOMAIN chosen |-> sessions[chosen[i]]]
(* from_browser_discovery_at.                                               *)
DevinBrowser ==
    Then(DevinOverride, LAMBDA override :
      Then(Ok(FlattenSeq([i \in DOMAIN setup.profiles |-> DevinSessionFrom(setup.profiles[i], override)])), LAMBDA found :
        IF Len(found) > DevinMaxSessions THEN Err("Parse") ELSE IF found = <<>> THEN Err("MissingCredential") ELSE Ok(DevinRanked(found))))
(* build.                                                                   *)
DevinSessions == IF setup.source = "ManualCookie" THEN DevinManual ELSE DevinBrowser

(* candidate_paths: the ways the service may know the organisation by.      *)
DevinPaths(session) ==
    LET organization == session.organization[1]
        id == session.internal
        all == (IF id # None THEN <<id>> ELSE <<>>) \o <<organization>>
               \o (IF organization[1] = "org" THEN <<<<organization[2]>>>> ELSE <<>>)
               \o (IF id # None THEN <<<<"organizations", id[1]>>>> ELSE <<>>)
    IN  SelectSeq([i \in DOMAIN all |-> [at |-> i, path |-> all[i]]], LAMBDA p : \A j \in 1..(p.at - 1) : all[j] # p.path)
(* quota_url.                                                               *)
DevinRequest(session, path) == [to |-> "quota", token |-> session.token, path |-> path.path]

(* completed_status_failure: the service answered, so the session is bad.   *)
DevinCompleted(code) == code \in {"408", "429", "500", "404", "204"}
DevinKind(code) == IF code \in {"401", "403"} THEN "AuthenticationExpired" ELSE IF code = "204" THEN "Api" ELSE Classified(code)

(* number, first_number and percent_from, in hundredths: up to one is a     *)
(* ratio.                                                                   *)
DevinRatio(value) == IF value <= 100 THEN 100 * value ELSE value
DevinPercentFrom(f) ==
    LET limit == FirstOf(<<f.limit, f.available>>)
        left == f.available
    IN  IF f.used_percent # None THEN Some(DevinRatio(f.used_percent[1]))
        ELSE IF f.remaining_percent # None THEN Some(10000 - DevinRatio(f.remaining_percent[1]))
        ELSE IF f.used # None /\ limit # None /\ limit[1] > 0 THEN Some((10000 * f.used[1]) \div limit[1])
        ELSE IF left # None /\ limit # None /\ limit[1] > 0 THEN Some((10000 * (limit[1] - left[1])) \div limit[1])
        ELSE None
(* current_window: here one itself is a percentage already.                 *)
DevinCurrent(w) == Some([used |-> IF w.percent < 100 THEN 100 * w.percent ELSE w.percent, reset |-> w.reset])
(* window_from and find_window, is_daily_key and is_weekly_key.             *)
DevinFound(w) == LET p == DevinPercentFrom(w.fields) IN IF p = None THEN None ELSE Some([used |-> p[1], reset |-> w.reset])
DevinWindow(w) == CASE w.is = "none" -> None [] w.is = "current" -> DevinCurrent(w) [] w.is = "nested" -> DevinFound(w)
(* parse_timestamp: zero and less is no time.                               *)
DevinTime(t) == IF t = None \/ t[1] <= 0 THEN None ELSE t
(* find_overage, nonnegative_decimal.                                       *)
DevinOverage(b) == IF b.overage # None /\ b.overage[1] >= 0 THEN b.overage
                   ELSE IF b.cents # None /\ b.cents[1] >= 0 THEN Some(b.cents[1] \div 100) ELSE None
(* parse_bounded_json.                                                      *)
DevinJson(b) == IF b.is = "junk" THEN Err("Parse") ELSE Ok(b)
(* normalize_window.                                                        *)
DevinShown(w) == [percent |-> Clamp(w.used, 0, 10000) \div 100, reset |-> DevinTime(w.reset)]
(* parse_quota, normalize_quota and parse_quota_response.                   *)
DevinQuota(b) ==
    Then(DevinJson(b), LAMBDA j :
      LET there == DevinWindow(b.daily) \o DevinWindow(b.weekly)
      IN  IF there = <<>> THEN Err("Parse")
          ELSE Ok([windows |-> [i \in DOMAIN there |-> DevinShown(there[i])], balance |-> DevinOverage(b)]))

(* fetch_session: path after path; a refusal ends it, and so does an answer.*)
DevinSession(session) ==
    LET paths == DevinPaths(session)
        From[i \in 1..Len(paths)] ==
          LET req == DevinRequest(session, paths[i])
          IN  IF ~Asked(req) THEN Ask(req)
              ELSE LET code == ReplyTo(req).code
                   IN  CASE code = "200" -> DevinQuota(ReplyTo(req).body) @@ [next |-> FALSE]
                         [] code \in {"401", "403"} -> Err("AuthenticationExpired") @@ [next |-> TRUE]
                         [] OTHER -> IF i < Len(paths) THEN From[i + 1] ELSE Err(DevinKind(code)) @@ [next |-> DevinCompleted(code)]
    IN  From[1]
(* fetch_at.                                                                *)
DevinFetch ==
    Then(DevinSessions, LAMBDA sessions :
      LET n == Len(sessions)
          From[i \in 1..n] ==
            IF sessions[i].organization = None
            THEN IF setup.source = "ManualCookie" \/ i = n THEN Err("Api") ELSE From[i + 1]
            ELSE Settled(DevinSession(sessions[i]), LAMBDA p :
                   IF p.is = "ok" THEN Ok(p.value)
                   ELSE IF p.next /\ setup.source # "ManualCookie" /\ i < n THEN From[i + 1] ELSE Err(p.kind))
      IN  From[1])

DevinSetups ==
    LET E(key, token, slug, internal) == [key |-> key, token |-> token, slug |-> slug, internal |-> internal]
        P(storage) == [readable |-> TRUE, storage |-> storage]
        login == E("auth1", "auth1", "", "")
        other == E("auth0", "jwt-1", "", "")
        last == E("external", "", "acme", "org-1")
        bare == P(<<E("other", "jwt-2", "", "")>>)
    IN  [provider : {"devin"}, source : {"ManualCookie"}, now : {405}, override : {"acme"}, paste : {"empty", "binary", "curl", "bare"},
         capture : {"ok", "MissingSecret", "InvalidSyntax"}, token : {"control", "good"}]
        \cup [provider : {"devin"}, source : {"ManualCookie"}, now : {405}, override : {"unset", "../", "org-2"}, paste : {"header"}, capture : {"ok"}, token : {"good"}]
        \cup [provider : {"devin"}, source : {"BrowserSession"}, now : {405}, override : {"unset"},
              profiles : {<<>>, <<[readable |-> FALSE], P(<<E("auth1", "control", "", ""), last>>)>>, <<P(<<login, last>>)>>, <<bare>>,
                          <<bare, P(<<other, E("other", "", "zeta", "")>>), P(<<other, last>>)>>, <<P(<<other, E("external", "", "null", "org-2")>>), P(<<login, E("other", "", "", "org-1")>>)>>,
                          <<P(<<login, last>>), P(<<other, last>>), P(<<login>>), bare>>}]
        \cup [provider : {"devin"}, source : {"BrowserSession"}, now : {405}, override : {"acme", "org-1", "../"},
              profiles : {<<P(<<login, last>>)>>, <<P(<<other, E("other", "", "acme", "org-2")>>)>>, <<P(<<other, E("external", "", "zeta", "org-2"), E("other", "", "", "org-1")>>)>>, <<bare>>}]
DevinBodies ==
    LET N == [is |-> "none"]
        C(p) == [is |-> "current", percent |-> p, reset |-> Some(500)]
        F(u, r, used, limit, available) == [is |-> "nested", reset |-> None,
            fields |-> [used_percent |-> u, remaining_percent |-> r, used |-> used, limit |-> limit, available |-> available]]
    IN  [is : {"junk"}] \cup [is : {"quota"}, daily : {N, C(50), C(100)}, weekly : {N, F(None, Some(100), None, None, None)}, overage : {None}, cents : {None, Some(250)}]
        \cup [is : {"quota"}, daily : {N}, overage : {Some(-3), Some(4)}, cents : {Some(250)},
              weekly : {F(Some(100), None, None, None, None), F(Some(15000), None, None, None, None), F(None, None, Some(300), Some(0), None),
                        F(None, None, Some(300), Some(200), None), F(None, None, None, None, Some(7)), F(None, None, None, Some(100), Some(130))}]
DevinReplies(req) ==
    IF \E i \in DOMAIN log : log[i].reply.code # "200" THEN Refusals({"401", "404", "network", "cancelled"}) \cup Bodies({b \in DevinBodies : b.is = "quota" /\ b.daily.is = "current"})
    ELSE Refusals({"401", "403", "404", "429", "204", "network", "toolarge", "cancelled"}) \cup Bodies(DevinBodies)

----------------------------------------------------------------------------
(* StepFun. A pasted token, or a name and a password with which a session   *)
(* is opened in three steps; a session that is over is renewed.             *)

(* validate_token, normalize_token and token_from_manual_input.             *)
StepValidToken(token) == token = "good"
StepManualToken ==
    CASE setup.paste = "empty" -> Err("MissingCredential")
      [] setup.paste = "curl" /\ setup.capture # "ok" -> Err(CaptureKind(setup.capture))
      [] OTHER -> IF StepValidToken(setup.token) THEN Ok("pasted") ELSE Err("MissingCredential")
(* validate_login_field.                                                    *)
StepPassword == IF setup.password = "blank" THEN Err("MissingCredential") ELSE Ok(setup.password)

(* classify_login_status and execute_login_request.                         *)
StepLoginKind(code) ==
    CASE code \in {"401", "403"} -> "AuthenticationExpired" [] code \in {"network", "timeout", "cancelled"} -> "Network"
      [] code = "toolarge" -> "Parse" [] OTHER -> "Api"
(* ingress_cookie_from_headers and validate_ingress_cookie.                 *)
StepIngress(b) == IF b.ingress = "bad" THEN Err("AuthenticationExpired") ELSE Ok(b.ingress = "set")
(* homepage_ingress_cookie: the site's pages, as far as they redirect within*)
(* it, until one is shown; the last cookie that was set counts.             *)
StepHomepage(attempt) ==
    LET Page(hop) == [to |-> "homepage", attempt |-> attempt, hop |-> hop]
        From[hop \in 0..StepMaxRedirects, set \in BOOLEAN] ==
          Then(Sent(Page(hop), StepLoginKind), LAMBDA b : Then(StepIngress(b), LAMBDA now :
            IF b.is = "page" THEN IF set \/ now THEN Ok(TRUE) ELSE Err("AuthenticationExpired")
            ELSE IF hop = StepMaxRedirects THEN Err("Network")
            ELSE IF b.location = "none" THEN Err("Parse") ELSE IF b.location = "outside" THEN Err("Api")
            ELSE From[hop + 1, set \/ now]))
    IN  From[0, FALSE]
(* parse_bounded_json and parse_token_response.                             *)
StepJson(b) == IF b.is = "junk" THEN Err("Parse") ELSE Ok(b)
StepTokenResponse(b, missing) == Then(StepJson(b), LAMBDA j : IF b.access # "good" THEN Err(missing) ELSE Ok(b))
(* register_device, sign_in and login.                                      *)
StepRegister(attempt) ==
    Then(Sent([to |-> "register", attempt |-> attempt], StepLoginKind), LAMBDA b : StepTokenResponse(b, "Api"))
StepSignIn(attempt) ==
    Then(Sent([to |-> "sign in", attempt |-> attempt], StepLoginKind), LAMBDA b : StepTokenResponse(b, "AuthenticationExpired"))
StepLogin(attempt) ==
    Then(StepHomepage(attempt), LAMBDA ingress : Then(StepRegister(attempt), LAMBDA anonymous :
    Then(StepSignIn(attempt), LAMBDA b : Ok(IF attempt = 1 THEN "login 1" ELSE "login 2"))))

(* classify_required_transport and classify_refresh_transport.              *)
StepKind(code) ==
    CASE code \in {"401", "403"} -> "AuthenticationExpired" [] code \in {"408", "429", "500", "404", "204"} -> "Api"
      [] code = "redirects" -> "Network" [] OTHER -> Classified(code)
StepRefreshKind(code) == IF code = "204" THEN "AuthenticationExpired" ELSE StepKind(code)

(* is_authentication_message; a number that cannot be read is zero.         *)
StepRefused(b) == b.code \in {"401", "403"} \/ b.message = "token expired"
StepNumber(n) == IF n = None THEN 0 ELSE n[1]
(* total_credit_left_rate, in percent: the buckets, if they all make sense. *)
StepCreditLeft(credit) ==
    LET good == \A i \in DOMAIN credit.buckets : LET k == credit.buckets[i] IN k.total > 0 /\ k.left \in 0..k.total
        Sum(Of(_)) == FoldSeq(LAMBDA k, sum : sum + Of(k), 0, credit.buckets)
    IN  IF credit.buckets # <<>> /\ good
        THEN Some((100 * Sum(LAMBDA k : k.left)) \div Sum(LAMBDA k : k.total))
        ELSE FirstOf(<<credit.subscription, credit.topup>>)
(* parse_usage: a plan with live windows is no credit plan.                 *)
StepCreditPlan(b) ==
    LET live == StepNumber(b.five.reset) > 0 \/ StepNumber(b.week.reset) > 0
        pool == b.credit # None /\ LET k == b.credit[1] IN k.subscription # None \/ k.topup # None \/ k.buckets # <<>>
    IN  IF live THEN FALSE ELSE IF pool THEN TRUE ELSE b.family = 2
StepParse(b) ==
    Then(StepJson(b), LAMBDA j :
      IF b.status # 1 THEN Err(IF StepRefused(b) THEN "AuthenticationExpired" ELSE "Api")
      ELSE IF ~StepCreditPlan(b) /\ \E w \in {b.five, b.week} : w.left = None \/ w.reset = None THEN Err("Parse")
      ELSE Ok(b))

(* authenticated_post and query_usage.                                      *)
StepPost(to, token) == [to |-> to, token |-> token]
StepUsage(token) == Then(Sent(StepPost("usage", token), StepKind), StepParse)
(* parse_refreshed_token and refresh.                                       *)
StepRefresh(token) ==
    Then(Sent(StepPost("refresh", token), StepRefreshKind), LAMBDA b :
    Then(StepTokenResponse(b, "AuthenticationExpired"), LAMBDA t : Ok("refreshed")))
(* login_and_query.                                                         *)
StepLoginAndQuery == Then(StepLogin(2), LAMBDA token : Then(StepUsage(token), LAMBDA b : Ok([usage |-> b, token |-> token])))
(* recover_usage: renewed, or else signed in again where that is possible.  *)
StepRecover(stale) ==
    LET renewed == StepRefresh(stale)
        again == IF renewed.is = "ok" THEN StepUsage(renewed.value) ELSE renewed
    IN  IF renewed.is = "ask" \/ again.is = "ask" THEN again
        ELSE IF again.is = "ok" THEN Ok([usage |-> again.value, token |-> renewed.value])
        ELSE IF setup.login /\ (renewed.is = "err" \/ again.kind = "AuthenticationExpired") THEN StepLoginAndQuery
        ELSE again

(* query_plan_name, parse_plan_name: whatever goes wrong is no name.        *)
StepPlanName(token) == Optional(Sent(StepPost("plan", token), Classified), [is |-> "none"])

(* remaining_to_used_percent and rolling_window.                            *)
StepUsedPercent(left) == Clamp(100 - left, 0, 100)
StepRolling(w) == [percent |-> StepUsedPercent(StepNumber(w.left)), reset |-> Some(StepNumber(w.reset))]
(* normalize_usage.                                                         *)
StepNormalize(b) ==
    LET left == IF b.credit = None THEN None ELSE StepCreditLeft(b.credit[1])
    IN  Ok([windows |-> IF StepCreditPlan(b) /\ left # None
                        THEN <<[percent |-> StepUsedPercent(left[1]), reset |-> IF StepNumber(b.credit[1].reset) > 0 THEN b.credit[1].reset ELSE None]>>
                        ELSE <<StepRolling(b.five), StepRolling(b.week)>>])

(* from_manual_capture_routes and from_password_routes.                     *)
StepSession == IF setup.login THEN Then(StepPassword, LAMBDA p : StepLogin(1)) ELSE StepManualToken
(* fetch_at.                                                                *)
StepAnswer(first) ==
    LET p == StepUsage(first)
    IN  IF p.is = "err" /\ p.kind = "AuthenticationExpired" THEN StepRecover(first)
        ELSE Then(p, LAMBDA b : Ok([usage |-> b, token |-> first]))
StepFetch ==
    Then(StepSession, LAMBDA first : Then(StepAnswer(first), LAMBDA got :
      IF CancelledBy(StepPost("usage", got.token)) THEN Err("Network")
      ELSE Then(StepPlanName(got.token), LAMBDA name :
             IF CancelledBy(StepPost("plan", got.token)) THEN Err("Network") ELSE StepNormalize(got.usage))))

(* replace_token: the token the provider keeps for the next fetch.          *)
StepKept ==
    LET first == IF setup.login THEN "login 1" ELSE "pasted"
        renewed == StepRefresh(first)
        answer == StepAnswer(first)
    IN  IF answer.is = "ok" THEN answer.value.token
        ELSE IF Asked(StepPost("refresh", first)) /\ renewed.is = "ok" THEN "refreshed" ELSE first

StepSetups ==
    [provider : {"stepfun"}, source : {"ManualCookie"}, now : {405}, login : {FALSE}, paste : {"empty", "curl", "bare"}, token : {"good", "bad"},
     capture : {"ok", "MissingSecret", "InvalidSyntax"}, varies : {"none"}]
    \cup [provider : {"stepfun"}, source : {"ManualCookie"}, now : {405}, login : {FALSE}, paste : {"bare"}, token : {"good"}, capture : {"ok"}, varies : {"usage", "refresh"}]
    \cup [provider : {"stepfun"}, source : {"ManualCookie"}, now : {405}, login : {TRUE}, password : {"blank", "good"}, varies : {"login", "refresh"}]
StepReplies(req) ==
    LET Of(is, codes, all, one) == IF setup.varies = is THEN Refusals(codes \cup {"cancelled"}) \cup Bodies(all) ELSE Refusals({"401"}) \cup Bodies(one)
        tokens == [is |-> "tokens", access |-> "good"]
        W(left, reset) == [left |-> left, reset |-> reset]
        K(buckets, subscription, topup) == Some([buckets |-> buckets, subscription |-> subscription, topup |-> topup, reset |-> Some(600)])
        U(five, week, credit, family) == [is |-> "usage", status |-> 1, five |-> five, week |-> week, credit |-> credit, family |-> family]
        B(total, left) == [total |-> total, left |-> left]
        plain == U(W(Some(40), Some(500)), W(Some(70), Some(600)), None, 1)
        refused == [is |-> "usage", status |-> 0, code |-> "401", message |-> "none"]
    IN  CASE req.to = "homepage" -> Of("login", {"401", "500", "timeout"},
               [is : {"page"}, ingress : {"set", "none", "bad"}] \cup [is : {"redirect"}, location : {"none", "inside", "outside"}, ingress : {"set", "none"}],
               {[is |-> "page", ingress |-> "set"]})
          [] req.to \in {"register", "sign in"} -> Of("login", {"403", "toolarge"}, [is : {"junk"}] \cup [is : {"tokens"}, access : {"good", "bad"}], {tokens})
          [] req.to = "refresh" -> Of("refresh", {"401", "204", "network", "429"}, [is : {"junk"}] \cup [is : {"tokens"}, access : {"good", "bad"}], {tokens})
          [] req.to = "plan" -> Refusals({"401", "cancelled"}) \cup Bodies({[is |-> "name"]})
          [] req.to = "usage" -> Of("usage", {"401", "403", "429", "redirects", "204"},
               {plain, refused, [is |-> "junk"], [refused EXCEPT !.code = "500", !.message = "token expired"], [refused EXCEPT !.code = "500"],
                U(W(None, None), W(Some(1), Some(1)), None, 1), U(W(Some(130), Some(0)), W(Some(-5), Some(0)), None, 1), U(W(None, None), W(None, None), None, 2)}
               \cup {U(W(None, None), W(None, None), k, 1) : k \in {K(<<>>, Some(30), Some(50)), K(<<B(10, 5), B(30, 5)>>, Some(90), None), K(<<B(10, 11)>>, None, Some(20)), K(<<>>, None, None)}},
               IF setup.varies = "refresh" THEN {plain, refused} ELSE {plain})

----------------------------------------------------------------------------
(* MiMo. The three pages of the console are asked for at once: one reply    *)
(* holds what became of each. Or the usage a local tool wrote to a file.    *)

(* normalize_cookie: the cookies of the console, of which two are needed; a *)
(* pasted text counts its last value, a browser its first.                  *)
MimoCookie(cookies, last) ==
    LET Value(name) == LET of == SelectSeq(cookies, LAMBDA k : k.name = name /\ k.value # "")
                       IN  IF of = <<>> THEN None ELSE Some(IF last THEN of[Len(of)].value ELSE of[1].value)
    IN  IF Value("token") = None \/ Value("user") = None THEN Err("MissingCredential")
        ELSE Ok([token |-> Value("token")[1], user |-> Value("user")[1]])
(* from_manual_capture_at.                                                  *)
MimoManual == IF setup.capture # "ok" THEN Err(CaptureKind(setup.capture)) ELSE MimoCookie(setup.cookies, TRUE)
(* from_browser_jar_at.                                                     *)
MimoBrowser ==
    IF setup.cookies = <<>> THEN Err(IF setup.other THEN "AuthenticationExpired" ELSE "MissingCredential")
    ELSE OrElse(MimoCookie(setup.cookies, FALSE), LAMBDA e : Err("AuthenticationExpired"))

(* read_response: a redirect leads to the login; other answers are taken    *)
(* for a bad connection.                                                    *)
MimoKind(code) == CASE code \in {"401", "403", "302"} -> "AuthenticationExpired" [] code \in {"toolarge", "broken"} -> "Parse" [] OTHER -> "Network"
(* send and fetch_at: only the balance must be there.                       *)
MimoConsole(cookie) == Sent([to |-> "console", token |-> cookie.token], MimoKind)

(* parse_provider_decimal and parse_balance.                                *)
MimoDecimal(text) == IF text = "odd" THEN None ELSE Some(text)
MimoBalance(b) ==
    CASE b.code \in {401, 403} -> Err("AuthenticationExpired")
      [] b.code # 0 \/ b.amount = "odd" \/ b.currency = "odd" -> Err("Parse")
      [] OTHER -> Ok(b)
(* parse_plan_timestamp and parse_token_detail.                             *)
MimoPeriodEnd(d) == IF d.is = "detail" /\ d.code = 0 THEN d.end ELSE None
(* parse_token_usage: the first item of the month.                          *)
MimoMonth(u) == IF u.is = "usage" /\ u.code = 0 /\ u.items # <<>> THEN Some(u.items[1]) ELSE None
(* capitalized_plan, balance_detail, normalize_web.                         *)
MimoWindow(item, end) == [percent |-> Clamp(item.percent, 0, 100), reset |-> end]
MimoNormalize(b) ==
    LET month == MimoMonth(b.usage)
    IN  Ok([balance |-> b.amount, windows |-> IF month = None \/ month[1].limit <= 0 THEN <<>> ELSE <<MimoWindow(month[1], MimoPeriodEnd(b.detail))>>])
(* parse_combined_snapshot.                                                 *)
MimoSnapshot(b) == Then(MimoBalance(b), MimoNormalize)

(* expand_home, validate_cache_path and MiMoLocalProvider::resolve.         *)
MimoPath ==
    CASE setup.path \in {"~", "~/x"} -> IF setup.home THEN Ok(setup.path) ELSE Err("MissingCredential")
      [] setup.path \in {"~other", "relative", "/a/../b"} -> Err("Api")
      [] setup.path = "default" -> IF setup.home THEN Ok(setup.path) ELSE Err("MissingCredential")
      [] OTHER -> Ok(setup.path)
(* read_local_cache and validate_local_file.                                *)
MimoFileKind(code) == IF code = "no file" THEN "MissingCredential" ELSE IF code = "cancelled" THEN "Network" ELSE "Parse"
MimoFile(path) == Sent([to |-> "file", path |-> path], MimoFileKind)
(* local_int: what is no count is zero; local_total.                        *)
MimoCount(n) == IF n < 0 THEN 0 ELSE n
MimoTotal(w) == FoldSeq(LAMBDA n, sum : sum + MimoCount(n), 0, w)
(* stale_suffix.                                                            *)
MimoStale(updated) == setup.now - updated > 12
(* required_window and parse_local_usage.                                   *)
MimoLocalUsage(b) ==
    IF b.is = "junk" \/ b.windows = "missing" THEN Err("Parse")
    ELSE LET updated == FirstOf(<<b.updated, b.modified, Some(setup.now)>>)[1]
         IN  Ok([windows |-> <<>>, totals |-> <<MimoTotal(b.today), MimoTotal(b.week)>>, updated |-> updated, stale |-> MimoStale(updated)])
MimoLocal ==
    Then(MimoPath, LAMBDA path : Then(MimoFile(path), LAMBDA b :
      IF CancelledBy([to |-> "file", path |-> path]) THEN Err("Network") ELSE MimoLocalUsage(b)))

MimoFetch ==
    IF setup.source = "LocalData" THEN MimoLocal
    ELSE Then(IF setup.source = "ManualCookie" THEN MimoManual ELSE MimoBrowser, LAMBDA cookie : Then(MimoConsole(cookie), MimoSnapshot))

MimoSetups ==
    LET K(name, value) == [name |-> name, value |-> value]
        jars == {<<>>, <<K("token", "a"), K("user", "u")>>, <<K("token", "a"), K("token", "b"), K("user", "u"), K("other", "x")>>, <<K("token", ""), K("user", "u")>>}
    IN  [provider : {"mimo"}, source : {"ManualCookie"}, now : {405}, capture : {"ok", "MissingSecret", "InvalidSyntax", "InvalidPolicy"}, cookies : jars]
        \cup [provider : {"mimo"}, source : {"BrowserSession"}, now : {405}, cookies : jars, other : BOOLEAN]
        \cup [provider : {"mimo"}, source : {"LocalData"}, now : {405}, path : {"~", "~/x", "~other", "relative", "/a/../b", "default", "/a/b"}, home : BOOLEAN]
MimoReplies(req) ==
    LET I(limit, percent) == [limit |-> limit, percent |-> percent]
        none == [is |-> "failed"]
        D(code, end) == [is |-> "detail", code |-> code, end |-> end]
        U(code, items) == [is |-> "usage", code |-> code, items |-> items]
    IN  CASE req.to = "console" -> Refusals({"401", "403", "302", "500", "timeout", "cancelled", "toolarge"})
               \cup Bodies([is : {"balance"}, code : {0}, amount : {"some"}, currency : {"USD"}, detail : {none, D(0, Some(500)), D(1, None)},
                            usage : {none, U(1, <<>>), U(0, <<I(0, 50)>>), U(0, <<I(10, 50)>>), U(0, <<I(10, 250), I(10, 1)>>), U(0, <<I(10, -5)>>)}]
                           \cup [is : {"balance"}, code : {0, 401, 7}, amount : {"odd"}, currency : {"USD", "odd"}, detail : {none}, usage : {none}])
          [] req.to = "file" -> Refusals({"no file", "symlink", "toolarge", "cancelled"})
               \cup Bodies([is : {"junk"}] \cup [is : {"local"}, windows : {"missing"}] \cup
                           [is : {"local"}, windows : {"there"}, today : {<<>>, <<3, -2>>}, week : {<<3, 4>>}, updated : {None, Some(390), Some(404)}, modified : {None, Some(400)}])

----------------------------------------------------------------------------
(* Notion. The workspaces of the account, then the allowance of one of them.*)

(* is_bare_token, bare_manual_token and normalize_manual_cookie.            *)
NotionBare(paste) == paste = "bare"
NotionManualCookie(cookie) == IF cookie = "malformed" THEN Err("Parse") ELSE IF cookie = "none" THEN Err("MissingCredential") ELSE Ok(cookie)
(* captured_accept: what the copied request accepted must be a known value. *)
NotionAccept(accept) == IF accept = "unknown" THEN Err("Api") ELSE Ok(accept)
(* from_manual_capture_routes.                                              *)
NotionManual ==
    IF NotionBare(setup.paste) THEN NotionManualCookie("session")
    ELSE IF setup.capture # "ok" THEN Err(CaptureKind(setup.capture))
    ELSE Then(NotionManualCookie(setup.cookie), LAMBDA cookie : Then(NotionAccept(setup.accept), LAMBDA a : Ok(cookie)))
(* browser_cookie_header: the cookies of all of its domains, as one.        *)
NotionJar(jar) ==
    IF "session" \in jar THEN Ok("session") ELSE Err(IF jar = {} THEN "MissingCredential" ELSE "AuthenticationExpired")
(* new_browser_from_discovery: the first store with a session; a profile    *)
(* that cannot be read is passed over.                                      *)
NotionBrowser ==
    LET readable == SelectSeq(setup.profiles, LAMBDA p : p.readable)
        with == SelectSeq(readable, LAMBDA p : NotionJar(p.jar).is = "ok")
    IN  IF Len(setup.profiles) > NotionMaxProfiles THEN Err("Parse")
        ELSE IF with # <<>> THEN NotionJar(with[1].jar)
        ELSE Err(IF \E i \in DOMAIN readable : readable[i].jar # {} THEN "AuthenticationExpired" ELSE "MissingCredential")
(* normalize_space_id and validate_preferred_space_id: dashes and case do   *)
(* not matter.                                                              *)
NotionSpaceId(id) == CASE id \in {"A-1", "a1"} -> "a1" [] id \in {"B2", "b-2"} -> "b2" [] OTHER -> id
NotionPreferred == IF setup.preferred = "control" THEN Err("Api") ELSE IF setup.preferred = "unset" THEN Ok(None) ELSE Ok(Some(NotionSpaceId(setup.preferred)))
(* build.                                                                   *)
NotionBuild == Then(IF setup.source = "ManualCookie" THEN NotionManual ELSE NotionBrowser, LAMBDA cookie : NotionPreferred)

(* classify_transport_error and send_exact_200.                             *)
NotionKind(code) ==
    CASE code = "401" -> "AuthenticationExpired" [] code \in {"403", "404", "408", "429", "500", "204", "redirects", "origin"} -> "Api"
      [] OTHER -> Classified(code)
NotionSend(req) == Sent(req, NotionKind)

(* parse_bounded_json.                                                      *)
NotionJson(b) == IF b.is = "junk" THEN Err("Parse") ELSE Ok(b)
(* resolve_user_id: the account whose record names itself, or the only one. *)
NotionUser(b) ==
    LET named == SelectSeq(b.accounts, LAMBDA a : a.named)
    IN  IF Len(named) = 1 THEN Some(named[1]) ELSE IF named = <<>> /\ Len(b.accounts) = 1 THEN Some(b.accounts[1]) ELSE None
(* unwrap_record and parse_spaces_response.                                 *)
NotionSpaces(b) ==
    Then(NotionJson(b), LAMBDA j :
      LET user == NotionUser(b)
          spaces == IF user = None THEN <<>> ELSE SelectSeq(user[1].spaces, LAMBDA s : s.record)
      IN  IF user = None \/ \E i \in DOMAIN spaces : spaces[i].id = "" THEN Err("Parse") ELSE Ok(spaces))
(* may_have_allowance and resolve_workspace.                                *)
NotionAllowance(space) == space.tier \in {"business", "enterprise"}
NotionWorkspace(spaces, preferred) ==
    LET wanted == IF preferred = None THEN <<>> ELSE SelectSeq(spaces, LAMBDA s : NotionSpaceId(s.id) = preferred[1])
        likely == SelectSeq(spaces, NotionAllowance)
        choice == wanted \o likely \o spaces
    IN  IF choice = <<>> THEN Err("Api") ELSE Ok(choice[1])

(* percent: not capped. timestamp_after_seconds, timestamp_from_milliseconds*)
NotionPercent(w) == IF w.used = None \/ w.limit = None \/ w.limit[1] <= 0 THEN None
                    ELSE Some(IF w.used[1] < 0 THEN 0 ELSE (100 * w.used[1]) \div w.limit[1])
NotionAfter(seconds) == IF seconds = None \/ seconds[1] < 0 THEN None ELSE Some(setup.now + seconds[1])
NotionAt(millis) == IF millis = None \/ millis[1] <= 0 THEN None ELSE millis
(* parse_rate_limit_response and is_not_applicable.                         *)
NotionStatus(b) ==
    Then(NotionJson(b), LAMBDA j : IF b.status # "not_applicable" /\ b.window = None /\ b.billing = None THEN Err("Parse") ELSE Ok(b))
(* rolling_minutes and normalize_usage.                                     *)
NotionRolling(b) == IF b.window = None \/ NotionPercent(b.window[1]) = None THEN <<>>
                    ELSE <<[percent |-> NotionPercent(b.window[1])[1], reset |-> NotionAfter(b.resets)]>>
NotionBilling(b) == IF b.billing = None \/ NotionPercent(b.billing[1]) = None THEN <<>>
                    ELSE <<[percent |-> NotionPercent(b.billing[1])[1], reset |-> NotionAt(b.billing[1].end)]>>
NotionNormalize(b, space) == Ok([windows |-> NotionRolling(b) \o NotionBilling(b), space |-> NotionSpaceId(space.id)])

(* fetch_at.                                                                *)
NotionFetch ==
    Then(NotionBuild, LAMBDA preferred :
    Then(NotionSend([to |-> "spaces"]), LAMBDA b : Then(NotionSpaces(b), LAMBDA spaces :
    Then(NotionWorkspace(spaces, preferred), LAMBDA space :
    Then(NotionSend([to |-> "allowance", space |-> space.id]), LAMBDA u : Then(NotionStatus(u), LAMBDA status :
      IF status.status = "not_applicable" THEN Err("Api") ELSE NotionNormalize(status, space)))))))

NotionSetups ==
    LET P(jar) == [readable |-> TRUE, jar |-> jar] IN
    [provider : {"notion"}, source : {"ManualCookie"}, now : {405}, preferred : {"unset"}, paste : {"bare", "curl"}, accept : {"unknown", "any"},
     capture : {"ok", "MissingSecret", "InvalidSyntax", "InvalidPolicy"}, cookie : {"session", "none", "malformed"}]
    \cup [provider : {"notion"}, source : {"BrowserSession"}, now : {405}, preferred : {"unset", "control", "B2", "zz"},
          profiles : {<<>>, <<[readable |-> FALSE], P({})>>, <<P({"other"}), P({})>>, <<P({"other"}), P({"session"})>>, <<P({}), P({}), P({"session"})>>}]
NotionReplies(req) ==
    LET S(id, tier, record) == [id |-> id, tier |-> tier, record |-> record]
        A(named, spaces) == [named |-> named, spaces |-> spaces]
        two == <<S("A-1", "plus", TRUE), S("b-2", "business", TRUE)>>
        W(used, limit) == [used |-> used, limit |-> limit, end |-> Some(500)]
    IN  CASE req.to = "spaces" -> Refusals({"401", "403", "429", "redirects", "cancelled", "toolarge"})
               \cup Bodies([is : {"junk"}] \cup [is : {"spaces"}, accounts : {<<>>, <<A(FALSE, two)>>, <<A(TRUE, two), A(FALSE, <<>>)>>, <<A(TRUE, two), A(TRUE, two)>>,
                      <<A(TRUE, <<>>)>>, <<A(TRUE, <<S("", "plus", TRUE)>>)>>, <<A(TRUE, <<S("A-1", "plus", FALSE)>>)>>, <<A(TRUE, <<S("A-1", "plus", TRUE)>>)>>}])
          [] req.to = "allowance" -> Refusals({"401", "500", "204", "timeout", "cancelled"})
               \cup Bodies([is : {"junk"}] \cup [is : {"status"}, status : {"ok", "not_applicable"}, window : {None}, billing : {None}, resets : {None}]
                           \cup [is : {"status"}, status : {"ok"}, resets : {None, Some(-1), Some(30)}, billing : {None, Some(W(Some(30), Some(20)))},
                                 window : {Some(W(None, Some(5))), Some(W(Some(3), Some(0))), Some(W(Some(-3), Some(5))), Some(W(Some(3), Some(5)))}])

----------------------------------------------------------------------------
Fetch == CASE setup.provider = "zoommate" -> ZoomFetch [] setup.provider = "qoder" -> QoderFetch
           [] setup.provider = "devin" -> DevinFetch [] setup.provider = "stepfun" -> StepFetch
           [] setup.provider = "mimo" -> MimoFetch [] setup.provider = "notion" -> NotionFetch
Replies(req) == CASE setup.provider = "zoommate" -> ZoomReplies(req) [] setup.provider = "qoder" -> QoderReplies(req)
             [] setup.provider = "devin" -> DevinReplies(req) [] setup.provider = "stepfun" -> StepReplies(req)
             [] setup.provider = "mimo" -> MimoReplies(req) [] setup.provider = "notion" -> NotionReplies(req)
Setups == ZoomSetups \cup QoderSetups \cup DevinSetups \cup StepSetups \cup MimoSetups \cup NotionSetups

Init == Start(Setups)
Next == Advance(Fetch, Replies)
Spec == Init /\ [][Next]_vars

----------------------------------------------------------------------------
(* The user is asked to sign in only after a refusal, or before anything    *)
(* was sent because what the browser or the user gave holds no session; a   *)
(* credential is called missing only then.                                  *)
SaysLogin(r) ==
    \/ r.code \in {"401", "403"}
    \/ setup.provider = "mimo" /\ (r.code = "302" \/ (r.code = "200" /\ r.body.is = "balance" /\ r.body.code \in {401, 403}))
    \/ setup.provider = "stepfun" /\
         \/ r.code = "204"
         \/ r.code = "200" /\ LET b == r.body IN
              CASE b.is = "page" -> b.ingress # "set" [] b.is = "redirect" -> b.ingress = "bad" [] b.is = "tokens" -> b.access # "good"
                [] b.is = "usage" -> b.status # 1 /\ StepRefused(b) [] OTHER -> FALSE
LoginOnlyWhenRefused ==
    /\ FailedWith({"AuthenticationExpired"}) => log = <<>> \/ \E i \in DOMAIN log : SaysLogin(log[i].reply)
    /\ FailedWith({"MissingCredential"}) => log = <<>> \/ Saw({"no file"})

(* Usage that was answered is shown, whatever the sites and sessions before *)
(* it or the history after it said; only a cancellation hides it.           *)
HoldsUsage(b) ==
    CASE setup.provider = "zoommate" -> b.is = "status" /\ b.credit = "ok"
      [] setup.provider = "qoder" -> QoderUsage(b).is = "ok"
      [] setup.provider = "devin" -> DevinQuota(b).is = "ok"
      [] setup.provider = "stepfun" -> b.is = "usage" /\ StepParse(b).is = "ok"
      [] setup.provider = "mimo" -> IF b.is = "balance" THEN MimoBalance(b).is = "ok" ELSE MimoLocalUsage(b).is = "ok"
      [] setup.provider = "notion" -> b.is = "status" /\ NotionStatus(b).is = "ok" /\ b.status # "not_applicable"

(* Pages stay bounded; a pasted cookie goes to the host it was copied from  *)
(* only, and a token that was refused is not kept for the next fetch.       *)
RequestsStayInBounds ==
    /\ setup.provider = "zoommate" =>
         /\ Cardinality({i \in DOMAIN log : log[i].req.to = "history"}) <= 2 * ZoomMaxPages
         /\ setup.source = "ManualCookie" => \A i \in DOMAIN log : log[i].req.cookie => log[i].req.host = setup.url
         /\ setup.source = "BrowserSession" /\ ZoomBrowser.is = "ok" =>
              \A k \in DOMAIN ZoomBrowser.value.sessions : LET s == ZoomBrowser.value.sessions[k] IN
                (\E i \in DOMAIN log : log[i].req.session = s.id /\ log[i].reply.code \in {"401", "403"}) => ~ZoomCached(s)
    /\ setup.provider = "stepfun" => Len(log) <= 2 * (StepMaxRedirects + 3) + 5
    /\ setup.provider = "stepfun" /\ Returned => Answered(StepPost("usage", StepKept), "200")
    /\ setup.provider = "qoder" /\ setup.source = "ManualCookie" /\ setup.paste.is \in {"curl", "http"} =>
         \A i \in DOMAIN log : \A h \in DOMAIN setup.paste.hosts : setup.paste.hosts[h] = log[i].req.site

=============================================================================
