--------------------------------- MODULE MiniMax ---------------------------------
(****************************************************************************)
(* The MiniMax adapter (providers/minimax.rs): the endpoint overrides of    *)
(* the environment, the three ways to a credential, the two regions and two *)
(* endpoints of the API key, and the web session: the coding plan page, the *)
(* remains endpoints, and the optional subscription and billing requests.   *)
(* Percentages are whole numbers, the fetch is at time 0, times are hours   *)
(* from it, and a day is counted back from today.                           *)
(****************************************************************************)
EXTENDS ProviderFetch, SequencesExt

CONSTANTS
    MaxBillingPages,  \* MAX_BILLING_PAGES
    MaxBillingRecords \* MAX_BILLING_RECORDS

Routes == {"coding", "platform", "web", "billing", "combo"}
(* has_required_cookie: the routes of which one must have a cookie.         *)
Required == {"coding", "platform", "web"}

----------------------------------------------------------------------------
(* Configuration.                                                           *)

\* Mutant: strictness is forgotten.
ConfiguredLoosely(v, strict) ==
    IF v = "insecure" THEN Err("Api") ELSE Ok(v)

(* configured_environment_url: https without credentials or fragment, and a *)
(* MiniMax host when strict.                                                *)
Configured(v, strict) ==
    IF v = "insecure" \/ (strict /\ v = "foreign") THEN Err("Api") ELSE Ok(v)

(* The first override that is set, else the region's own origin.            *)
Pick(overrides, default) ==
    LET set == SelectSeq(overrides, LAMBDA v : v # "none")
    IN  IF set = <<>> THEN default ELSE Head(set)

(* apply_environment: every override is checked before any is applied.      *)
ApplyEnvironment ==
    LET e == setup.env IN
    IF \E v \in {e.host, e.coding, e.remains, e.billing} : Configured(v, e.strict).is = "err"
    THEN Err("Api")
    ELSE Ok([coding   |-> Pick(<<e.coding, e.host>>, "own"),
             platform |-> Pick(<<e.remains, e.host>>, "own"),
             web      |-> Pick(<<e.remains, e.host>>, "own"),
             billing  |-> Pick(<<e.billing, e.host>>, "own"),
             combo    |-> Pick(<<e.host>>, "own"),
             fallback |-> e.host = "none" /\ e.remains = "none"])

----------------------------------------------------------------------------
(* Credentials.                                                             *)

(* from_api_environment_routes and normalize_coding_api_key: the first name *)
(* that is set decides, also when its key is one of the platform API.       *)
ApiKey ==
    LET set == SelectSeq(setup.raws, LAMBDA r : r # "blank")
    IN  IF set = <<>> \/ Head(set) = "sk-api" THEN Err("MissingCredential") ELSE Ok(Head(set))

(* from_manual_environment and parse_manual_session: the first capture that *)
(* parses, with its cookie for every route.                                 *)
ManualSessions ==
    LET set == SelectSeq(setup.raws, LAMBDA r : r \notin {"blank", "bad"})
    IN  IF set = <<>> THEN Err("MissingCredential")
        ELSE Ok(<<[cookies |-> Routes, group |-> setup.group, browser |-> FALSE, hertz |-> "none",
                   tokens |-> IF Head(set) = "bearer" THEN <<"t1">> ELSE <<>>]>>)

(* collect_local_storage: the tokens of the known origins, else of entries  *)
(* that mention the site, else, when it was seen at all, any candidate.     *)
LocalStorage(l) ==
    IF l.tokens # <<>> THEN l.tokens
    ELSE IF l.mentioned # <<>> THEN l.mentioned
    ELSE IF l.seen THEN l.candidates ELSE <<>>

(* collect_session_storage: only maps of the site's namespaces.             *)
SessionStorage(s) == IF s.namespaced THEN s.tokens ELSE <<>>

(* collect_indexed_db.                                                      *)
IndexedDb(i) == IF i.tokens # <<>> THEN i.tokens ELSE i.candidates

(* deduplicate_storage: the first of equal tokens is kept.                  *)
Deduplicate(tokens) ==
    LET first == {i \in DOMAIN tokens : \A j \in 1..(i - 1) : tokens[j] # tokens[i]}
    IN  [k \in 1..Cardinality(first) |-> tokens[SetToSortSeq(first, <)[k]]]

(* read_profile_storage: session storage only without local tokens, and     *)
(* IndexedDB only without either.                                           *)
StorageTokens(p) ==
    LET local == LocalStorage(p.local)
        session == SessionStorage(p.session)
    IN  Deduplicate(IF local # <<>> THEN local
                    ELSE IF session # <<>> THEN session ELSE IndexedDb(p.indexed))

(* browser_sessions: a profile counts when a required cookie was found.     *)
BrowserSessions ==
    LET usable == SelectSeq(setup.profiles, LAMBDA p : p.readable /\ p.cookies \cap Required # {})
        Session(p) == [cookies |-> p.cookies, group |-> p.group, browser |-> TRUE, hertz |-> p.hertz,
                       tokens |-> StorageTokens(p)]
    IN  IF usable = <<>>
        THEN Err(IF setup.profiles = <<>> THEN "MissingCredential" ELSE "AuthenticationExpired")
        ELSE Ok([i \in DOMAIN usable |-> Session(usable[i])])

(* bearer_attempts: a browser session is also tried with the token of its   *)
(* HERTZ-SESSION cookie, and without one.                                   *)
BearerAttempts(s) ==
    LET cookie == IF s.hertz \in {"none"} \cup Range(s.tokens) THEN <<>> ELSE <<s.hertz>>
    IN
    IF s.browser THEN s.tokens \o cookie \o <<"none">>
    ELSE IF s.tokens = <<>> THEN <<"none">> ELSE <<Head(s.tokens)>>

----------------------------------------------------------------------------
(* Parsing.                                                                 *)

RatioPercent(n, d) == IF d > 0 THEN Some(Clamp((100 * n) \div d, 0, 100)) ELSE None


QuotaPercent(total, left, percent) ==
    IF percent # None THEN Some(Clamp(100 - percent[1], 0, 100))
    ELSE IF total = None \/ left = None THEN None
    ELSE RatioPercent(IF total[1] > left[1] THEN total[1] - left[1] ELSE 0, total[1])

(* reset_timestamp: the end when it is ahead, else the time that remains.   *)
Reset(q) ==
    IF q.end # None /\ q.end[1] > 0 THEN q.end
    ELSE IF q.remains # None /\ q.remains[1] > 0 THEN q.remains ELSE None

(* make_service: none for a quota that is unavailable or has no total.      *)
MakeService(text, weekly, q) ==
    LET full == q.percent # None /\ q.percent[1] >= 100
        unlimited == q.stopped /\ weekly /\ text /\ full
        unavailable == ~unlimited /\ q.stopped /\ q.total \in {None, Some(0)}
                       /\ q.left \in {None, Some(0)} /\ full
        percent == QuotaPercent(q.total, q.left, q.percent)
        Service(used, reset) ==
            [percent |-> used, reset |-> reset, weekly |-> weekly, text |-> text, quota |-> q]
    IN  IF unlimited THEN <<Service(0, None)>>
        ELSE IF unavailable \/ percent = None THEN <<>>
        ELSE <<Service(percent[1], Reset(q))>>

(* validate_base_response.                                                  *)
BaseResponse(status) ==
    CASE status = "ok" -> Ok(status)
      [] status = "login" -> Err("AuthenticationExpired")
      [] OTHER -> Err("Api")

(* The services of every named model; text models have a weekly one too.    *)
ModelServices(models) ==
    FlattenSeq([i \in DOMAIN models |->
        MakeService(models[i].text, FALSE, models[i].interval)
        \o IF models[i].text THEN MakeService(TRUE, TRUE, models[i].weekly) ELSE <<>>])

(* The next time the clock shows an hour of today, this minute included.    *)
NextTime(hour) == IF hour < 0 THEN hour + 24 ELSE hour

(* parse_time_range_reset: the end of a "today" range as it is given, past  *)
(* or not; of an hourly one the next time the clock shows it.               *)
TimeRangeReset(range) ==
    CASE range.end = None \/ range.window = "other" -> None
      [] range.window = "today" -> range.end
      [] range.window = "hours" -> Some(NextTime(range.end[1]))

(* parse_multi_service: the listed services that have a limit.              *)
MultiServices(listed) ==
    LET limited == SelectSeq(listed, LAMBDA q : q.total[1] > 0)
        Used(q) == IF q.percent # None THEN Clamp(q.percent[1], 0, 100)
                   ELSE RatioPercent(q.left[1], q.total[1])[1]
    IN  [i \in DOMAIN limited |->
           [percent |-> Used(limited[i]), reset |-> TimeRangeReset(limited[i].range), weekly |-> FALSE, text |-> FALSE,
            quota |-> limited[i]]]

(* parse_usage_payload: listed services first, then the models' remains.    *)
ParsePayload(body) ==
    IF body.is # "payload" THEN Err("Parse")
    ELSE Then(BaseResponse(body.status), LAMBDA s :
         IF MultiServices(body.listed) # <<>>
         THEN Ok([services |-> MultiServices(body.listed), plan |-> body.plan, used |-> None, reset |-> None, billing |-> None])
         ELSE IF body.models = <<>> THEN Err("Parse")
         ELSE LET q == body.models[1].interval IN
              Ok([services |-> ModelServices(body.models), plan |-> body.plan,
                  used |-> QuotaPercent(q.total, q.left, q.percent), reset |-> Reset(q), billing |-> None]))

(* parse_available_usage, parse_used_percent, parse_html_plan: what the     *)
(* visible text of a page shows.                                            *)
Shows(body) == body.used # None \/ body.plan # "none"

(* parse_html_reset: "resets in" a number of hours, which is not checked,   *)
(* or "resets at" the next time the clock shows it.                         *)
HtmlReset(body) ==
    CASE body.resets = None -> None
      [] body.resets # None /\ body.resets[1].is = "in" -> Some(body.resets[1].hours)
      [] OTHER -> Some(NextTime(body.resets[1].hours))

(* parse_usage_html: the embedded payload first, then a sign-in page, then  *)
(* whatever the text shows; a page that shows nothing is not understood.    *)
ParsePage(body) ==
    IF body.is = "payload" THEN ParsePayload(body)
    ELSE IF body.is = "signin" THEN Err("AuthenticationExpired")
    ELSE IF body.is = "plain" /\ Shows(body)
    THEN Ok([services |-> <<>>, plan |-> body.plan, used |-> body.used, reset |-> HtmlReset(body), billing |-> None])
    ELSE Err("Parse")

(* best_plan_name: the name of the best rank, the shortest of those.        *)
BestPlanName(names) ==
    IF names = {} THEN "none"
    ELSE (CHOOSE n \in names : \A m \in names :
            n.rank < m.rank \/ (n.rank = m.rank /\ n.length <= m.length)).name

(* parse_subscription_metadata: names of the current subscription first;    *)
(* metadata that says nothing is not understood.                            *)
ParseSubscription(body) ==
    IF body.is # "metadata" \/ (body.current \cup body.others = {} /\ body.renews = None)
    THEN Err("Parse")
    ELSE Ok([plan |-> IF body.current # {} THEN BestPlanName(body.current)
                      ELSE BestPlanName(body.others)])

(* merge_subscription.                                                      *)
MergeSubscription(snapshot, m) ==
    IF m.plan = "none" THEN snapshot ELSE [snapshot EXCEPT !.plan = m.plan]

(* parse_billing_record: the direct count, else input and output; a         *)
(* negative charge spoils the page.                                         *)
RecordTokens(r) == IF r.direct > 0 THEN r.direct ELSE r.input + r.output
ParseBilling(body) ==
    IF body.is = "page" /\ \A i \in DOMAIN body.records : body.records[i].cash >= 0
    THEN Ok(body) ELSE Err("Parse")

(* cutoff_day: thirty days, today included.                                 *)
CutoffDay == -29

(* aggregate_billing, the filter: successful records of the last days.      *)
Counted(r) == r.ok /\ r.day >= CutoffDay /\ r.day <= 0

(* aggregate_billing.                                                       *)
Aggregate(records, covered) ==
    LET Tokens(keep(_)) ==
            FoldLeft(LAMBDA sum, r : sum + (IF Counted(r) /\ keep(r) THEN RecordTokens(r) ELSE 0),
                     0, records)
    IN  [month |-> Tokens(LAMBDA r : TRUE), today |-> Tokens(LAMBDA r : r.day = 0),
         covered |-> covered]

----------------------------------------------------------------------------
(* Requests. An attempt is named by its session and its bearer.             *)

Request(to, origin, attempt) == [to |-> to, origin |-> origin, attempt |-> attempt]

(* classify_web_transport.                                                  *)
WebKind(code) == IF code \in {"401", "403"} THEN "AuthenticationExpired" ELSE Classified(code)

(* The token was cancelled while an attempt made one of these requests.     *)
CancelledIn(at, stages) ==
    \E i \in DOMAIN log : log[i].cut /\ log[i].req.to \in stages /\ SubSeq(log[i].req.attempt, 1, 2) = at

WebFallback(code) == code \in {"network", "timeout", "toolarge", "broken", "404"}

(* fetch_coding_plan.                                                       *)
CodingPlan(routes, at) ==
    Then(Sent(Request("coding", routes.coding, at), WebKind), ParsePage)

(* fetch_web_remains, the loop: the second candidate is tried when the      *)
(* first is absent, did not parse, or failed in transit.                    *)
RemainsFrom(req, next) ==
    LET sent == Sent(req, WebKind) IN
    IF sent.is = "err"
    THEN IF WebFallback(ReplyTo(req).code) /\ ~CancelledBy(req) /\ next # None THEN next[1] ELSE sent
    ELSE Then(sent, LAMBDA b : OrElse(ParsePayload(b), LAMBDA e :
         IF e.kind # "AuthenticationExpired" /\ next # None THEN next[1] ELSE e))

WebRemains(routes, s, at) ==
    LET platform == Request("platform", routes.platform, at)
        web == Request("web", routes.web, at)
        second == IF routes.fallback /\ "web" \in s.cookies THEN Some(RemainsFrom(web, None)) ELSE None
    IN  IF "platform" \in s.cookies THEN RemainsFrom(platform, second)
        ELSE IF second # None THEN second[1] ELSE Err("MissingCredential")

(* fetch_subscription_metadata.                                             *)
Subscription(routes, s, at) ==
    IF "combo" \notin s.cookies THEN Err("MissingCredential")
    ELSE Then(Sent(Request("combo", routes.combo, at), WebKind),
              ParseSubscription)

(* fetch_billing: pages until one is empty, holds an old record or reaches  *)
(* the total; at the page limit the coverage is not established.            *)
BillingPage(r, p, total) ==
    LET records == r.records \o p.records
        old == \E i \in DOMAIN p.records : p.records[i].day < CutoffDay
    IN  IF Len(records) > MaxBillingRecords THEN Err("Parse")
        ELSE Ok([records |-> records, total |-> total,
                 covered |-> p.records = <<>> \/ old \/ (total # None /\ Len(records) >= total[1])])
Billing(routes, s, at) ==
    LET Read[n \in 0..MaxBillingPages] ==
          IF n = 0 THEN Ok([records |-> <<>>, total |-> None, covered |-> FALSE])
          ELSE Then(Read[n - 1], LAMBDA r :
               IF r.covered THEN Ok(r)
               ELSE Then(Then(Sent(Request("billing", routes.billing, at \o <<n>>), WebKind), ParseBilling), LAMBDA p :
                    BillingPage(r, p, FirstOf(<<p.total, r.total>>))))
    IN  IF "billing" \notin s.cookies THEN Err("MissingCredential")
        ELSE Then(Read[MaxBillingPages], LAMBDA r : Ok(Aggregate(r.records, r.covered)))


WithSubscription(snapshot, routes, s, at) ==
    IF ~s.group THEN Ok(snapshot)
    ELSE LET p == Subscription(routes, s, at) IN
         IF p.is = "err" THEN IF CancelledIn(at, Routes \ {"billing"}) THEN p ELSE Ok(snapshot)
         ELSE Then(p, LAMBDA m : Ok(MergeSubscription(snapshot, m)))

WithBilling(snapshot, routes, s, at) ==
    IF ~setup.billing THEN Ok(snapshot)
    ELSE LET p == Billing(routes, s, at)
             fatal == CancelledIn(at, Routes) \/ (at[2] # "none" /\ p.is = "err" /\ p.kind = "AuthenticationExpired")
         IN  IF p.is = "ask" \/ (p.is = "err" /\ fatal) THEN p
             ELSE IF p.is = "err" THEN Ok(snapshot)
             ELSE Ok([snapshot EXCEPT !.billing = Some(p.value)])

(* fetch_web_attempt: the page, or the page completed by the remains, or    *)
(* the remains alone; then the optional requests.                           *)
Completed(page, remains, at) ==
    IF remains.is = "ok"
    THEN Ok(IF remains.value.plan = "none" THEN [remains.value EXCEPT !.plan = page.value.plan] ELSE remains.value)
    ELSE IF remains.kind # "AuthenticationExpired" /\ ~CancelledIn(at, {"coding", "platform", "web"})
    THEN page ELSE remains
WebUsage(routes, s, at) ==
    Settled(IF "coding" \in s.cookies THEN CodingPlan(routes, at) ELSE Err("Parse"), LAMBDA page :
        IF (page.is = "ok" /\ page.value.services # <<>>) \/ (page.is = "err" /\ page.kind # "Parse") THEN page
        ELSE Settled(WebRemains(routes, s, at), LAMBDA remains :
             IF page.is = "ok" THEN Completed(page, remains, at) ELSE remains))
WebAttempt(routes, s, at) ==
    Then(WebUsage(routes, s, at), LAMBDA u : Then(WithSubscription(u, routes, s, at),
         LAMBDA v : WithBilling(v, routes, s, at)))

(* fetch_web: every session with every bearer, until one works; a failure   *)
(* that is neither a refusal nor a format stops it.                         *)
WebAttempts(sessions) ==
    LET tried == IF sessions[1].browser THEN sessions ELSE <<sessions[1]>>
        Of(i) == LET bs == BearerAttempts(tried[i]) IN [j \in DOMAIN bs |-> <<i, bs[j]>>]
    IN  FlattenSeq([i \in DOMAIN tried |-> Of(i)])

WebFrom(routes, sessions, attempts) ==
    LET From[k \in DOMAIN attempts] ==
          Settled(WebAttempt(routes, sessions[attempts[k][1]], attempts[k]), LAMBDA p :
              IF p.is = "err" /\ p.kind \in {"AuthenticationExpired", "Parse"}
                 /\ ~CancelledIn(attempts[k], Routes) /\ k < Len(attempts)
              THEN From[k + 1] ELSE p)
    IN  From[1]
FetchWeb(sessions) ==
    Then(ApplyEnvironment, LAMBDA routes : WebFrom(routes, sessions, WebAttempts(sessions)))

(* api_attempt_transport and fetch_api_endpoint: an error with whether the  *)
(* next endpoint may be tried and whether the key was refused.              *)
Failure(kind, fallback, credential) ==
    [is |-> "err", kind |-> kind, fallback |-> fallback, credential |-> credential]

ApiTransport(code) ==
    CASE code \in {"401", "403"} -> Failure("AuthenticationExpired", TRUE, TRUE)
      [] code \in {"404", "network", "timeout", "toolarge", "broken"} ->
           Failure(Classified(code), TRUE, FALSE)
      [] OTHER -> Failure(Classified(code), FALSE, FALSE)

ApiEndpoint(region, to) ==
    LET req == Request(to, region, <<1, "key">>)
    IN  IF ~Asked(req) THEN Ask(req)
        ELSE IF ReplyTo(req).code # "200" THEN ApiTransport(ReplyTo(req).code)
        ELSE OrElse(ParsePayload(ReplyTo(req).body), LAMBDA e : Failure(e.kind, TRUE, e.kind = "AuthenticationExpired"))

(* fetch_api_region.                                                        *)
ApiRegion(region) ==
    OrElse(ApiEndpoint(region, "token_plan"), LAMBDA first :
        IF ~first.fallback THEN first
        ELSE OrElse(ApiEndpoint(region, "legacy"), LAMBDA second :
             IF first.credential THEN Failure("AuthenticationExpired", TRUE, TRUE) ELSE second))

\* Mutant: any failure of the first region goes to the other.
FetchApiAnyRegion ==
    LET first == ApiRegion(setup.region) IN
    IF first.is = "err" /\ setup.region = "Global"
    THEN OrElse(ApiRegion("China"), LAMBDA e : Err("AuthenticationExpired"))
    ELSE first

(* fetch_api: a key the global region refuses may be one of the other; what *)
(* fails there is reported as the refusal it is.                            *)
FetchApi ==
    OrElse(ApiRegion(setup.region), LAMBDA first :
        IF first.credential /\ setup.region = "Global"
        THEN OrElse(ApiRegion("China"), LAMBDA e : Err("AuthenticationExpired"))
        ELSE first)

(* ordered_services: text before the rest, weekly last, else as listed.     *)
OrderedServices(services) ==
    LET Key(s) == (IF s.text THEN 0 ELSE 2) + (IF s.weekly THEN 1 ELSE 0)
        Part(k) == SelectSeq(services, LAMBDA s : Key(s) = k)
    IN  Part(0) \o Part(1) \o Part(2) \o Part(3)

(* MiniMaxSnapshot::normalize: one window per service, else a single one of *)
(* the overall percentage, 0 when that is unknown.                          *)
Normalize(snapshot) ==
    Ok([plan |-> snapshot.plan, billing |-> snapshot.billing,
        windows |-> IF snapshot.services # <<>> THEN OrderedServices(snapshot.services)
                    ELSE <<[percent |-> IF snapshot.used = None THEN 0
                                        ELSE Clamp(snapshot.used[1], 0, 100),
                            reset |-> snapshot.reset, text |-> FALSE, weekly |-> FALSE,
                            quota |-> [left |-> Some(0), percent |-> None]]>>])

(* fetch_at.                                                                *)
Snapshot ==
    CASE setup.source = "ApiKey" -> Then(ApiKey, LAMBDA key : FetchApi)
      [] setup.source = "ManualCookie" -> Then(ManualSessions, FetchWeb)
      [] setup.source = "BrowserSession" -> Then(BrowserSessions, FetchWeb)
Fetch == Then(Snapshot, Normalize)

----------------------------------------------------------------------------
(* The instances: what the environment holds and what the services answer.  *)

Quota(percent, total, left, stopped, end) ==
    [percent |-> percent, total |-> total, left |-> left, stopped |-> stopped,
     end |-> end, remains |-> Some(3)]
Quotas == {Quota(Some(p), None, None, s, Some(-5)) : p \in {-10, 40, 120}, s \in BOOLEAN}
          \cup {Quota(None, Some(t), Some(l), FALSE, Some(7)) : t \in {0, 10}, l \in {-5, 3, 20}}
Model(text, i, w) == [text |-> text, interval |-> i, weekly |-> w]
Payload(status, models, plan) ==
    [is |-> "payload", status |-> status, models |-> models, plan |-> plan, listed |-> <<>>]

Half == Quota(Some(50), None, None, FALSE, None)
Usable(plan) == Payload("ok", <<Model(FALSE, Half, Half)>>, plan)
Listed(total, window, end) ==
    [Payload("ok", <<>>, "none") EXCEPT !.listed =
        <<Quota(None, Some(total), Some(5), FALSE, None) @@ [range |-> [window |-> window, end |-> end]]>>]
Plain(used, resets) == [is |-> "plain", used |-> used, plan |-> "none", resets |-> resets]
Plan(name, rank) == [name |-> name, rank |-> rank, length |-> 4]
Metadata(current, others) == [is |-> "metadata", current |-> current, others |-> others, renews |-> None]
Record(day, ok, direct) == [day |-> day, ok |-> ok, direct |-> direct, input |-> 2, output |-> 1, cash |-> 0]
Page(records, total) == [is |-> "page", records |-> records, total |-> total]
Junk == [is |-> "junk"]

NoOverrides == [strict |-> FALSE, host |-> "none", coding |-> "none", remains |-> "none", billing |-> "none"]
Profile(readable, cookies, hertz, group, l, s, i) ==
    [readable |-> readable, cookies |-> cookies, hertz |-> hertz, group |-> group,
     local |-> [tokens |-> <<>>, mentioned |-> <<>>, seen |-> l # <<>>, candidates |-> l],
     session |-> [namespaced |-> TRUE, tokens |-> s],
     indexed |-> [tokens |-> <<>>, candidates |-> i]]
Base == [source |-> "ApiKey", region |-> "Global", env |-> NoOverrides, raws |-> <<>>,
         profiles |-> <<>>, group |-> FALSE, billing |-> FALSE]

Setups ==
    {[Base EXCEPT !.region = r, !.raws = <<a, b>>] :
        r \in {"Global", "China"}, a \in {"blank", "plan", "sk-api"}, b \in {"blank", "plan"}}
    \cup {[Base EXCEPT !.source = "ManualCookie", !.raws = <<"bad", "bearer">>, !.env =
             [strict |-> s, host |-> h, coding |-> c, remains |-> r, billing |-> "none"]] :
            s \in BOOLEAN, h \in {"none", "foreign"}, c \in {"none", "owned", "foreign"},
            r \in {"none", "owned", "insecure"}}
    \cup {[Base EXCEPT !.source = "ManualCookie", !.raws = <<"bad", r>>, !.group = g, !.billing = b] :
            r \in {"bad", "cookie", "bearer"}, g \in BOOLEAN, b \in BOOLEAN}
    \cup {[Base EXCEPT !.source = "BrowserSession", !.profiles = ps] :
            ps \in {<<>>, <<Profile(FALSE, Routes, "none", FALSE, <<>>, <<>>, <<>>)>>,
                    <<Profile(TRUE, {"billing", "combo"}, "none", TRUE, <<>>, <<>>, <<>>)>>,
                    <<Profile(TRUE, {"coding"}, "t3", FALSE, <<>>, <<>>, <<>>)>>,
                    <<Profile(TRUE, {"web", "combo"}, "t2", TRUE, <<>>, <<"t2", "t2">>, <<"t1">>),
                      Profile(TRUE, Routes, "none", FALSE, <<>>, <<>>, <<>>)>>}}

Codes == {"401", "404", "500", "cancelled"}
Replies(req) ==
    Refusals(Codes) \cup Bodies(
      CASE setup.source = "ApiKey" ->
             {Junk, Payload("login", <<>>, "none"), Payload("busy", <<>>, "none"), Listed(0, "other", None), Listed(2, "other", Some(2))}
             \cup {Listed(2, w, Some(e)) : w \in {"today", "hours"}, e \in {-4, 0, 5}}
             \cup {Payload("ok", <<Model(TRUE, q, q)>>, "none") : q \in Quotas}
        [] req.to = "coding" -> {Junk, [is |-> "signin"], Usable("none"),
                                 Plain(None, None), Plain(Some(30), None), Plain(Some(30), Some([is |-> "in", hours |-> -1])),
                                 Plain(Some(30), Some([is |-> "at", hours |-> -4]))}
        [] req.to \in {"platform", "web"} -> {Junk, Payload("login", <<>>, "none"), Usable("none"), Usable("pro")}
        [] req.to = "combo" -> {Metadata({}, {}), Metadata({}, {Plan("max", 1), Plan("plus", 0)})}
        [] req.to = "billing" -> {Junk, Page(<<>>, None), Page(<<Record(0, TRUE, 5), Record(-29, TRUE, 0)>>, Some(4)),
                                  Page(<<Record(-3, FALSE, 5), Record(-1, TRUE, 1), Record(-30, TRUE, 5)>>, None)})

Init == Start(Setups)
Next == Advance(Fetch, Replies)
Spec == Init /\ [][Next]_vars

----------------------------------------------------------------------------
(* A service says that the credential is no good.                           *)
Refused(e) ==
    \/ e.reply.code \in {"401", "403"}
    \/ e.reply.body.is = "signin"
    \/ e.reply.body.is = "payload" /\ e.reply.body.status = "login"
(* An answer of a usage endpoint, or a coding plan page, that has usage.    *)
Usage(e) == e.req.to \in {"token_plan", "legacy", "platform", "web"}
            /\ e.reply.body.is = "payload" /\ e.reply.body.status = "ok"
            /\ \/ e.reply.body.models # <<>>
               \/ \E i \in DOMAIN e.reply.body.listed : e.reply.body.listed[i].total[1] > 0
PageUsage(e) == e.req.to = "coding" /\ e.reply.code = "200" /\ ParsePage(e.reply.body).is = "ok"
SameAttempt(d, e) == SubSeq(d.req.attempt, 1, 2) = SubSeq(e.req.attempt, 1, 2)
(* The session of the last request has a page that was not understood, and  *)
(* no cookie for an endpoint that could be asked instead.                   *)
NoOtherRoute ==
    LET e == log[Len(log)] IN
    /\ setup.source = "BrowserSession" /\ log # <<>> /\ e.req.to = "coding" /\ e.reply.body.is \in {"junk", "plain"}
    /\ BrowserSessions.value[e.req.attempt[1]].cookies \cap {"platform", "web"} = {}

(* The user is told to sign in again only when a service refused the        *)
(* credential, or no browser profile held one; and that there is none only  *)
(* when nothing was sent, or when the page of a session could not be read   *)
(* and the session has no cookie for any other route (fetch_api, fetch_web, *)
(* fetch_web_remains, browser_sessions).                                    *)
AuthenticationMeansRefused ==
    /\ FailedWith({"AuthenticationExpired"}) => log = <<>> \/ \E i \in DOMAIN log : Refused(log[i])
    /\ FailedWith({"MissingCredential"}) => log = <<>> \/ NoOtherRoute


(* No usage endpoint is asked once another answered with usage in the same  *)
(* attempt: the first usable route wins (fetch_api_region,                  *)
(* fetch_web_remains).                                                      *)
FirstUsableWins ==
    \A i, j \in DOMAIN log :
        i < j /\ Usage(log[i]) /\ log[j].req.attempt = log[i].req.attempt
        => log[j].req.to \in {"combo", "billing"}

(* With strict overrides no cookie or token goes to a host that is not      *)
(* MiniMax's, whatever combination of overrides is set (apply_environment). *)
StrictStaysOwned ==
    setup.env.strict => \A i \in DOMAIN log : log[i].req.origin # "foreign"

(* Every quota shown is a percentage, and one shown as used up has nothing  *)
(* left (make_service, quota_percent).                                      *)
QuotaInRange ==
    Returned => \A i \in DOMAIN verdict.value.windows :
        LET s == verdict.value.windows[i] IN
        /\ s.percent \in 0..100
        /\ s.percent = 100 /\ s.text => \E l \in {s.quota.percent, s.quota.left} : l # None /\ l[1] <= 0

(* A reset that has passed is shown only when the service stated it so: a   *)
(* "today" range that is over, or a page that resets in a negative number   *)
(* of hours. No other window promises one, whatever end, remaining time or  *)
(* hour of the day it was given (reset_timestamp, parse_time_range_reset,   *)
(* parse_html_reset).                                                       *)
StatesPast(b, t) ==
    \/ b.is = "payload" /\ \E i \in DOMAIN b.listed : b.listed[i].range = [window |-> "today", end |-> Some(t)]
    \/ b.is = "plain" /\ b.resets = Some([is |-> "in", hours |-> t])
ResetsAhead ==
    Returned => \A i \in DOMAIN verdict.value.windows :
        LET reset == verdict.value.windows[i].reset IN
        reset # None => reset[1] >= 0 \/ \E k \in DOMAIN log : StatesPast(log[k].reply.body, reset[1])

(* The month's tokens are those of every successful record of the last      *)
(* thirty days on the pages read, each counted once, and the coverage is    *)
(* claimed only when no page was left (fetch_billing, aggregate_billing).   *)
BillingCountsEachRecord ==
    Returned /\ verdict.value.billing # None =>
        LET at == Head(log[Len(log)].req.attempt)
            pages == {i \in DOMAIN log : log[i].req.to = "billing" /\ Head(log[i].req.attempt) = at}
            rows == UNION {{<<i, k>> : k \in DOMAIN log[i].reply.body.records} : i \in pages}
            month == {x \in rows : LET r == log[x[1]].reply.body.records[x[2]]
                                   IN  r.ok /\ r.day > -30}
            Tokens(x) == LET r == log[x[1]].reply.body.records[x[2]]
                         IN  IF r.direct > 0 THEN r.direct ELSE r.input + r.output
        IN  /\ verdict.value.billing[1].month = MapThenSumSet(Tokens, month)
            /\ verdict.value.billing[1].covered \/ Cardinality(pages) = MaxBillingPages
=============================================================================
