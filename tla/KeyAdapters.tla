------------------------------- MODULE KeyAdapters -------------------------------
(****************************************************************************)
(* Adapters that are signed in with a key or a token of the environment, a  *)
(* file or a command line tool: Z.ai (zai.rs), OpenRouter (openrouter.rs),  *)
(* Doubao (doubao.rs), Bedrock (bedrock.rs) and Vertex AI (vertexai.rs).    *)
(* Each is a program of ProviderFetch; setup.provider says which one runs.  *)
(****************************************************************************)
EXTENDS ProviderFetch, SequencesExt, TLC

CONSTANTS
    ZaiMaxInteger,     \* i64::MAX, for window lengths and token totals
    ZaiMaxRows,        \* the rows a detail section may have
    ZaiMaxPoints,      \* MAX_MODEL_POINTS
    OrMaxInteger,      \* MAX_SAFE_INTEGER
    OrMaxRows,         \* MAX_ACTIVITY_ROWS
    OrMaxDistinct,     \* MAX_DISTINCT_ACTIVITY_ROWS
    OrHistoryDays,     \* HISTORY_DAYS of openrouter.rs
    DoubaoMaxQuotas,   \* MAX_QUOTAS, and MAX_ITEMS and MAX_PERIODS_PER_ITEM
    DoubaoMillis,      \* where a number is too large to be seconds
    DoubaoMaxTime,     \* the last second there is
    BedrockMaxVariables, \* MAX_CLI_ENVIRONMENT_VALUES
    BedrockMaxPages,   \* MAX_PAGES of bedrock.rs
    BedrockMaxGroups,  \* MAX_GROUPS_PER_RESULT, and MAX_RESULTS_PER_PAGE
    BedrockMonthHours, \* the local hour the next month begins with
    VertexEarly,       \* ACCESS_TOKEN_EARLY_REFRESH_SECONDS
    VertexMaxPages,    \* MAX_PAGES of vertexai.rs
    VertexMaxSeries,   \* MAX_SERIES
    VertexMaxPoints    \* MAX_POINTS_PER_SERIES

----------------------------------------------------------------------------
(* Z.ai. Two regions with hosts of their own; times are in hours, hour 0 is *)
(* midnight of a Monday.                                                    *)

(* has_explicit_scheme: an address without a scheme is an https address.    *)
ZaiScheme(address) == IF address = "bare" THEN "own" ELSE address
(* parse_https_endpoint and endpoint_class.                                 *)
ZaiEndpoint(address) == IF ZaiScheme(address) = "insecure" THEN Err("Api") ELSE Ok(ZaiScheme(address))
(* optional_endpoint.                                                       *)
ZaiOptional(address) == IF address = "none" THEN Ok(None) ELSE Then(ZaiEndpoint(address), LAMBDA a : Ok(Some(a)))
(* validate_region_host: not the host of the other region.                  *)
ZaiHost(host, region) == IF host \in {"global", "cn"} \ {region} THEN Err("Api") ELSE Ok(host)

(* resolve_region.                                                          *)
ZaiRegion == IF setup.region \in {"global", "cn"} THEN Ok(setup.region) ELSE Err("Api")
(* validate_scope.                                                          *)
ZaiValidScope(scope) == IF "multiline" \in {scope.organization, scope.project} THEN Err("Api") ELSE Ok(scope)
(* resolve_usage_scope: a team is named by its organization and project.    *)
ZaiScope ==
    CASE setup.scope.is = "personal" -> Ok(setup.scope)
      [] setup.scope.is = "team" -> IF "none" \in {setup.scope.organization, setup.scope.project} THEN Err("Api") ELSE ZaiValidScope(setup.scope)
      [] OTHER -> Err("Api")
(* resolve_credential: the Chinese key names and key files are for the      *)
(* Chinese region; the first file with a line in it counts.                 *)
ZaiCredential(region) ==
    IF "primary" \in setup.keys THEN Ok("primary")
    ELSE IF region = "cn" /\ setup.keys # {} THEN Ok(CHOOSE k \in {"cn", "file"} : k \in setup.keys /\ ("cn" \in setup.keys => k = "cn"))
    ELSE Err("MissingCredential")
(* ZaiSettings::resolve: own address, else own host, else the region's.     *)
ZaiSettings ==
    Then(ZaiRegion, LAMBDA region : Then(ZaiCredential(region), LAMBDA key : Then(ZaiScope, LAMBDA scope :
    Then(ZaiOptional(setup.host), LAMBDA host : Then(IF host = None THEN Ok(region) ELSE ZaiHost(host[1], region), LAMBDA base :
    Then(ZaiOptional(setup.quota), LAMBDA own : Then(ZaiHost(FirstOf(<<own, Some(base)>>)[1], region), LAMBDA quota :
    Then(ZaiOptional(setup.model), LAMBDA own2 : Then(ZaiHost(FirstOf(<<own2, Some(base)>>)[1], region), LAMBDA model :
      Ok([region |-> region, key |-> key, team |-> scope.is = "team", quota |-> quota, model |-> model]))))))))))
(* new and from_clients: balance is asked for in China only.                *)
ZaiBalanceAsked(s) == s.region = "cn"

(* quota_request_url, team_headers.                                         *)
ZaiQuotaRequest(s) == [to |-> "quota", at |-> s.quota, team |-> s.team]
(* model_usage_url: whole local days, up to the end of this hour.           *)
ZaiModelRequest(s, days) ==
    [to |-> "models", at |-> s.model, team |-> s.team, from |-> 24 * (setup.now \div 24 - days), until |-> setup.now + 1]
ZaiBalanceRequest(s) == [to |-> "balance", at |-> s.region]

(* Every status of the quota service is an API error.                       *)
ZaiKind(code) == IF code \in Statuses THEN "Api" ELSE Classified(code)

(* required_integer and optional_integer.                                   *)
ZaiRequired(x) == IF x = None THEN Err("Parse") ELSE Ok(x[1])
(* The used share: what is counted goes before what is stated.              *)
ZaiPercent(limit) ==
    LET total == limit.usage
        used == IF limit.remaining # None
                THEN Some(LET derived == total[1] - limit.remaining[1]
                          IN  IF limit.current # None /\ limit.current[1] > derived THEN limit.current[1] ELSE derived)
                ELSE limit.current
    IN  IF total # None /\ total[1] > 0 /\ used # None
        THEN (100 * Clamp(used[1], 0, total[1])) \div total[1]
        ELSE Clamp(limit.percentage[1], 0, 100)
(* The length of a window in minutes.                                       *)
ZaiUnit(unit) == CASE unit = 1 -> Some(1440) [] unit = 3 -> Some(60) [] unit = 5 -> Some(1) [] unit = 6 -> Some(10080) [] OTHER -> None
ZaiMinutes(unit, number) ==
    IF number <= 0 \/ ZaiUnit(unit) = None THEN Ok(None)
    ELSE IF number * ZaiUnit(unit)[1] > ZaiMaxInteger THEN Err("Parse")
    ELSE Ok(Some(number * ZaiUnit(unit)[1]))
(* usageDetails: what cannot be read is left out.                           *)
ZaiDetails(details) == IF details.is = "odd" THEN Err("Parse") ELSE Ok(details.count)
(* parse_limit: a limit of an unknown type must still be well formed.       *)
ZaiLimit(limit) ==
    IF limit.type = "missing" THEN Err("Parse")
    ELSE Then(ZaiRequired(limit.unit), LAMBDA unit : Then(ZaiRequired(limit.number), LAMBDA number :
         Then(ZaiRequired(limit.percentage), LAMBDA stated :
           IF limit.type = "other" THEN Ok(None)
           ELSE Then(ZaiMinutes(unit, number), LAMBDA minutes : Then(ZaiDetails(limit.details), LAMBDA details :
                  Ok(Some([kind |-> limit.type, unit |-> unit, number |-> number, percent |-> ZaiPercent(limit),
                           minutes |-> minutes, reset |-> limit.reset, details |-> details])))))))
(* ParsedQuota::parse.                                                      *)
ZaiLimits(limits) ==
    LET From[i \in 0..Len(limits)] ==
          IF i = 0 THEN Ok(<<>>)
          ELSE Then(From[i - 1], LAMBDA done : Then(ZaiLimit(limits[i]), LAMBDA l : Ok(done \o l)))
    IN  From[Len(limits)]
ZaiQuota(b) ==
    CASE b.is = "refusal" -> Err("Api")
      [] b.is = "quota" -> ZaiLimits(b.limits)
      [] OTHER -> Err("Parse")

(* timestamp_from_millis and rate_window: a monthly tool window is stated   *)
(* as one minute.                                                           *)
ZaiWindow(limit) ==
    IF limit.reset = "odd" THEN Err("Parse")
    ELSE Ok([percent |-> limit.percent, reset |-> limit.reset,
             minutes |-> IF limit.kind = "time" /\ limit.unit = 5 /\ limit.number = 1 THEN Some(43200) ELSE limit.minutes])
ZaiEmptyWindow == [percent |-> 0, reset |-> "none", minutes |-> None]
(* limit_row, the labels and the texts: one row each.                       *)
ZaiRows(shown) == Len(SelectSeq(shown, LAMBDA l : l # None))
(* quota_rate_row: peak is 6 to 10 on weekdays; the next change.            *)
ZaiPeak(now) == (now \div 24) % 7 < 5 /\ now % 24 \in 6..9
ZaiNextChange(now) ==
    IF ZaiPeak(now) THEN 24 * (now \div 24) + 10
    ELSE LET first == (now \div 24) + (IF now % 24 >= 6 THEN 1 ELSE 0)
             day == CHOOSE d \in first..(first + 2) : d % 7 < 5 /\ \A e \in first..(d - 1) : e % 7 >= 5
         IN  24 * day + 6
(* The limits a quota shows: the longest, and the shortest of several.      *)
ZaiOrdered(limits) ==
    SortSeq(SelectSeq(limits, LAMBDA l : l.kind # "time"),
            LAMBDA l, m : l.minutes # None /\ (m.minutes = None \/ l.minutes[1] < m.minutes[1]))
(* normalize_quota.                                                         *)
ZaiNormal(limits) ==
    LET quota == ZaiOrdered(limits)
        times == SelectSeq(limits, LAMBDA l : l.kind = "time")
        time == IF times = <<>> THEN None ELSE Some(Last(times))
        token == IF quota = <<>> THEN None ELSE Some(Last(quota))
        session == IF Len(quota) >= 2 THEN Some(quota[1]) ELSE None
        first == FirstOf(<<session, token, time>>)
        Shown(l) == IF l = None THEN Ok(None) ELSE Then(ZaiWindow(l[1]), LAMBDA w : Ok(Some(w)))
        credit == \E l \in {token, session} : l # None /\ l[1].kind = "credit"
        fixed == ZaiRows(<<token, session, time>>) + (IF credit THEN 1 ELSE 0)
        details == IF time = None THEN 0 ELSE Clamp(time[1].details, 0, ZaiMaxRows - fixed)
    IN  Then(Shown(first), LAMBDA primary : Then(IF session = None THEN Ok(None) ELSE Shown(token), LAMBDA secondary :
        Then(IF token = None THEN Ok(None) ELSE Shown(time), LAMBDA tools :
          Ok([windows |-> (IF primary = None THEN <<ZaiEmptyWindow>> ELSE primary) \o secondary \o tools,
              rows |-> fixed + details, changes |-> IF credit THEN Some(ZaiNextChange(setup.now)) ELSE None]))))

(* json_finite_number and the numbers JavaScript writes: text counts too.   *)
ZaiNumber(x) == IF x = "other" THEN None ELSE Some(x)
(* optional_balance_row: a failure costs the row.                           *)
ZaiBalance(s, rows) ==
    IF ~ZaiBalanceAsked(s) \/ rows >= ZaiMaxRows THEN Ok(0)
    ELSE Optional(Then(Sent(ZaiBalanceRequest(s), ZaiKind), LAMBDA b :
           IF b.is = "balance" /\ FirstOf(<<ZaiNumber(b.available), ZaiNumber(b.current)>>) # None THEN Ok(1) ELSE Ok(0)), 0)
(* normalize_model_usage: the tokens of all models at each point of time.   *)
ZaiPoint(b, i) ==
    LET Count(m) == IF i \in DOMAIN b.models[m] /\ b.models[m][i] > 0 THEN b.models[m][i] ELSE 0
        Sum[m \in 0..Len(b.models)] == IF m = 0 THEN 0 ELSE Sum[m - 1] + Count(m)
    IN  Sum[Len(b.models)]
ZaiModelUsage(b) ==
    IF b.is # "models" THEN Err("Api")
    ELSE IF b.points > ZaiMaxPoints \/ \E i \in 1..b.points : ZaiPoint(b, i) > ZaiMaxInteger THEN Err("Parse")
    ELSE Ok(LET points == SelectSeq([i \in 1..b.points |-> ZaiPoint(b, i)], LAMBDA p : p > 0)
            IN  IF points = <<>> THEN None ELSE Some(points))
(* model_usage_section.                                                     *)
ZaiSection(s, days) ==
    Optional(Then(Sent(ZaiModelRequest(s, days), Classified), ZaiModelUsage), None)

(* fetch_at.                                                                *)
ZaiFetch ==
    Then(ZaiSettings, LAMBDA s : Then(Sent(ZaiQuotaRequest(s), ZaiKind), LAMBDA b :
    Then(ZaiQuota(b), LAMBDA limits : Then(ZaiNormal(limits), LAMBDA shown :
    Then(ZaiBalance(s, shown.rows), LAMBDA balance :
    Then(ZaiSection(s, 1), LAMBDA day : Then(ZaiSection(s, 30), LAMBDA month :
      Ok([windows |-> shown.windows, rows |-> shown.rows + balance, changes |-> shown.changes, charts |-> day \o month]))))))))

ZaiSetups ==
    LET S(now, region, scope, keys, host, quota, model, varies) ==
          [provider |-> "zai", source |-> "Api", now |-> now, region |-> region, scope |-> scope, keys |-> keys,
           host |-> host, quota |-> quota, model |-> model, varies |-> varies]
        alone == [is |-> "personal"]
        Team(o, p) == [is |-> "team", organization |-> o, project |-> p]
    IN  {S(30, r, alone, k, h, q, "none", "nothing") : r \in {"global", "cn", "odd"}, k \in {{}, {"primary"}, {"cn", "file"}, {"file"}},
           h \in {"none", "cn", "insecure", "bare"}, q \in {"none", "insecure", "own", "global"}}
        \cup {S(30, "cn", t, {"cn"}, "none", "none", "own", "nothing") : t \in {Team("o", "p"), Team("none", "p"), Team("o", "multiline"), [is |-> "odd"]}}
        \cup {S(30, r, alone, {"primary"}, "none", "none", "none", "quota") : r \in {"global"}}
        \cup {S(n, "cn", alone, {"cn"}, "none", "none", "none", "extras") : n \in {5, 6, 33, 34, 101, 104, 110, 154}}
ZaiReplies(req) ==
    LET L(t, unit, number, percentage, usage, current, remaining, reset, details) ==
          [type |-> t, unit |-> unit, number |-> number, percentage |-> percentage, usage |-> usage, current |-> current,
           remaining |-> remaining, reset |-> reset, details |-> details]
        N(n) == [is |-> "list", count |-> n]
        Plain(t, unit, number) == L(t, Some(unit), Some(number), Some(40), None, None, None, "good", N(1))
        one == Plain("credit", 3, 5)
        quotas == {<<Plain("tokens", 3, 5), Plain("credit", 6, 1), Plain("time", 5, 1)>>, <<Plain("time", 5, 1)>>, <<Plain("credit", 6, 1)>>,
                   <<L("time", Some(5), Some(1), Some(40), None, None, None, "none", N(9)), one>>}
    IN  CASE req.to = "quota" /\ setup.varies = "nothing" -> Bodies([is : {"quota"}, limits : {<<one>>}])
          [] req.to = "quota" /\ setup.varies = "extras" -> Bodies([is : {"quota"}, limits : quotas])
          [] req.to = "quota" /\ setup.varies = "quota" ->
               Refusals({"401", "403", "429", "500", "network", "timeout", "cancelled", "toolarge"})
               \cup Bodies([is : {"refusal", "junk"}]
                    \cup [is : {"quota"}, limits :
                          {<<>>} \cup quotas
                          \cup {<<one, L(t, u, n, p, None, None, None, "good", N(0))>> : t \in {"missing", "other", "tokens"},
                                u \in {None, Some(1), Some(9)}, n \in {None, Some(0), Some(5)}, p \in {None, Some(140), Some(-3)}}
                          \cup {<<L("tokens", Some(6), Some(9), Some(7), u, c, r, "good", N(0))>> :
                                u \in {None, Some(0), Some(10)}, c \in {None, Some(4), Some(15)}, r \in {None, Some(3), Some(-8)}}
                          \cup {<<L("time", Some(5), Some(1), Some(7), None, None, None, reset, d)>> :
                                reset \in {"none", "odd"}, d \in {N(0), N(9), [is |-> "odd"]}}
                          \cup {<<Plain("credit", 6, 1), Plain("tokens", 9, 1), Plain("tokens", 1, 2)>>, <<Plain("tokens", 6, 99)>>}])
          [] req.to = "balance" ->
               IF setup.varies # "extras" THEN Refusals({"500"})
               ELSE Refusals({"401", "cancelled"})
                    \cup Bodies([is : {"balance"}, available : {"other", "text"}, current : {"other", "number"}] \cup [is : {"junk"}])
          [] req.to = "models" ->
               LET M(models, points) == [is |-> "models", models |-> models, points |-> points]
               IN  IF setup.varies # "extras" \/ req.from < 0 THEN Refusals({"500", "cancelled"})
                   ELSE Refusals({"401", "network", "cancelled"})
                        \cup Bodies([is : {"junk"}] \cup {M(<<>>, 2), M(<< <<1, 2>>, <<-4>> >>, 3), M(<< <<1, 0>> >>, ZaiMaxPoints + 1), M(<< <<ZaiMaxInteger>>, <<1>> >>, 1)})

----------------------------------------------------------------------------
(* OpenRouter. Credits are required, what the key may spend and the spend   *)
(* history of a management key are extra. Days are numbered.                *)

(* has_explicit_scheme, normalize_api_base, endpoint_class.                 *)
OrScheme(address) == IF address = "bare" THEN "own" ELSE address
OrBase(address) ==
    IF address = "none" THEN Ok("openrouter")
    ELSE IF OrScheme(address) \in {"insecure", "query"} THEN Err("Api") ELSE Ok(OrScheme(address))
(* validate_public_header_value.                                            *)
OrHeader(value) == IF value = "multiline" THEN Err("Api") ELSE Ok(value)
(* OpenRouterSettings::resolve.                                             *)
OrSettings ==
    Then(FirstKey(<<setup.key>>), LAMBDA key :
    Then(IF setup.management = "none" THEN Ok(None) ELSE Then(FirstKey(<<setup.management>>), LAMBDA k : Ok(Some(k))), LAMBDA management :
    Then(OrBase(setup.base), LAMBDA base : Then(OrHeader(setup.title), LAMBDA title :
      Ok([base |-> base, management |-> management])))))
(* new and from_clients: the management key goes to OpenRouter itself,      *)
(* whatever address was configured, the other key to the address.           *)
OrCreditsRequest(s) == [to |-> "credits", at |-> s.base, key |-> "api"]
OrKeyRequest(s) == [to |-> "key", at |-> s.base, key |-> "api"]
OrActivityRequest(s) == [to |-> "activity", at |-> "openrouter", key |-> "management"]

(* optional_decimal and json_decimal: what is there is a number.            *)
OrOptional(x) == IF x = "odd" THEN Err("Parse") ELSE Ok(x)
(* json_safe_integer and checked_safe_sum.                                  *)
OrSafe(n) == IF n \in 0..OrMaxInteger THEN Ok(n) ELSE Err("Parse")
(* parse_credits: a balance is never below nothing.                         *)
OrCredits(b) ==
    IF b.is # "credits" THEN Err("Parse")
    ELSE Ok([granted |-> b.granted, used |-> b.used, balance |-> IF b.granted > b.used THEN b.granted - b.used ELSE 0])

(* degradation_from_request_error, degradation_from_kind and                *)
(* activity_status_degradation: why a part of the sample is missing.        *)
OrDegraded(code, activity) ==
    CASE code = "403" /\ activity -> "management key required"
      [] code \in Statuses -> "status"
      [] code = "timeout" -> "timed out"
      [] OTHER -> "failed"
(* KeyOutcome and ActivityOutcome: the data, or why there is none.          *)
OrAvailable(data) == [data |-> Some(data), why |-> None]
OrMissing(why) == [data |-> None, why |-> Some(why)]

(* parse_key: no data is not an error; a field of the wrong type is.        *)
OrKeyData(b) ==
    IF b.is = "junk" THEN Err("Parse") ELSE IF b.is = "empty" THEN Ok(None)
    ELSE Then(OrOptional(b.rate), LAMBDA rate : Then(OrOptional(b.resets), LAMBDA resets : Ok(Some(b))))
(* fetch_key.                                                               *)
OrKey(s) ==
    LET req == OrKeyRequest(s)
    IN  IF ~Asked(req) THEN Ask(req)
        ELSE IF ReplyTo(req).code # "200" THEN Ok(OrMissing(OrDegraded(ReplyTo(req).code, FALSE)))
        ELSE LET p == OrKeyData(ReplyTo(req).body)
             IN  Ok(IF p.is = "err" THEN OrMissing("invalid") ELSE IF p.value = None THEN OrMissing("unavailable") ELSE OrAvailable(p.value[1]))

(* key_window: the share of the key's limit. What is left goes before what  *)
(* was used in the period the limit is for.                                 *)
OrUsed(k) ==
    IF k.remaining # None THEN Some(k.limit[1] - Clamp(k.remaining[1], 0, k.limit[1]))
    ELSE CASE k.resets = "daily" -> k.daily [] k.resets = "weekly" -> k.weekly [] k.resets = "monthly" -> k.monthly [] OTHER -> k.usage
OrWindow(k) ==
    IF k.limit = None \/ k.limit[1] <= 0 \/ OrUsed(k) = None \/ OrUsed(k)[1] < 0 THEN [windows |-> <<>>, left |-> None]
    ELSE LET used == OrUsed(k)[1] IN
         [windows |-> <<[percent |-> Clamp((100 * used) \div k.limit[1], 0, 100)]>>, left |-> Some(IF k.limit[1] > used THEN k.limit[1] - used ELSE 0)]
(* key_details: the points of the chart.                                    *)
OrChart(k) == k.daily \o k.weekly \o k.monthly

(* activity_window: the completed days, today not among them.               *)
OrLatest == setup.now - 1
OrCutoff == OrLatest - (OrHistoryDays - 1)
(* activity_model: an overlong name is refused; a missing one is none.      *)
OrModel(row) == IF row.model = "overlong" THEN Err("Parse") ELSE Ok(row.model)
(* parse_activity_date.                                                     *)
OrDate(row) == IF row.day < 0 THEN Err("Parse") ELSE Ok(row.day)
(* identity_component and javascript_truthy: zero and empty mean nothing.   *)
OrComponent(x) == IF x \in {"zero", "empty", "null"} THEN "null" ELSE x
(* parse_activity_row: a day that is not over is refused, an old one is     *)
(* left out.                                                                *)
OrRow(row) ==
    IF row.is = "junk" THEN Err("Parse")
    ELSE Then(OrDate(row), LAMBDA day :
      IF day > OrLatest THEN Err("Parse") ELSE IF day < OrCutoff THEN Ok(None)
      ELSE Then(OrModel(row), LAMBDA model : Then(OrSafe(row.input), LAMBDA input : Then(OrSafe(row.output), LAMBDA output :
           Then(OrSafe(input + output), LAMBDA sum :
             IF row.reasoning > output \/ row.metered < 0 \/ row.estimated < 0 THEN Err("Parse")
             ELSE Ok(Some([id |-> [day |-> day, model |-> model, endpoint |-> OrComponent(row.endpoint)],
                           sig |-> [tokens |-> sum, requests |-> row.requests, metered |-> row.metered, estimated |-> row.estimated]])))))))
(* UsageAccumulator.                                                        *)
OrZero == [tokens |-> 0, requests |-> 0, byok |-> 0, metered |-> 0, estimated |-> 0]
OrAdd(sum, sig) ==
    Then(OrSafe(sum.tokens + sig.tokens), LAMBDA tokens : Then(OrSafe(sum.requests + sig.requests), LAMBDA requests :
      Ok([tokens |-> tokens, requests |-> requests, byok |-> sum.byok + (IF sig.estimated > 0 THEN sig.requests ELSE 0),
          metered |-> sum.metered + sig.metered, estimated |-> sum.estimated + sig.estimated])))
(* ActivityParseState::accept: the same row again counts once, the same row *)
(* with other figures is refused.                                           *)
OrAccept(state, row) ==
    LET same == {i \in DOMAIN state.rows : state.rows[i].id = row.id}
    IN  IF same # {} THEN IF \A i \in same : state.rows[i].sig = row.sig THEN Ok(state) ELSE Err("Parse")
        ELSE Then(OrAdd(state.sum, row.sig), LAMBDA sum :
               IF Len(state.rows) + 1 > OrMaxDistinct THEN Err("Parse") ELSE Ok([rows |-> Append(state.rows, row), sum |-> sum]))
(* parse_activity and activity_rows.                                        *)
OrState(rows) ==
    LET From[i \in 0..Len(rows)] ==
          IF i = 0 THEN Ok([rows |-> <<>>, sum |-> OrZero])
          ELSE Then(From[i - 1], LAMBDA state : Then(OrRow(rows[i]), LAMBDA row : IF row = None THEN Ok(state) ELSE OrAccept(state, row[1])))
    IN  IF Len(rows) > OrMaxRows THEN Err("Parse") ELSE From[Len(rows)]
(* daily_cost_usage: what each day took.                                    *)
OrDaily(rows) ==
    [d \in {rows[i].id.day : i \in DOMAIN rows} |->
       FoldLeft(LAMBDA sum, row : sum + row.sig.tokens, 0, SelectSeq(rows, LAMBDA row : row.id.day = d))]
(* build_cost_usage.                                                        *)
OrProvenance(sum) ==
    IF sum.estimated = 0 THEN "metered" ELSE IF sum.metered > 0 THEN "mixed" ELSE "estimate"
OrCost(state) == [total |-> state.sum, daily |-> OrDaily(state.rows), provenance |-> OrProvenance(state.sum)]
(* fetch_activity: both answers are awaited at once; the history's failure  *)
(* is the one that is told.                                                 *)
OrActivity(s) ==
    LET req == OrActivityRequest(s)
    IN  IF s.management = None THEN Ok(OrMissing("not configured"))
        ELSE IF ~Asked(req) THEN Ask(req)
        ELSE LET r == ReplyTo(req)
             IN  Ok(IF r.code # "200" THEN OrMissing(OrDegraded(r.code, TRUE))
                    ELSE IF r.body.is = "dated failed" THEN OrMissing(OrDegraded(r.body.code, TRUE))
                    ELSE IF r.body.is = "junk" THEN OrMissing("invalid")
                    ELSE LET p == OrState(r.body.history \o r.body.dated)
                         IN  IF p.is = "err" THEN OrMissing("invalid") ELSE OrAvailable(OrCost(p.value)))

(* normalize: a part that is missing is said to be.                         *)
OrNormal(credits, key, activity) ==
    LET window == IF key.data = None THEN [windows |-> <<>>, left |-> None] ELSE OrWindow(key.data[1])
    IN  [windows |-> window.windows, left |-> window.left, balance |-> credits.balance,
         chart |-> IF key.data = None THEN <<>> ELSE OrChart(key.data[1]), cost |-> activity.data, why |-> <<key.why, activity.why>>]

(* fetch_at: every status of the credits request is an API error.           *)
OrFetch ==
    Then(OrSettings, LAMBDA s : Then(Sent(OrCreditsRequest(s), ZaiKind), LAMBDA b : Then(OrCredits(b), LAMBDA credits :
    Then(OrKey(s), LAMBDA key : Then(OrActivity(s), LAMBDA activity : Ok(OrNormal(credits, key, activity)))))))

OrSetups ==
    LET S(key, management, base, title, varies) ==
          [provider |-> "openrouter", source |-> "Api", now |-> 100, key |-> key, management |-> management, base |-> base, title |-> title, varies |-> varies]
    IN  {S(k, m, b, t, "nothing") : k \in {"none", "malformed", "good"}, m \in {"none", "malformed", "good"},
           b \in {"none", "bare", "insecure", "query"}, t \in {"plain", "multiline"}}
        \cup {S("good", "none", "bare", "plain", v) : v \in {"credits", "key"}} \cup {S("good", "good", "own", "plain", "activity")}
OrReplies(req) ==
    LET K(limit, remaining, usage, daily, resets, rate) ==
          [is |-> "key", limit |-> limit, remaining |-> remaining, usage |-> usage, daily |-> daily, weekly |-> None, monthly |-> usage,
           resets |-> resets, rate |-> rate]
        R(day, model, output, estimated) ==
          [is |-> "row", day |-> day, model |-> model, endpoint |-> "e", input |-> 1, output |-> output, reasoning |-> 0, requests |-> 1,
           metered |-> 1, estimated |-> estimated]
        At(row, endpoint) == [row EXCEPT !.endpoint = endpoint]
        Paid(row, metered) == [row EXCEPT !.metered = metered]
        first == R(99, "m", 2, 0)
        A(history, dated) == [is |-> "activity", history |-> history, dated |-> dated]
    IN  CASE req.to = "credits" ->
               (IF setup.varies = "credits" THEN Refusals({"401", "403", "500", "network", "cancelled"}) \cup Bodies([is : {"junk"}]) ELSE {})
               \cup Bodies([is : {"credits"}, granted : {10}, used : {3, 12}])
          [] req.to = "key" ->
               IF setup.varies # "key" THEN Refusals({"500", "cancelled"})
               ELSE Refusals({"401", "timeout", "network", "cancelled"})
                    \cup Bodies([is : {"junk", "empty"}]
                         \cup {K(l, r, u, d, resets, "set") : l \in {None, Some(0), Some(10)}, r \in {None, Some(-2), Some(4), Some(15)},
                               u \in {None, Some(-1), Some(25)}, d \in {None, Some(5)}, resets \in {"none", "daily", "monthly"}}
                         \cup {K(Some(10), None, Some(5), None, s, t) : s \in {"odd", "weekly"}, t \in {"missing", "odd"}})
          [] req.to = "activity" ->
               IF setup.varies # "activity" THEN Refusals({"403", "cancelled"})
               ELSE Refusals({"403", "401", "timeout", "network", "cancelled"})
                    \cup Bodies([is : {"junk"}] \cup [is : {"dated failed"}, code : {"403", "timeout"}]
                         \cup {A(<<>>, <<>>), A(<<first>>, <<first, At(first, "f")>>), A(<<At(first, "zero")>>, <<At(first, "null")>>), A(<<first>>, <<R(99, "m", 3, 0)>>),
                               A(<<R(98, "m", 3, 1), first>>, <<first>>), A(<<Paid(R(98, "m", 3, 1), 0)>>, <<>>), A(<<R(60, "m", 3, 1), R(90, "none", 3, 1)>>, <<first>>),
                               A(<<first>>, <<R(100, "m", 2, 0)>>), A(<<first, R(99, "overlong", 2, 0)>>, <<>>), A(<<[is |-> "junk"]>>, <<>>), A(<<R(-1, "m", 0, 0)>>, <<>>),
                               A(<<first, At(first, "f"), At(first, "g"), At(first, "h")>>, <<>>), A([i \in 1..(OrMaxRows + 1) |-> first], <<>>),
                               A(<<R(97, "m", OrMaxInteger, 0)>>, <<>>), A(<<R(97, "m", OrMaxInteger - 1, 0)>>, <<first>>), A(<<Paid(first, -1)>>, <<>>)})

----------------------------------------------------------------------------
(* Doubao. Three sources: signed cloud requests, chat requests whose answer *)
(* carries the limits in its headers, and the arkcli tool.                  *)

(* DoubaoApiCredential and resolve_cloud_credentials.                       *)
DoubaoKey == FirstKey(setup.keys)
DoubaoCloudKeys ==
    Then(FirstKey(setup.access), LAMBDA access : Then(FirstKey(setup.secret), LAMBDA secret :
      IF setup.region = "odd" THEN Err("Api") ELSE Ok([access |-> access, secret |-> secret])))
(* resolve_arkcli: a configured path that is not there is an API error, a   *)
(* tool that is nowhere is not installed.                                   *)
DoubaoTool ==
    IF setup.tool = "none" THEN IF setup.found = {} THEN Err("MissingCredential") ELSE Ok("found")
    ELSE IF setup.tool = "gone" THEN Err("Api") ELSE Ok(setup.tool)
(* sanitized_cli_environment: only named variables reach the tool.          *)
DoubaoEnvironment == IF "overlong" \in setup.environment THEN Err("Api") ELSE Ok((setup.environment \cap {"HOME", "PATH"}) \cup {"PATH"})
DoubaoCli == Then(DoubaoTool, LAMBDA tool : Then(DoubaoEnvironment, LAMBDA env : Ok([to |-> "arkcli", environment |-> env])))

(* optional_epoch: seconds, or milliseconds where they are told or too      *)
(* large for seconds.                                                       *)
DoubaoEpoch(value, unit) ==
    IF value = None \/ value[1] <= 0 THEN Ok(None)
    ELSE LET seconds == IF unit = "ms" \/ (unit = "auto" /\ value[1] >= DoubaoMillis) THEN value[1] \div 1000 ELSE value[1]
         IN  IF seconds > DoubaoMaxTime THEN Err("Parse") ELSE Ok(Some(seconds))
(* parse_reset_value: a text that is no time is none.                       *)
DoubaoResetValue(r) == IF r.is = "text" THEN Ok(IF r.value > 0 THEN Some(r.value) ELSE None) ELSE DoubaoEpoch(r.value, "auto")
(* parse_duration_seconds and parse_reset: a date, or a time from now.      *)
DoubaoDuration(seconds) == IF seconds > 0 THEN Some(seconds) ELSE None
DoubaoReset(r) ==
    CASE r.is = "at" -> Some(r.value)
      [] r.is = "in" -> IF DoubaoDuration(r.value) = None THEN None ELSE Some(setup.now + r.value)
      [] OTHER -> None
(* parse_nonnegative_header.                                                *)
DoubaoHeader(h) == IF h # None /\ h[1] < 0 THEN None ELSE h
(* validate_level, validate_percent, clean_bounded_text.                    *)
DoubaoLevel(level) == IF level \in {"empty", "overlong"} THEN Err("Parse") ELSE Ok(level)
DoubaoText(t) == IF t = "overlong" THEN Err("Parse") ELSE Ok(t)

(* parse_coding_plan.                                                       *)
DoubaoQuotas(quotas, Parsed(_)) ==
    LET From[i \in 0..Len(quotas)] ==
          IF i = 0 THEN Ok(<<>>) ELSE Then(From[i - 1], LAMBDA done : Then(Parsed(quotas[i]), LAMBDA q : Ok(done \o q)))
    IN  From[Len(quotas)]
DoubaoCodingQuota(q) ==
    Then(DoubaoLevel(q.level), LAMBDA level : Then(DoubaoEpoch(q.reset, "s"), LAMBDA reset :
      Ok(<<[product |-> "coding", level |-> level, percent |-> Clamp(q.percent, 0, 100), reset |-> reset]>>)))
DoubaoCoding(b) ==
    IF b.is # "coding" \/ Len(b.quotas) > DoubaoMaxQuotas THEN Err("Parse")
    ELSE Then(DoubaoText(b.status), LAMBDA status : Then(DoubaoQuotas(b.quotas, DoubaoCodingQuota), LAMBDA quotas :
         Then(DoubaoEpoch(b.updated, "s"), LAMBDA updated : Ok([quotas |-> quotas, updated |-> updated]))))
(* parse_agent_plan: a quota of nothing is none.                            *)
DoubaoAgentQuota(w) ==
    IF w.quota <= 0 THEN Ok(<<>>)
    ELSE Then(DoubaoEpoch(w.reset, "ms"), LAMBDA reset :
           Ok(<<[product |-> "agent", level |-> w.level, percent |-> Clamp((100 * w.used) \div w.quota, 0, 100), reset |-> reset]>>))
DoubaoAgent(b) ==
    IF b.is # "agent" THEN Err("Parse")
    ELSE Then(DoubaoQuotas(b.windows, DoubaoAgentQuota), LAMBDA quotas : Ok([quotas |-> quotas, updated |-> None]))
(* merge_cloud_plans.                                                       *)
DoubaoMerge(coding, agent) ==
    IF agent = None \/ agent[1].quotas = <<>> THEN coding
    ELSE IF coding.quotas = <<>> THEN agent[1] ELSE [quotas |-> coding.quotas \o agent[1].quotas, updated |-> coding.updated]

(* find_window and quota_window: the first quota of a product and a level.  *)
DoubaoFind(quotas, product, levels) ==
    LET same == SelectSeq(quotas, LAMBDA q : q.product = product /\ q.level \in levels)
    IN  IF same = <<>> THEN <<>> ELSE <<same[1]>>
(* append_named_window and normalize_plan: products by levels.              *)
DoubaoLevels == <<{"session", "5h"}, {"weekly"}, {"monthly"}>>
DoubaoWindows(quotas, product) == DoubaoFind(quotas, product, DoubaoLevels[1]) \o DoubaoFind(quotas, product, DoubaoLevels[2]) \o DoubaoFind(quotas, product, DoubaoLevels[3])
DoubaoNormal(plan) ==
    [windows |-> DoubaoWindows(plan.quotas, "coding") \o DoubaoWindows(plan.quotas, "agent") \o DoubaoWindows(plan.quotas, "coding team") \o DoubaoWindows(plan.quotas, "agent team"),
     at |-> IF plan.updated = None THEN setup.now ELSE plan.updated[1]]

(* action_url and send_signed.                                              *)
DoubaoAction(name) == [to |-> name]
(* fetch_cloud: the agent plan matters only where there is no coding plan;  *)
(* an account without access to it has none.                                *)
DoubaoCloud ==
    Then(Sent(DoubaoAction("coding"), Classified), LAMBDA b : Then(DoubaoCoding(b), LAMBDA coding :
      LET req == DoubaoAction("agent")
          alone == coding.quotas = <<>>
          merged(agent) == Ok(DoubaoNormal(DoubaoMerge(coding, agent)))
      IN  IF ~Asked(req) THEN Ask(req)
          ELSE LET r == ReplyTo(req) IN
               CASE r.code = "200" -> (LET p == DoubaoAgent(r.body) IN IF p.is = "ok" THEN merged(Some(p.value)) ELSE IF alone THEN p ELSE merged(None))
                 [] r.code \in {"403", "404"} -> merged(None)
                 [] OTHER -> IF CancelledBy(req) \/ alone THEN Err(Classified(r.code)) ELSE merged(None)))

(* probe: a small chat request; what its headers say. One that was refused  *)
(* for its rate still has them.                                             *)
DoubaoProbeRequest(i, attempt) == [to |-> "probe", model |-> i, attempt |-> attempt]
DoubaoProbed(r) ==
    LET limit == DoubaoHeader(r.body.limit)
        remaining == DoubaoHeader(r.body.remaining)
    IN  [status |-> r.code, limit |-> limit, reset |-> DoubaoReset(r.body.reset),
         remaining |-> IF r.code = "429" /\ limit # None /\ remaining = None THEN Some(0) ELSE remaining,
         reliable |-> limit # None /\ (r.code = "429" \/ remaining # None)]
DoubaoProbe(i, attempt) ==
    LET req == DoubaoProbeRequest(i, attempt)
    IN  IF ~Asked(req) THEN Ask(req)
        ELSE CASE ReplyTo(req).code \in {"200", "429"} -> Ok(DoubaoProbed(ReplyTo(req)))
               [] ReplyTo(req).code = "403" -> [is |-> "err", kind |-> "PermissionDenied", next |-> TRUE]
               [] ReplyTo(req).code = "404" -> [is |-> "err", kind |-> "Api", next |-> TRUE]
               [] OTHER -> [is |-> "err", kind |-> Classified(ReplyTo(req).code), next |-> FALSE]
(* is_ambiguous_zero: nothing left, and still answered.                     *)
DoubaoAmbiguous(p) == p.status = "200" /\ p.reliable /\ p.limit[1] > 0 /\ p.remaining[1] = 0
(* confirm_zero: it is asked again; zero twice is taken for no figure.      *)
DoubaoConfirm(i, initial) ==
    LET p == DoubaoProbe(i, 2)
    IN  CASE p.is = "ok" -> IF p.value.status = "429" /\ ~p.value.reliable THEN Ok(initial)
                            ELSE IF DoubaoAmbiguous(p.value) THEN Ok([p.value EXCEPT !.reliable = FALSE]) ELSE p
          [] p.is = "err" -> IF CancelledBy(DoubaoProbeRequest(i, 2)) THEN Err("Network") ELSE Ok(initial)
          [] OTHER -> p
(* normalize_probe.                                                         *)
DoubaoProbeWindow(p) ==
    LET shown == p.reliable /\ p.remaining # None /\ p.limit # None /\ p.limit[1] > 0
        used == IF p.limit[1] > p.remaining[1] THEN p.limit[1] - p.remaining[1] ELSE 0
    IN  [windows |-> IF shown THEN <<[percent |-> Clamp((100 * used) \div p.limit[1], 0, 100), reset |-> p.reset]>> ELSE <<>>, at |-> setup.now]
(* fetch_api: a model the key may not use is skipped.                       *)
DoubaoModels == 3
DoubaoApi ==
    LET From[i \in 1..DoubaoModels] ==
            LET p == DoubaoProbe(i, 1)
            IN  CASE p.is = "ok" -> Then(IF DoubaoAmbiguous(p.value) THEN DoubaoConfirm(i, p.value) ELSE p, LAMBDA q : Ok(DoubaoProbeWindow(q)))
                  [] p.is = "err" -> IF p.next /\ i < DoubaoModels THEN From[i + 1] ELSE Err(p.kind)
                  [] OTHER -> p
    IN  From[1]

(* map_subprocess_error.                                                    *)
DoubaoCliKind(code) ==
    CASE code = "login" -> "AuthenticationExpired" [] code = "no file" -> "MissingCredential"
      [] code \in {"cancelled", "timeout"} -> "Network" [] code = "toolarge" -> "Parse" [] OTHER -> "Api"
(* parse_product: other products are not looked at.                         *)
DoubaoProducts == {"coding", "agent", "coding team", "agent team"}
DoubaoWanted(item) == item.product \in DoubaoProducts /\ item.subscribed # Some(FALSE)
(* The quotas of one product of arkcli.                                     *)
DoubaoPeriod(item, period) ==
    Then(DoubaoLevel(period.level), LAMBDA level : Then(DoubaoResetValue(period.reset), LAMBDA reset :
      Ok(<<[product |-> item.product, level |-> level, percent |-> Clamp(period.percent, 0, 100), reset |-> reset]>>)))
DoubaoItem(item) ==
    IF ~DoubaoWanted(item) THEN Ok(<<>>)
    ELSE Then(DoubaoEpoch(item.updated, "auto"), LAMBDA u : DoubaoQuotas(item.periods, LAMBDA period : DoubaoPeriod(item, period)))
(* parse_arkcli: a product that is subscribed to has periods; the newest    *)
(* update dates the sample.                                                 *)
DoubaoNewest(items) ==
    LET times == {i \in DOMAIN items : DoubaoWanted(items[i]) /\ DoubaoEpoch(items[i].updated, "auto").value # None}
    IN  IF times = {} THEN None ELSE Some(Max({DoubaoEpoch(items[i].updated, "auto").value[1] : i \in times}))
DoubaoArkcli(b) ==
    IF b.is # "plan" THEN Err("Parse")
    ELSE Then(DoubaoText(b.auth), LAMBDA auth :
      IF auth = "none" THEN Err("AuthenticationExpired")
      ELSE IF \E i \in DOMAIN b.items : DoubaoWanted(b.items[i]) /\ b.items[i].periods = <<>> THEN Err("Parse")
      ELSE Then(DoubaoQuotas(b.items, DoubaoItem), LAMBDA quotas :
             IF Len(quotas) > DoubaoMaxQuotas THEN Err("Parse") ELSE IF quotas = <<>> THEN Err("Api")
             ELSE Ok([quotas |-> quotas, updated |-> DoubaoNewest(b.items)])))
(* fetch_cli.                                                               *)
DoubaoRun(req) == Then(Sent(req, DoubaoCliKind), LAMBDA b : Then(DoubaoArkcli(b), LAMBDA plan : Ok(DoubaoNormal(plan))))

(* resolve and the constructors: what the source needs.                     *)
DoubaoResolve ==
    CASE setup.source = "CloudCredentials" -> DoubaoCloudKeys [] setup.source = "ApiKey" -> DoubaoKey [] setup.source = "Cli" -> DoubaoCli
(* fetch_at.                                                                *)
DoubaoFetch ==
    Then(DoubaoResolve, LAMBDA s :
      CASE setup.source = "CloudCredentials" -> DoubaoCloud [] setup.source = "ApiKey" -> DoubaoApi [] setup.source = "Cli" -> DoubaoRun(s))

DoubaoSetups ==
    LET marks == {"none", "malformed", "good"} IN
    [provider : {"doubao"}, source : {"CloudCredentials"}, now : {500}, access : {<<a, b>> : a, b \in {"none", "good"}},
     secret : {<<a>> : a \in marks}, region : {"none", "odd"}]
    \cup [provider : {"doubao"}, source : {"ApiKey"}, now : {500}, keys : {<<a, b, "none">> : a, b \in marks}]
    \cup [provider : {"doubao"}, source : {"Cli"}, now : {500}, tool : {"none", "gone", "own"}, found : {{}, {"home"}},
          environment : {{}, {"HOME", "SECRET"}, {"PATH", "overlong"}}]
DoubaoReplies(req) ==
    LET Q(level, percent, reset) == [level |-> level, percent |-> percent, reset |-> reset]
        C(status, updated, quotas) == [is |-> "coding", status |-> status, updated |-> updated, quotas |-> quotas]
        W(level, quota, used, reset) == [level |-> level, quota |-> quota, used |-> used, reset |-> reset]
        H(remaining, limit, reset) == [remaining |-> remaining, limit |-> limit, reset |-> reset]
        never == [is |-> "none"]
        headers == {H(r, l, never) : r \in {None, Some(0), Some(4), Some(-1), Some(12)}, l \in {None, Some(0), Some(10)}}
                   \cup {H(Some(4), Some(10), [is |-> i, value |-> v]) : i \in {"at", "in"}, v \in {0, 60}}
        P(level, percent, reset) == [level |-> level, percent |-> percent, reset |-> reset]
        T(v) == [is |-> "text", value |-> v]
        N(v) == [is |-> "number", value |-> Some(v)]
        week == P("weekly", 30, T(60))
        I(product, subscribed, updated, periods) == [product |-> product, subscribed |-> subscribed, updated |-> updated, periods |-> periods]
    IN  CASE req.to = "coding" ->
               Refusals({"401", "403", "network", "cancelled"})
               \cup Bodies([is : {"junk"}]
                    \cup {C("ok", None, <<>>), C("overlong", None, <<>>), C("ok", Some(400), <<Q("session", 130, None), Q("weekly", -4, Some(900))>>),
                          C("ok", Some(-1), <<Q("session", 30, Some(0)), Q("5h", 90, None), Q("other", 9, None)>>), C("ok", None, <<Q("empty", 3, None)>>),
                          C("ok", Some(DoubaoMaxTime + 1), <<>>), C("ok", None, [i \in 1..(DoubaoMaxQuotas + 1) |-> Q("session", 3, None)])})
          [] req.to = "agent" ->
               Refusals({"401", "403", "404", "500", "timeout", "cancelled"})
               \cup Bodies([is : {"junk"}] \cup [is : {"agent"}, windows : {<<>>, <<W("5h", 0, 4, None)>>, <<W("5h", 10, 14, Some(9000)), W("weekly", 10, -3, None)>>,
                                                                            <<W("monthly", 10, 3, Some(1000 * (DoubaoMaxTime + 1)))>>}])
          [] req.to = "probe" ->
               Refusals({"401", "403", "404", "500", "network", "cancelled"}) \cup [code : {"200", "429"}, body : headers]
          [] req.to = "arkcli" ->
               Refusals({"login", "no file", "timeout", "toolarge", "failed", "cancelled"})
               \cup Bodies([is : {"junk"}]
                    \cup [is : {"plan"}, auth : {"none", "overlong", "sso"}, items : {<<I("coding", None, None, <<week>>)>>}]
                    \cup [is : {"plan"}, auth : {"sso"}, items :
                          {<<>>, <<I("coding", Some(TRUE), None, <<>>)>>, <<I("coding", Some(FALSE), Some(80), <<>>), I("agent", None, Some(70), <<week, P("5h", 130, N(9))>>)>>,
                           <<I("other", None, Some(90), <<>>)>>, <<I("coding team", None, Some(70), <<week>>), I("agent team", None, Some(1000 * DoubaoMaxTime), <<week, week>>)>>,
                           <<I("coding", None, None, <<P("overlong", 1, T(0))>>)>>, <<I("coding", None, None, [i \in 1..(DoubaoMaxQuotas + 1) |-> week])>>,
                           <<I("coding", None, Some(DoubaoMaxTime + 1), <<week>>)>>}])

----------------------------------------------------------------------------
(* Bedrock. Spend from AWS Cost Explorer, activity from CloudWatch, signed  *)
(* with keys or with what the aws tool exports for a profile. Times are in  *)
(* hours.                                                                   *)

(* environment_bundle and BedrockCredentialBundle::new: half a bundle is    *)
(* none, a malformed one is an error.                                       *)
BedrockBundle ==
    IF "none" \in {setup.access, setup.secret} THEN Ok(None)
    ELSE IF "malformed" \in {setup.access, setup.secret} THEN Err("MissingCredential") ELSE Ok(Some("environment"))
(* explicit_auth_mode; without it a profile counts if there are no keys.    *)
BedrockMode(keys) ==
    IF setup.mode \in {"keys", "profile"} THEN setup.mode ELSE IF setup.profile # "none" /\ keys = None THEN "profile" ELSE "keys"
(* resolve_aws_cli.                                                         *)
BedrockTool == CASE setup.tool = "none" -> Err("MissingCredential") [] setup.tool = "bad" -> Err("Api") [] OTHER -> Ok(setup.tool)
(* valid_profile, profile_environment: the tool sees the AWS variables but  *)
(* AWS_PROFILE.                                                             *)
BedrockEnvironment == IF setup.variables > BedrockMaxVariables THEN Err("Api") ELSE Ok(setup.variables)
BedrockProfile ==
    IF setup.profile # "good" THEN Err("MissingCredential")
    ELSE Then(BedrockTool, LAMBDA tool : Then(BedrockEnvironment, LAMBDA env : Ok("profile")))
(* The budget: one that is not above zero is none.                          *)
BedrockBudget == IF setup.budget # None /\ setup.budget[1] > 0 THEN setup.budget ELSE None
BedrockEndpoint(address) == IF address = "insecure" THEN Err("Api") ELSE Ok(address)
(* resolve_with_bundles: one-shot keys, then the environment's, then the    *)
(* secret service's.                                                        *)
BedrockSettings ==
    Then(BedrockBundle, LAMBDA environment :
      LET keys == FirstOf(<<setup.oneshot, environment, setup.stored>>)
      IN  Then(IF BedrockMode(keys) = "profile" THEN BedrockProfile ELSE IF keys = None THEN Err("MissingCredential") ELSE Ok(keys[1]), LAMBDA source :
          Then(BedrockEndpoint(setup.costs), LAMBDA costs : Then(BedrockEndpoint(setup.watch), LAMBDA watch : Ok([source |-> source])))))

(* map_subprocess_error and map_export_error.                               *)
BedrockToolKind(code) ==
    CASE code = "no file" -> "MissingCredential" [] code \in {"cancelled", "timeout"} -> "Network" [] code = "toolarge" -> "Parse" [] OTHER -> "Api"
BedrockExportKind(code) == IF code = "login" THEN "AuthenticationExpired" ELSE BedrockToolKind(code)
(* parse_exported_credentials.                                              *)
BedrockExported(b) == IF b.is = "keys" /\ b.access = "good" /\ b.secret = "good" THEN Ok(b) ELSE Err("Parse")
BedrockExport == Then(Sent([to |-> "export"], BedrockExportKind), BedrockExported)
(* resolve_region: a profile without a region is no error.                  *)
BedrockRegionOf ==
    LET req == [to |-> "region"]
    IN  IF ~Asked(req) THEN Ask(req)
        ELSE CASE ReplyTo(req).code = "200" -> Ok(IF ReplyTo(req).body.is = "blank" THEN "default" ELSE ReplyTo(req).body.is)
               [] ReplyTo(req).code = "failed" -> Ok("default")
               [] OTHER -> Err(BedrockToolKind(ReplyTo(req).code))
(* resolve_credentials.                                                     *)
BedrockCredentials(source) ==
    LET configured == IF setup.region = "none" THEN "default" ELSE setup.region
    IN  IF source # "profile" THEN Ok(configured)
        ELSE Then(BedrockExport, LAMBDA keys : IF setup.region # "none" THEN Ok(configured) ELSE BedrockRegionOf)

(* optional_token.                                                          *)
BedrockToken(t) == IF t = "overlong" THEN Err("Parse") ELSE Ok(IF t = "none" THEN None ELSE Some(t))
(* valid_day_text.                                                          *)
BedrockDay(d) == IF d > 0 THEN Some(d) ELSE None
(* parse_cost_page: services other than Bedrock are left out, a Bedrock     *)
(* service without an amount is refused.                                    *)
BedrockGroups(groups) ==
    LET wanted == SelectSeq(groups, LAMBDA g : g.service # "other")
    IN  IF \E i \in DOMAIN wanted : wanted[i].service = "overlong" \/ wanted[i].amount = None THEN Err("Parse")
        ELSE Ok([i \in DOMAIN wanted |-> [day |-> BedrockDay(wanted[i].day), service |-> wanted[i].service, amount |-> wanted[i].amount[1]]])
BedrockCostPage(b) ==
    IF b.is # "costs" \/ Len(b.groups) > BedrockMaxGroups THEN Err("Parse")
    ELSE Then(BedrockToken(b.next), LAMBDA next : Then(BedrockGroups(b.groups), LAMBDA groups : Ok([figures |-> groups, next |-> next])))
(* is_data_unavailable: a period without data is an empty page.             *)
BedrockNoData(r) == r.code = "400" /\ r.body.is = "unavailable"
(* CloudMetric::from_id, CloudMetricTotals::add_metric.                     *)
BedrockMetrics == {"input", "output", "requests"}
BedrockSum(results, metric) ==
    FoldLeft(LAMBDA sum, r : sum + (IF r.metric = metric THEN r.value ELSE 0), 0, results)
(* parse_cloudwatch_page.                                                   *)
BedrockWatchPage(b) ==
    IF b.is # "metrics" \/ b.messages
       \/ \E i \in DOMAIN b.results : b.results[i].metric \notin BedrockMetrics \/ ~b.results[i].complete \/ b.results[i].value < 0 THEN Err("Parse")
    ELSE Then(BedrockToken(b.next), LAMBDA next : Ok([figures |-> b.results, next |-> next]))

(* cost_explorer_body and cloudwatch_body: what a page is asked with.       *)
BedrockCostRequest(by, token) == [to |-> by, token |-> token]
BedrockWatchRequest(token) == [to |-> "metrics", token |-> token]
(* One more page: its token must be new.                                    *)
BedrockStep(to, s) ==
    LET req == IF to = "metrics" THEN BedrockWatchRequest(s.token) ELSE BedrockCostRequest(to, s.token)
        Failed(kind) == [is |-> "err", kind |-> kind, last |-> req]
        Page(p) == IF p.is = "err" THEN Failed(p.kind)
                   ELSE LET next == p.value.next IN
                        IF next # None /\ next[1] \in s.seen THEN Failed("Parse")
                        ELSE [is |-> IF next = None THEN "ok" ELSE "more", token |-> next, last |-> req, value |-> s.value \o p.value.figures,
                              seen |-> IF next = None THEN s.seen ELSE s.seen \cup {next[1]}]
    IN  IF ~Asked(req) THEN Ask(req)
        ELSE LET r == ReplyTo(req) IN
             IF r.code = "200" THEN Page(IF to = "metrics" THEN BedrockWatchPage(r.body) ELSE BedrockCostPage(r.body))
             ELSE IF to # "metrics" /\ BedrockNoData(r) THEN Page(Ok([figures |-> <<>>, next |-> None]))
             ELSE Failed(Classified(r.code))
(* cost_explorer_pages, and the loop of fetch_cloudwatch.                   *)
BedrockPages(to) ==
    LET Walk[n \in 0..BedrockMaxPages] ==
          IF n = 0 THEN [is |-> "more", token |-> None, seen |-> {}, value |-> <<>>, last |-> None]
          ELSE IF Walk[n - 1].is # "more" THEN Walk[n - 1] ELSE BedrockStep(to, Walk[n - 1])
        end == Walk[BedrockMaxPages]
    IN  IF end.is = "more" THEN [is |-> "err", kind |-> "Parse", last |-> end.last] ELSE end

(* fetch_monthly_cost.                                                      *)
BedrockMonthly ==
    LET p == BedrockPages("monthly")
    IN  IF p.is = "ok" THEN Ok([spend |-> FoldLeft(LAMBDA sum, g : sum + g.amount, 0, p.value), last |-> p.last]) ELSE p
(* should_fetch_cloudwatch: an own cost address has no CloudWatch unless it *)
(* is named too.                                                            *)
BedrockWatched == setup.costs = "none" \/ setup.watch # "none"
(* valid_region and cloudwatch_endpoint.                                    *)
BedrockRegional(region) == IF region = "odd" THEN Err("Parse") ELSE Ok(region)
(* fetch_cloudwatch and CloudMetricTotals::finish.                          *)
BedrockWatch(region, last) ==
    IF setup.watch = "none" /\ BedrockRegional(region).is = "err" THEN [is |-> "err", kind |-> "Parse", last |-> last]
    ELSE LET p == BedrockPages("metrics")
         IN  IF p.is = "ok" THEN [p EXCEPT !.value = [m \in BedrockMetrics |-> BedrockSum(p.value, m)]] ELSE p
(* build_history: the days that cost something.                             *)
BedrockHistory(groups) ==
    LET counted == SelectSeq(groups, LAMBDA g : g.day # None /\ g.amount > 0)
        daily == [d \in {counted[i].day[1] : i \in DOMAIN counted} |->
                    FoldLeft(LAMBDA sum, g : sum + g.amount, 0, SelectSeq(counted, LAMBDA g : g.day[1] = d))]
    IN  [daily |-> daily, total |-> FoldLeft(LAMBDA sum, g : sum + g.amount, 0, counted),
         session |-> IF counted = <<>> THEN 0 ELSE daily[Max(DOMAIN daily)]]
(* fetch_cost_history_with_credentials.                                     *)
BedrockDaily ==
    LET p == BedrockPages("daily") IN IF p.is = "ok" THEN [p EXCEPT !.value = BedrockHistory(p.value)] ELSE p
(* What is extra: a failure costs it, a cancellation everything.            *)
BedrockExtra(p) ==
    CASE p.is = "ok" -> Ok(Some(p.value))
      [] p.is = "err" -> IF p.last # None /\ CancelledBy(p.last) THEN p ELSE Ok(None)
      [] OTHER -> p

(* next_local_month_with_resolver: the clock's offset at the next month's   *)
(* first midnight is looked for in four steps.                              *)
BedrockOffset(instant) == IF instant < setup.zone.change THEN setup.zone.before ELSE setup.zone.after
BedrockNextMonth ==
    LET Try[k \in 0..4] ==
          IF k = 0 THEN BedrockOffset(setup.now)
          ELSE LET offset == Try[k - 1] IN BedrockOffset(BedrockMonthHours - offset)
        found == {k \in 1..4 : Try[k] = Try[k - 1]}
    IN  IF found = {} THEN Err("Parse") ELSE Ok(BedrockMonthHours - Try[Min(found)])
(* normalize.                                                               *)
BedrockPercent(spend, limit) == IF spend <= 0 THEN 0 ELSE IF spend >= limit THEN 100 ELSE Clamp((100 * spend) \div limit, 0, 100)
BedrockNormal(spend, activity, history) ==
    Then(BedrockNextMonth, LAMBDA reset :
      Ok([windows |-> IF BedrockBudget = None THEN <<>> ELSE <<[percent |-> BedrockPercent(spend, BedrockBudget[1])]>>,
          reset |-> reset, spend |-> spend, activity |-> activity, history |-> history]))

(* fetch_at.                                                                *)
BedrockFetch ==
    Then(BedrockSettings, LAMBDA s : Then(BedrockCredentials(s.source), LAMBDA region : Then(BedrockMonthly, LAMBDA month :
    Then(IF BedrockWatched THEN BedrockExtra(BedrockWatch(region, month.last)) ELSE Ok(None), LAMBDA activity :
    Then(BedrockExtra(BedrockDaily), LAMBDA history : BedrockNormal(month.spend, activity, history))))))

BedrockSetups ==
    LET S(oneshot, access, stored, mode, profile, tool, region, budget, costs, watch, zone, varies) ==
          [provider |-> "bedrock", source |-> "CloudCredentials", now |-> 500, oneshot |-> oneshot, access |-> access, secret |-> "good", stored |-> stored,
           mode |-> mode, profile |-> profile, tool |-> tool, variables |-> 2, region |-> region, budget |-> budget, costs |-> costs, watch |-> watch,
           zone |-> zone, varies |-> varies]
        Z(change, before, after) == [change |-> change, before |-> before, after |-> after]
        steady == Z(0, 2, 2)
    IN  {S(o, a, s, m, p, "good", "none", None, "none", "none", steady, "nothing") : o \in {None, Some("oneshot")}, a \in {"none", "malformed", "good"},
           s \in {None, Some("stored")}, m \in {"none", "keys", "profile", "odd"}, p \in {"none", "good", "overlong"}}
        \cup {S(None, "none", None, "none", "good", t, r, None, "none", "none", steady, "nothing") : t \in {"none", "bad", "good"}, r \in {"none", "set"}}
        \cup {[S(None, "none", None, "none", "good", "good", "set", None, "none", "none", steady, "nothing") EXCEPT !.variables = BedrockMaxVariables + 1]}
        \cup {S(None, "good", None, "none", "none", "good", r, None, c, w, steady, "nothing") : r \in {"odd", "set"}, c, w \in {"none", "insecure", "own"}}
        \cup {S(None, "good", None, "none", "none", "good", "set", b, "own", "none", z, "monthly") : b \in {None, Some(0), Some(10)}, z \in {steady, Z(720, 0, 1)}}
        \cup {S(None, "good", None, "none", "none", "good", "set", None, "own", "none", z, "nothing") :
                z \in {Z(600, 0, 1), Z(600, 1, 0), Z(720, 0, 1), Z(720, 0, -1), Z(719, 1, 0)}}
        \cup {S(None, "good", None, "none", "none", "good", "set", None, "none", "none", steady, "metrics"),
              S(None, "good", None, "none", "none", "good", "set", None, "own", "none", steady, "daily")}
BedrockReplies(req) ==
    LET G(day, service, amount) == [day |-> day, service |-> service, amount |-> amount]
        C(next, groups) == [is |-> "costs", next |-> next, groups |-> groups]
        some == G(15, "bedrock", Some(4))
        R(metric, complete, value) == [metric |-> metric, complete |-> complete, value |-> value]
        M(next, messages, results) == [is |-> "metrics", next |-> next, messages |-> messages, results |-> results]
        nodata == {Reply("400", [is |-> "unavailable"])}
    IN  CASE req.to = "export" ->
               Refusals({"login", "no file", "timeout", "toolarge", "failed", "cancelled"})
               \cup Bodies([is : {"junk"}] \cup [is : {"keys"}, access : {"good", "none"}, secret : {"good", "malformed"}])
          [] req.to = "region" -> Refusals({"failed", "no file", "timeout", "cancelled"}) \cup Bodies([is : {"blank", "odd", "set"}])
          [] req.to \in {"monthly", "daily"} ->
               IF setup.varies # req.to THEN Bodies({C("none", <<some>>)}) \cup (IF req.to = "daily" THEN Refusals({"401", "cancelled"}) ELSE {})
               ELSE Refusals({"401", "403", "400", "429", "network", "cancelled"}) \cup nodata
                    \cup Bodies([is : {"junk"}]
                         \cup {C(n, <<some, G(16, "other", None)>>) : n \in {"none", "a", "b", "overlong"}}
                         \cup {C("none", <<>>), C("none", <<G(0, "bedrock", Some(3)), G(14, "bedrock", Some(-2)), some>>), C("none", <<G(3, "overlong", Some(1))>>),
                               C("none", <<G(3, "bedrock", None)>>), C("none", [i \in 1..(BedrockMaxGroups + 1) |-> some])})
          [] req.to = "metrics" ->
               IF setup.varies # "metrics" THEN Refusals({"403", "cancelled"})
               ELSE Refusals({"400", "401", "timeout", "cancelled"})
                    \cup Bodies([is : {"junk"}]
                         \cup {M(n, FALSE, <<R("input", TRUE, 3), R("requests", TRUE, 1), R("input", TRUE, 2)>>) : n \in {"none", "a", "b", "overlong"}}
                         \cup {M("none", TRUE, <<>>), M("none", FALSE, <<R("input", FALSE, 3)>>), M("none", FALSE, <<R("other", TRUE, 3)>>), M("none", FALSE, <<R("output", TRUE, -1)>>)})

----------------------------------------------------------------------------
(* Vertex AI. A credential file of gcloud, the quota figures of Cloud       *)
(* Monitoring. Times are in minutes.                                        *)

(* required_absolute_directory, optional_absolute_directory,                *)
(* validated_absolute_path and validate_path_bound.                         *)
VertexPath(path) == IF path \in {"relative", "overlong"} THEN Err("Api") ELSE Ok(path)
VertexHome == IF setup.home = "none" THEN Err("Api") ELSE VertexPath(setup.home)
(* read_bounded_required and read_open_file_bounded.                        *)
VertexRead(file) ==
    CASE file.is = "missing" -> Err("MissingCredential") [] file.is \in {"large", "folder"} -> Err("Parse") [] OTHER -> Ok(file)
(* validate_project.                                                        *)
VertexValidProject(project) == IF project = "odd" THEN Err("Api") ELSE Ok(project)
(* load_project_id: the configuration file, then the environment.           *)
VertexProject ==
    CASE setup.config = "unreadable" -> Err("Parse")
      [] setup.config \in {"none", "blank"} ->
           IF setup.project = "none" THEN Ok(None) ELSE Then(VertexValidProject(setup.project), LAMBDA p : Ok(Some(p)))
      [] OTHER -> Then(VertexValidProject(setup.config), LAMBDA p : Ok(Some(p)))
(* find_gcloud and gcloud_environment.                                      *)
VertexTool == CASE setup.tool = "none" -> Err("MissingCredential") [] setup.tool = "bad" -> Err("Api") [] OTHER -> Ok(setup.tool)
(* clean_identity, email_from_id_token and decode_base64_url: an identity   *)
(* that cannot be read is none.                                             *)
VertexIdentity(email) == IF email \in {"empty", "overlong"} THEN Err("Parse") ELSE Ok(email)
VertexEmail(token) == IF token = "odd" THEN "none" ELSE token
(* SecretString: an empty one is refused with its document.                 *)
VertexSecret(doc) == IF "empty" \in {doc.client, doc.refresh, doc.access} THEN Err("Parse") ELSE Ok(doc)
(* parse_adc: a service account, or the login of a user.                    *)
VertexService(doc) ==
    IF doc.type \notin {"none", "service_account", "external_account"} \/ doc.email = "none" \/ ~doc.key THEN Err("Parse")
    ELSE Then(VertexIdentity(doc.email), LAMBDA email :
         Then(IF doc.project = "none" THEN Ok(None) ELSE Then(VertexValidProject(doc.project), LAMBDA p : Ok(Some(p))), LAMBDA project :
         Then(VertexTool, LAMBDA tool : Ok([is |-> "service", email |-> email, project |-> project]))))
VertexUser(doc) ==
    IF "none" \in {doc.client, doc.refresh} THEN Err("MissingCredential")
    ELSE Ok([is |-> "user", email |-> VertexEmail(doc.id), project |-> None, access |-> doc.access, expiry |-> doc.expiry])
VertexAdc(doc) == IF doc.email # "none" \/ doc.key THEN VertexService(doc) ELSE VertexUser(doc)
(* VertexSettings::resolve.                                                 *)
VertexSettings ==
    Then(VertexHome, LAMBDA home : Then(VertexPath(setup.path), LAMBDA path : Then(VertexRead(setup.adc), LAMBDA file :
    Then(IF file.is = "junk" THEN Err("Parse") ELSE VertexSecret(file), LAMBDA doc : Then(VertexProject, LAMBDA configured :
    Then(VertexAdc(doc), LAMBDA credentials :
      LET project == FirstOf(<<credentials.project, configured>>)
      IN  IF project = None THEN Err("MissingCredential")
          ELSE Then(VertexValidProject(project[1]), LAMBDA p : Ok([credentials |-> credentials, project |-> p]))))))))

(* token_is_fresh: five minutes before its end a token is renewed.          *)
VertexFresh(c) == c.access # "none" /\ c.expiry # None /\ c.expiry[1] > setup.now + VertexEarly
(* AccessToken::parse.                                                      *)
VertexAccess(token) == IF token \in {"none", "empty"} THEN Err("Parse") ELSE Ok(token)
(* refresh_user_token: 400 and 401 say what is wrong with the login.        *)
VertexRefused(r) ==
    IF r.body.error \in {"invalid_grant", "unauthorized_client", "none"} \/ r.code = "401" THEN "AuthenticationExpired" ELSE "Api"
VertexRefresh(c) ==
    LET req == [to |-> "token"]
    IN  IF ~Asked(req) THEN Ask(req)
        ELSE LET r == ReplyTo(req) IN
             CASE r.code = "200" -> IF r.body.is = "junk" \/ r.body.type \notin {"none", "bearer"} THEN Err("Parse")
                                    ELSE Then(VertexAccess(r.body.access), LAMBDA t :
                                           Ok([token |-> "renewed", email |-> IF VertexEmail(r.body.id) # "none" THEN VertexEmail(r.body.id) ELSE c.email]))
               [] r.code \in {"400", "401"} -> Err(VertexRefused(r))
               [] OTHER -> Err(Classified(r.code))
(* map_subprocess_error of vertexai.rs.                                     *)
VertexToolKind(code) ==
    CASE code = "no file" -> "MissingCredential" [] code = "login" -> "AuthenticationExpired"
      [] code \in {"cancelled", "timeout"} -> "Network" [] code = "toolarge" -> "Parse" [] OTHER -> "Api"
(* verify_service_adc, fingerprint: the file is still the one that was      *)
(* read; it is looked at before the tool runs and after.                    *)
VertexVerify(nth) ==
    Then(Sent([to |-> "adc", nth |-> nth], LAMBDA code : IF code = "no file" THEN "MissingCredential" ELSE "Parse"), LAMBDA b :
      IF b.is = "same" THEN Ok("same") ELSE Err("MissingCredential"))
(* gcloud_service_token.                                                    *)
VertexServiceToken(c) ==
    Then(VertexVerify(1), LAMBDA before : Then(Sent([to |-> "gcloud"], VertexToolKind), LAMBDA out :
    Then(VertexVerify(2), LAMBDA after : Then(VertexAccess(out.is), LAMBDA t : Ok([token |-> "minted", email |-> c.email])))))
(* access_token.                                                            *)
VertexToken(c) ==
    IF c.is = "service" THEN VertexServiceToken(c)
    ELSE IF VertexFresh(c) THEN Then(VertexAccess(c.access), LAMBDA t : Ok([token |-> "stored", email |-> c.email])) ELSE VertexRefresh(c)

(* validate_labels, validate_label.                                         *)
VertexLabels(series) == "overlong" \notin {series.metric, series.limit, series.location}
(* validate_page_token and clean_page_token.                                *)
VertexPageToken(t) == IF t = "overlong" THEN Err("Parse") ELSE Ok(IF t = "none" THEN None ELSE Some(t))
(* validate_page.                                                           *)
VertexPage(b) ==
    IF b.is # "series" \/ Len(b.series) > VertexMaxSeries THEN Err("Parse")
    ELSE Then(VertexPageToken(b.next), LAMBDA next :
      IF \E i \in DOMAIN b.series : Len(b.series[i].points) > VertexMaxPoints \/ ~VertexLabels(b.series[i]) THEN Err("Parse")
      ELSE Ok([series |-> b.series, next |-> next]))
(* monitoring_url and the query.                                            *)
VertexRequest(filter, project, token) == [to |-> "series", filter |-> filter, project |-> project, token |-> token]
(* One page more; fetch_time_series.                                        *)
VertexStep(filter, project, s) ==
    Then(Sent(VertexRequest(filter, project, s.token), Classified), LAMBDA b : Then(VertexPage(b), LAMBDA page :
      IF Len(s.series) + Len(page.series) > VertexMaxSeries \/ (page.next # None /\ page.next[1] \in s.seen) THEN Err("Parse")
      ELSE [is |-> IF page.next = None THEN "ok" ELSE "more", token |-> page.next, series |-> s.series \o page.series,
            value |-> s.series \o page.series, seen |-> IF page.next = None THEN s.seen ELSE s.seen \cup {page.next[1]}]))
VertexSeries(filter, project) ==
    LET Walk[n \in 0..VertexMaxPages] ==
          IF n = 0 THEN [is |-> "more", token |-> None, series |-> <<>>, seen |-> {}]
          ELSE IF Walk[n - 1].is # "more" THEN Walk[n - 1] ELSE VertexStep(filter, project, Walk[n - 1])
    IN  IF Walk[VertexMaxPages].is = "more" THEN Err("Parse") ELSE Walk[VertexMaxPages]

(* quota_key: a series without a quota's name counts for none.              *)
VertexKey(series) ==
    IF series.metric = "none" THEN None ELSE Some([metric |-> series.metric, limit |-> series.limit, location |-> series.location])
(* maximum_point: a point has one value; one that is not a number is passed *)
(* over.                                                                    *)
VertexValue(p) == IF p.double # None /\ p.int # None THEN Err("Parse") ELSE Ok(p.double \o p.int)
VertexMaximum(points) ==
    IF \E i \in DOMAIN points : VertexValue(points[i]).is = "err" \/ (VertexValue(points[i]).value # None /\ VertexValue(points[i]).value[1] < 0) THEN Err("Parse")
    ELSE LET values == {VertexValue(points[i]).value[1] : i \in {j \in DOMAIN points : VertexValue(points[j]).value # None}}
         IN  Ok(IF values = {} THEN None ELSE Some(Max(values)))
(* aggregate: the largest value of each quota.                              *)
VertexAggregate(series) ==
    LET named == {i \in DOMAIN series : VertexKey(series[i]) # None}
        Best(i) == VertexMaximum(series[i].points)
        counted == {i \in named : Best(i).is = "ok" /\ Best(i).value # None}
    IN  IF \E i \in named : Best(i).is = "err" THEN Err("Parse")
        ELSE Ok([k \in {VertexKey(series[i])[1] : i \in counted} |-> Max({Best(i).value[1] : i \in {j \in counted : VertexKey(series[j])[1] = k}})])
(* make_quota_percent: the limit of the same name, or for a usage without   *)
(* one the only limit of its quota and place.                               *)
VertexLimit(limits, key) ==
    LET alike == {k \in DOMAIN limits : limits[k] > 0 /\ k.metric = key.metric /\ k.location = key.location}
    IN  IF key \in DOMAIN limits /\ limits[key] > 0 THEN Some(limits[key])
        ELSE IF key.limit = "" /\ Cardinality(alike) = 1 THEN Some(limits[CHOOSE k \in alike : TRUE]) ELSE None
VertexPercent(usage, limits) ==
    Then(VertexAggregate(usage), LAMBDA used : Then(VertexAggregate(limits), LAMBDA most :
      LET known == {k \in DOMAIN used : VertexLimit(most, k) # None}
      IN  Ok(IF known = {} THEN None ELSE Some(Max({(100 * used[k]) \div VertexLimit(most, k)[1] : k \in known})))))
(* fetch_quota_percent.                                                     *)
VertexQuota(project) ==
    Then(VertexSeries("usage", project), LAMBDA usage : Then(VertexSeries("limit", project), LAMBDA limits : VertexPercent(usage, limits)))
(* normalize.                                                               *)
VertexNormal(project, email, percent) ==
    [windows |-> IF percent = None THEN <<>> ELSE <<[percent |-> percent[1]]>>, project |-> project, email |-> email]
(* fetch_at.                                                                *)
VertexFetch ==
    Then(VertexSettings, LAMBDA s : Then(VertexToken(s.credentials), LAMBDA token : Then(VertexQuota(s.project), LAMBDA percent :
      Ok(VertexNormal(s.project, token.email, percent)))))

VertexSetups ==
    LET D(type, email, key, project, client, refresh, access, expiry, id) ==
          [is |-> "doc", type |-> type, email |-> email, key |-> key, project |-> project, client |-> client, refresh |-> refresh, access |-> access, expiry |-> expiry, id |-> id]
        user == D("none", "none", FALSE, "none", "c", "r", "a", Some(600), "me")
        service == D("service_account", "bot", TRUE, "p", "none", "none", "none", None, "none")
        S(home, path, adc, config, project, tool, varies) ==
          [provider |-> "vertexai", source |-> "CloudCredentials", now |-> 500, home |-> home, path |-> path, adc |-> adc, config |-> config, project |-> project, tool |-> tool, varies |-> varies]
    IN  {S(h, p, a, "p", "none", "good", "nothing") : h \in {"none", "relative", "set"}, p \in {"overlong", "set"},
           a \in {user, [is |-> "missing"], [is |-> "large"], [is |-> "junk"]}}
        \cup {S("set", "set", a, c, p, "good", "nothing") : a \in {user, service, [service EXCEPT !.project = "none"]},
                c \in {"none", "blank", "unreadable", "odd", "q"}, p \in {"none", "odd", "e"}}
        \cup {S("set", "set", a, "q", "none", t, "nothing") : t \in {"none", "bad", "good"},
                a \in {[service EXCEPT !.type = "authorized_user"], [service EXCEPT !.email = "empty"], [service EXCEPT !.key = FALSE],
                       [service EXCEPT !.email = "none"], [service EXCEPT !.project = "odd"]}}
        \cup {S("set", "set", a, "q", "none", "good", "nothing") :
                a \in {[user EXCEPT !.client = "none"], [user EXCEPT !.refresh = "empty"], [user EXCEPT !.access = "empty"]}}
        \cup {S("set", "set", [user EXCEPT !.expiry = e, !.access = a, !.id = i], "q", "none", "good", "token") :
                e \in {None, Some(505), Some(506)}, a \in {"none", "a"}, i \in {"odd", "me"}}
        \cup {S("set", "set", service, "none", "none", "good", "token"), S("set", "set", user, "q", "none", "good", "usage"), S("set", "set", user, "q", "none", "good", "limit"),
              S("set", "set", user, "q", "none", "good", "pages")}
VertexReplies(req) ==
    LET P(double, int) == [double |-> double, int |-> int]
        T(metric, limit, location, points) == [metric |-> metric, limit |-> limit, location |-> location, points |-> points]
        B(next, series) == [is |-> "series", next |-> next, series |-> series]
        low == <<P(Some(3), None), P(None, Some(8)), P(None, None)>>
        ten == <<P(None, Some(10))>>
        plain == B("none", <<T("m", "l", "global", IF req.to = "series" /\ req.filter = "usage" THEN low ELSE ten)>>)
    IN  CASE req.to = "token" ->
               Refusals({"500", "network", "cancelled"})
               \cup [code : {"400", "401"}, body : [is : {"error"}, error : {"invalid_grant", "none", "other"}]]
               \cup Bodies([is : {"junk"}] \cup [is : {"tokens"}, type : {"none", "bearer", "mac"}, access : {"none", "t"}, id : {"odd", "you"}])
          [] req.to = "adc" ->
               IF setup.varies # "token" THEN Bodies([is : {"same"}]) ELSE Refusals({"no file", "toolarge"}) \cup Bodies([is : {"same", "changed"}])
          [] req.to = "gcloud" ->
               IF setup.varies # "token" THEN Bodies([is : {"t"}])
               ELSE Refusals({"no file", "login", "failed", "timeout", "toolarge", "cancelled"}) \cup Bodies([is : {"t", "empty"}])
          [] req.to = "series" /\ setup.varies = "pages" ->
               Bodies({B(n, <<T("m", "l", "global", low), T("n", "l", "global", ten)>>) : n \in {"none", "a", "b"}})
          [] req.to = "series" /\ setup.varies = req.filter ->
               Refusals({"401", "403", "429", "network", "cancelled"})
               \cup Bodies([is : {"junk"}]
                    \cup {B("overlong", <<>>), B("none", <<>>), B("none", [i \in 1..(VertexMaxSeries + 1) |-> T("m", "l", "global", ten)]),
                          B("none", <<T("m", "l", "global", [i \in 1..(VertexMaxPoints + 1) |-> P(Some(1), None)])>>), B("none", <<T("m", "overlong", "global", ten)>>),
                          B("none", <<T("m", "l", "global", <<P(Some(1), Some(2))>>)>>), B("none", <<T("m", "l", "global", <<P(Some(-1), None)>>)>>),
                          B("none", <<T("m", "l", "global", <<P(Some(0), None)>>), T("m", "k", "global", <<P(Some(25), None)>>)>>),
                          B("none", <<T("m", "", "global", ten), T("m", "k", "west", low)>>), B("none", <<T("none", "l", "global", ten), T("m", "l", "west", <<P(None, None)>>)>>),
                          B("none", <<T("m", "l", "global", low), T("m", "l", "global", ten), T("n", "l", "global", low)>>)})
          [] OTHER -> Refusals({"cancelled"}) \cup Bodies({plain, B("none", <<T("m", "l", "global", low), T("m", "k", "global", ten)>>), B("none", <<T("m", "", "global", low)>>)})

----------------------------------------------------------------------------
Fetch == CASE setup.provider = "zai" -> ZaiFetch [] setup.provider = "openrouter" -> OrFetch
           [] setup.provider = "doubao" -> DoubaoFetch [] setup.provider = "bedrock" -> BedrockFetch
           [] setup.provider = "vertexai" -> VertexFetch
Replies(req) == CASE setup.provider = "zai" -> ZaiReplies(req) [] setup.provider = "openrouter" -> OrReplies(req)
             [] setup.provider = "doubao" -> DoubaoReplies(req) [] setup.provider = "bedrock" -> BedrockReplies(req)
             [] setup.provider = "vertexai" -> VertexReplies(req)
Setups == ZaiSetups \cup OrSetups \cup DoubaoSetups \cup BedrockSetups
          \cup VertexSetups

Init == Start(Setups)
Next == Advance(Fetch, Replies)
Spec == Init /\ [][Next]_vars

----------------------------------------------------------------------------
(* The user is asked to sign in only after a refusal, or before anything    *)
(* was sent because no key was given.                                       *)
SaysLogin(r) ==
    \/ r.code \in {"401", "403", "login"}
    \/ setup.provider = "vertexai" /\ r.code = "400" /\ r.body.error # "other"
    \/ setup.provider = "doubao" /\ r.code = "200" /\ setup.source = "Cli" /\ r.body.is = "plan" /\ r.body.auth = "none"
LoginOnlyWhenRefused ==
    /\ FailedWith({"AuthenticationExpired"}) => log = <<>> \/ \E i \in DOMAIN log : SaysLogin(log[i].reply)
    /\ FailedWith({"MissingCredential"}) => log = <<>> \/ Saw({"no file"}) \/ SawBody({"changed"})

(* Usage that was answered is shown, whatever the optional requests after   *)
(* it said; only a cancellation hides it (and, of Bedrock, a clock that has  *)
(* no midnight at the start of the next month).                             *)
HoldsUsage(b) ==
    CASE setup.provider = "zai" -> b.is = "quota" /\ ZaiQuota(b).is = "ok" /\ ZaiNormal(ZaiQuota(b).value).is = "ok"
      [] setup.provider = "openrouter" -> b.is = "credits"
      [] setup.provider = "doubao" -> (CASE setup.source = "CloudCredentials" -> b.is = "coding" /\ DoubaoCoding(b).is = "ok" /\ DoubaoCoding(b).value.quotas # <<>>
                                        [] setup.source = "ApiKey" -> TRUE
                                        [] setup.source = "Cli" -> b.is = "plan" /\ DoubaoArkcli(b).is = "ok")
      [] setup.provider = "bedrock" -> BedrockMonthly.is = "ok" /\ BedrockNextMonth.is = "ok"
      [] setup.provider = "vertexai" -> VertexSettings.is = "ok" /\ VertexQuota(VertexSettings.value.project).is = "ok"

(* A management key never goes to an address of the environment, nor a      *)
(* secret variable to a tool; a chat model that answered is asked at most   *)
(* once more; pages stay bounded; a service account's token is used only if *)
(* the credential file was the same before it was minted and after.         *)
RequestsStayInBounds ==
    /\ setup.provider = "openrouter" => \A i \in DOMAIN log : log[i].req.key = "management" => log[i].req.at = "openrouter"
    /\ setup.provider = "doubao" =>
         /\ Len(log) <= DoubaoModels + 1
         /\ \A i \in DOMAIN log : log[i].req.to = "arkcli" => log[i].req.environment \subseteq {"HOME", "PATH"}
         /\ setup.source = "ApiKey" =>
              \A i \in DOMAIN log : log[i].reply.code \in {"200", "429"} => \A j \in (i + 1)..Len(log) : log[j].req.model = log[i].req.model
    /\ setup.provider = "bedrock" =>
         \A to \in {"monthly", "daily", "metrics"} : Cardinality({i \in DOMAIN log : log[i].req.to = to}) <= BedrockMaxPages
    /\ setup.provider = "vertexai" =>
         /\ \A f \in {"usage", "limit"} : Cardinality({i \in DOMAIN log : log[i].req.to = "series" /\ log[i].req.filter = f}) <= VertexMaxPages
         /\ \A i \in DOMAIN log : log[i].req.to = "series" /\ VertexSettings.value.credentials.is = "service" =>
              \A nth \in {1, 2} : \E j \in 1..(i - 1) : log[j].req = [to |-> "adc", nth |-> nth] /\ log[j].reply.body.is = "same"

=============================================================================
