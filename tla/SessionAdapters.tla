----------------------------- MODULE SessionAdapters -----------------------------
(****************************************************************************)
(* The adapters that read a web application with the session of a browser,  *)
(* pasted or imported, and its programs and keys besides: Amp (providers/   *)
(* amp.rs), Kimi (kimi.rs), OpenCode (opencode.rs) and Mistral              *)
(* (mistral.rs). A page or answer is given by what the parsers look for in  *)
(* it. Percentages are whole numbers, times hours.                          *)
(****************************************************************************)
EXTENDS ProviderFetch, SequencesExt, TLC

CONSTANTS
    MaxSessions,   \* MAX_BROWSER_SESSIONS
    MaxHops,       \* MAX_NAVIGATION_REDIRECTS
    MaxWorkspaces, \* MAX_WORKSPACES
    HistoryDays,   \* HISTORY_DAYS
    MaxEntries     \* MAX_ENTRIES

(* browser_sessions: each profile's first store with a session, each        *)
(* session once; too many are an error, and so is none.                     *)
Sessions(profiles) ==
    LET found == [i \in DOMAIN profiles |-> FirstOf(profiles[i])]
        there == SelectSeq(found, LAMBDA s : s # None)
        fresh == {i \in DOMAIN there : \A j \in 1..(i - 1) : there[j] # there[i]}
        distinct == [k \in 1..Cardinality(fresh) |->
                       there[CHOOSE i \in fresh : Cardinality({j \in fresh : j <= i}) = k][1]]
    IN  IF Len(distinct) > MaxSessions THEN Err("Parse")
        ELSE IF distinct = <<>> THEN Err("MissingCredential") ELSE Ok(distinct)

(* A setting that is there and clean (clean_setting), or the error without. *)
Needed(value) == IF value = "ok" THEN Ok(value) ELSE Err("MissingCredential")

----------------------------------------------------------------------------
(* Amp. The display text is a sequence of lines.                            *)

Dst == [start |-> 40, end |-> 60]   \* the days on which summer time starts and ends
(* eastern_offset_at_utc and eastern_offset_for_local_date.                 *)
OffsetAtUtc(t) == IF t >= 24 * Dst.start + 7 /\ t < 24 * Dst.end + 6 THEN 4 ELSE 5
OffsetOnDate(day) == IF day >= Dst.start /\ day < Dst.end THEN 4 ELSE 5
(* next_eastern_daily_reset: eight in the evening, New York.                *)
NextDailyReset(t) ==
    LET local == t - OffsetAtUtc(t)
        day == (local \div 24) + (IF local % 24 >= 20 THEN 1 ELSE 0)
    IN  24 * day + 20 + OffsetOnDate(day)

(* parse_legacy_free, parse_hourly_replenishment and parse_daily_free.      *)
AmpFreeLine(l) ==
    IF l.is # "free" THEN None
    ELSE IF l.form = "legacy"
    THEN Some([quota |-> l.quota, hourly |-> l.hourly,
               used |-> IF l.remaining > l.quota THEN 0 ELSE l.quota - l.remaining,
               reset |-> IF l.hourly > 0 THEN "Rolling" ELSE "None",
               hours |-> IF l.hourly = 0 THEN None
                         ELSE Some(IF l.quota < l.hourly THEN 1 ELSE l.quota \div l.hourly)])
    ELSE Some([quota |-> 100, hourly |-> 0, used |-> 100 - Clamp(l.remaining, 0, 100),
               reset |-> IF l.exact THEN "Daily" ELSE "None", hours |-> Some(24)])

(* parse_subscription: what remains, in percent, and when it renews.        *)
AmpSubscriptionLine(l) ==
    IF l.is # "subscription" THEN None
    ELSE Some([other |-> 100 - Clamp(l.other, 0, 100), orb |-> 100 - Clamp(l.orb, 0, 100),
               reset |-> setup.now + 24 * l.days])

(* parse_remaining_amount and parse_workspace.                              *)
AmpCreditsLine(l) == IF l.is = "credits" THEN l.amount ELSE None
AmpWorkspaces(lines) == SelectSeq(lines, LAMBDA l : l.is = "workspace" /\ l.amount # None)

(* parse_identity: an overlong one before the first good one is an error.   *)
AmpIdentityBroken(lines) ==
    \E i \in DOMAIN lines : /\ lines[i].is = "identity" /\ ~lines[i].ok
                            /\ \A j \in 1..(i - 1) : lines[j].is # "identity"
AmpFirst(lines, kind) == FirstOf([i \in DOMAIN lines |->
    CASE kind = "legacy" -> IF lines[i].is = "free" /\ lines[i].form = "legacy" THEN AmpFreeLine(lines[i]) ELSE None
      [] kind = "daily" -> IF lines[i].is = "free" /\ lines[i].form = "daily" THEN AmpFreeLine(lines[i]) ELSE None
      [] kind = "subscription" -> AmpSubscriptionLine(lines[i])
      [] kind = "credits" -> AmpCreditsLine(lines[i])])

(* ParsedUsage::parse: one more workspace line than the limit is an error,  *)
(* whatever it says; without an identity the text may ask for a login.      *)
AmpParse(lines) ==
    LET usage == [free |-> FirstOf(<<AmpFirst(lines, "legacy"), AmpFirst(lines, "daily")>>),
                  subscription |-> AmpFirst(lines, "subscription"), credits |-> AmpFirst(lines, "credits"),
                  workspaces |-> AmpWorkspaces(lines)]
        beyond == \E i \in DOMAIN lines : /\ lines[i].is = "workspace"
                                          /\ Len(AmpWorkspaces(SubSeq(lines, 1, i - 1))) = MaxWorkspaces
        named == \E i \in DOMAIN lines : lines[i].is = "identity"
    IN  IF AmpIdentityBroken(lines) \/ beyond THEN Err("Parse")
        ELSE IF ~named /\ \E i \in DOMAIN lines : lines[i].is = "login" THEN Err("AuthenticationExpired")
        ELSE IF usage.free = None /\ usage.subscription = None /\ usage.credits = None
                /\ usage.workspaces = <<>> THEN Err("Parse")
        ELSE Ok(usage)

(* FreeUsage::rate_window: what was used comes back hour by hour, or at the *)
(* daily reset.                                                             *)
AmpFreeWindow(free) ==
    [percent |-> CountPercent(free.used, free.quota),
     reset |-> CASE free.reset = "Daily" -> Some(NextDailyReset(setup.now))
                 [] free.reset = "Rolling" /\ free.quota > 0 /\ free.hourly > 0 ->
                      Some(setup.now + (free.used \div free.hourly))
                 [] OTHER -> None]

(* ParsedUsage::normalize: a subscription has the two main windows, and the *)
(* free tier moves to an extra one.                                         *)
AmpNormalize(u) ==
    LET free == IF u.free = None THEN <<>> ELSE <<AmpFreeWindow(u.free[1])>>
        subscribed == u.subscription # None
    IN  Ok([windows |-> IF subscribed
                        THEN <<[percent |-> u.subscription[1].other, reset |-> Some(u.subscription[1].reset)],
                               [percent |-> u.subscription[1].orb, reset |-> Some(u.subscription[1].reset)]>> \o free
                        ELSE free,
            rows |-> Len(u.workspaces) + (IF u.credits = None THEN 0 ELSE 1)])
AmpText(lines) == Then(AmpParse(lines), AmpNormalize)

(* fetch_api.                                                               *)
AmpApiKind(code) == IF code \in {"401", "403"} THEN "AuthenticationExpired" ELSE Classified(code)
AmpApi ==
    Then(Needed(setup.key), LAMBDA key : Then(Sent([to |-> "api"], AmpApiKind), LAMBDA b :
      CASE b.is = "junk" -> Err("Parse")
        [] b.is = "auth-required" -> Err("AuthenticationExpired")
        [] b.is = "not-ok" -> Err("Api")
        [] b.is = "text" -> IF b.lines = <<>> THEN Err("Parse") ELSE AmpText(b.lines)))

(* resolve_amp, sanitized_cli_environment and validated_amp_url.            *)
AmpCliSettings ==
    CASE setup.executable = "broken override" -> Err("Api")
      [] setup.executable = "missing" -> Err("MissingCredential")
      [] setup.url = "foreign" -> Err("Api")
      [] setup.key = "overlong" -> Err("MissingCredential")
      [] OTHER -> Ok("amp")
(* map_subprocess_error.                                                    *)
AmpCliKind(code) ==
    CASE code = "asks for login" -> "AuthenticationExpired"
      [] code = "spawn" -> "MissingCredential"
      [] code = "stdout" -> "Parse"
      [] code = "nonzero" -> "Api"
      [] OTHER -> "Network"
(* fetch_cli: standard error is read when standard output is blank.         *)
AmpCli ==
    Then(AmpCliSettings, LAMBDA amp : Then(Sent([to |-> "amp usage"], AmpCliKind), LAMBDA b :
      IF b.lines = <<>> THEN Err("Parse") ELSE AmpText(b.lines)))

(* parse_html_free_usage: the first of two objects with its three numbers.  *)
AmpHtmlFree(b) ==
    LET seen == SelectSeq(b.objects, LAMBDA o : o.is # "partial")
        Usage(o) == [quota |-> o.quota, used |-> o.used, hourly |-> o.hourly, hours |-> None,
                     reset |-> IF o.hourly > 0 THEN "Rolling" ELSE "None"]
    IN  IF seen = <<>> THEN Err(IF b.login THEN "AuthenticationExpired" ELSE "Parse")
        ELSE IF seen[1].is = "unterminated" THEN Err("Parse")
        ELSE AmpNormalize([free |-> Some(Usage(seen[1])), subscription |-> None, credits |-> None,
                           workspaces |-> <<>>])

(* classify_web_status and is_amp_login_redirect.                           *)
AmpWebKind(code) == AmpApiKind(code)
AmpApprovedPages == {"settings", "app", "www"}
(* AmpWebTransport::fetch: the cookie goes to Amp's own pages only, and a   *)
(* redirect to the login page means that the session is over.               *)
AmpPage(session) ==
    LET From[hop \in 0..MaxHops] ==
          LET url == IF hop = 0 THEN "settings"
                     ELSE ReplyTo([to |-> "page", session |-> session, hop |-> hop - 1]).body.to
              req == [to |-> "page", session |-> session, hop |-> hop]
          IN  IF url = "login" THEN Err("AuthenticationExpired")
              ELSE IF url \notin AmpApprovedPages THEN Err("Parse")
              ELSE Then(Sent(req, AmpWebKind), LAMBDA b :
                     IF b.is # "redirect" THEN Ok(b)
                     ELSE IF hop = MaxHops THEN Err("Parse")
                     ELSE From[hop + 1])
    IN  From[0]
(* fetch_web: the next session when one is over, in a browser.              *)
AmpWeb(sessions) ==
    AnyOf(Len(sessions), LAMBDA i : Then(AmpPage(sessions[i]), AmpHtmlFree),
          IF setup.source = "BrowserSession" THEN {"AuthenticationExpired"} ELSE {})

(* from_manual_capture_routes and session_cookie_header.                    *)
ManualSession ==
    IF setup.capture # "ok" THEN Err(CaptureKind(setup.capture))
    ELSE IF ~setup.session THEN Err("MissingCredential") ELSE Ok(<<"pasted">>)

AmpFetch ==
    CASE setup.source = "ApiKey" -> AmpApi
      [] setup.source = "Cli" -> AmpCli
      [] setup.source = "ManualCookie" -> Then(ManualSession, AmpWeb)
      [] setup.source = "BrowserSession" -> Then(Sessions(setup.profiles), AmpWeb)

Free(remaining, quota, hourly) ==
    [is |-> "free", form |-> "legacy", remaining |-> remaining, quota |-> quota, hourly |-> hourly]
AmpTexts ==
    LET identity == [is |-> "identity", ok |-> TRUE]
        workspace == [is |-> "workspace", amount |-> Some(5)]
        daily == [is |-> "free", form |-> "daily", remaining |-> 40, exact |-> TRUE]
    IN  {<<>>, <<[is |-> "login"]>>, <<[is |-> "other"]>>, <<[identity EXCEPT !.ok = FALSE], daily>>,
         <<identity, daily, Free(7, 10, 1)>>, <<Free(12, 10, 0), [is |-> "login"]>>, <<identity, daily>>,
         <<[daily EXCEPT !.remaining = 140], [is |-> "subscription", other |-> 30, orb |-> 130, days |-> 30]>>,
         <<[is |-> "credits", amount |-> None], [is |-> "credits", amount |-> Some(3)], workspace>>,
         <<identity, workspace, workspace, [workspace EXCEPT !.amount = None]>>, <<Free(0, 0, 0)>>}
AmpPages ==
    [is : {"page"}, login : BOOLEAN,
     objects : LET whole == [is |-> "whole", quota |-> 4, used |-> 6, hourly |-> 1]
               IN  {<<[is |-> "partial"]>>, <<[is |-> "partial"], whole>>, <<[is |-> "unterminated"], whole>>}]
    \cup [is : {"redirect"}, to : {"app", "login", "elsewhere"}]
AmpSetups ==
    [provider : {"amp"}, source : {"ApiKey"}, key : {"ok", "none"}, now : {24 * Dst.start - 4}]
    \cup [provider : {"amp"}, source : {"Cli"}, key : {"ok", "overlong"}, url : {"none", "foreign"},
          executable : {"found", "missing", "broken override"},
          now : {24 * Dst.start - 6, 24 * Dst.start + 1, 24 * Dst.start + 6, 24 * Dst.end - 1,
                 24 * Dst.end + 1, 24 * Dst.end + 5, 24 * Dst.end + 24}]
    \cup [provider : {"amp"}, source : {"ManualCookie"}, now : {100}, session : BOOLEAN,
          capture : {"ok", "MissingSecret", "DisallowedUrl", "InvalidPolicy"}]
    \cup [provider : {"amp"}, source : {"BrowserSession"}, now : {100},
          profiles : {<<>>, << <<None>>, <<None, Some(1)>> >>,
                      << <<Some(1), Some(2)>>, <<Some(1)>>, <<Some(2)>> >>,
                      << <<Some(1)>>, <<Some(2)>>, <<Some(3)>> >>}]
AmpReplies(req) ==
    CASE req.to = "api" -> Refusals({"401", "403", "404", "429", "500", "network", "cancelled"})
                        \cup Bodies([is : {"junk", "auth-required", "not-ok"}] \cup [is : {"text"}, lines : AmpTexts])
      [] req.to = "amp usage" -> Refusals({"asks for login", "spawn", "stdout", "nonzero", "timeout", "cancelled"})
                              \cup Bodies([is : {"text"}, lines : AmpTexts])
      [] OTHER -> Refusals({"401", "404", "429", "500", "cancelled"}) \cup Bodies(AmpPages)

----------------------------------------------------------------------------
(* Kimi.                                                                    *)

(* new_api and configured_code_base.                                        *)
KimiKey ==
    IF setup.key # "ok" THEN Err("MissingCredential")
    ELSE IF setup.base = "http" THEN Err("Api") ELSE Ok("key")

(* KimiCliCredential::resolve_at: the file of the CLI, not about to expire, *)
(* and no other service configured; classify_io.                            *)
KimiCliCredential ==
    IF setup.override THEN Err("Api")
    ELSE CASE setup.file = "missing" -> Err("MissingCredential")
           [] setup.file = "denied" -> Err("PermissionDenied")
           [] setup.file = "junk" -> Err("Parse")
           [] setup.file = "token" -> IF setup.expires = None THEN Err("AuthenticationExpired")
                                      ELSE IF setup.expires[1] <= setup.now + 1 THEN Err("AuthenticationExpired")
                                      ELSE Ok("token")

(* parse_web_token, of a bare token, a named one, a cookie or a header.     *)
KimiWebToken(raw) ==
    CASE raw = "none" -> Err("MissingCredential")
      [] raw \in {"jwt", "cookie"} -> Ok(raw)
      [] raw = "other cookie" -> Err("MissingCredential")
      [] raw \in {"plain", "two cookies", "bad"} -> Err("Parse")
(* resolved_web_token: any token of the right characters.                   *)
KimiResolvedToken(raw) ==
    CASE raw = "none" -> Err("MissingCredential")
      [] raw \in {"jwt", "plain"} -> Ok(raw)
      [] OTHER -> Err("Parse")
(* manual_environment_token: a broken first setting is passed over.         *)
KimiManualToken ==
    IF KimiWebToken(setup.manual).is = "ok" THEN KimiWebToken(setup.manual)
    ELSE IF setup.auth # "none"
    THEN OrElse(KimiWebToken(setup.auth), LAMBDA e : KimiResolvedToken(setup.auth))
    ELSE KimiResolvedToken(setup.lower)

(* KimiDesktopCookieStore::load: newest first; a row that cannot be         *)
(* decrypted now is passed over, a broken one is an error.                  *)
KimiDesktopToken ==
    LET usable == {i \in DOMAIN setup.rows : setup.rows[i] = "token"}
        broken == {i \in DOMAIN setup.rows : setup.rows[i] \in {"both", "undecryptable"}}
    IN  IF \E i \in broken : \A j \in usable : i < j THEN Err("Parse")
        ELSE IF usable = {} THEN Err("MissingCredential") ELSE Ok("desktop")

(* parse_usage_detail, of a limit, the counts and the reset.                *)
KimiDetail(limit, used, remaining, reset) ==
    [limit |-> limit, used |-> used, remaining |-> remaining, reset |-> reset]
(* usage_window: what was used, else what remains if that makes sense; the  *)
(* length only with one of the two.                                         *)
KimiWindow(d, hours) ==
    IF d.limit <= 0 THEN None
    ELSE LET counted == d.used # None /\ d.used[1] >= 0
             left == d.remaining # None /\ d.remaining[1] \in 0..d.limit
             used == IF counted THEN d.used[1] ELSE IF left THEN d.limit - d.remaining[1] ELSE 0
         IN  Some([percent |-> CountPercent(used, d.limit), reset |-> d.reset,
                   hours |-> IF counted \/ left THEN hours ELSE None])

(* weekly_windows_equivalent: the same quota seen twice.                    *)
KimiEquivalent(code, weekly) ==
    /\ weekly # None /\ weekly[1].hours # None
    /\ code.percent - weekly[1].percent \in -1..1
    /\ code.reset # None /\ weekly[1].reset # None /\ code.reset = weekly[1].reset

(* percent_from_ratio, of hundredths.                                       *)
KimiRatio(ratio) == Clamp(ratio, 0, 100)
(* snapshot_to_sample.                                                      *)
KimiSample(usage, subscription) ==
    LET weekly == KimiWindow(usage.weekly, Some(168))
        rate == IF usage.rate = None THEN None ELSE KimiWindow(usage.rate[1].detail, usage.rate[1].hours)
        s == IF subscription = None THEN [balance |-> None, code |-> None] ELSE subscription[1]
        monthly == IF s.balance = None THEN <<>>
                   ELSE IF ~s.balance[1].total THEN <<>>
                   ELSE <<[percent |-> KimiRatio(s.balance[1].ratio), reset |-> None, hours |-> Some(720)]>>
        code == IF s.code = None THEN <<>>
                ELSE IF s.code[1].enabled = Some(FALSE) THEN <<>>
                ELSE LET w == [percent |-> KimiRatio(s.code[1].ratio), reset |-> s.code[1].reset, hours |-> Some(168)]
                     IN  IF KimiEquivalent(w, weekly) THEN <<>> ELSE <<w>>
        shown == SelectSeq(<<weekly, rate>>, LAMBDA w : w # None)
    IN  Ok([windows |-> [i \in DOMAIN shown |-> shown[i][1]] \o monthly \o code])

(* parse_code_response, parse_web_response and parse_first_rate_limit.      *)
KimiUsage(b) ==
    IF b.is # "usage" THEN Err("Parse")
    ELSE IF b.rate = "broken" THEN Err("Parse")
    ELSE Ok([weekly |-> b.weekly,
             rate |-> CASE b.rate = "none" -> None
                        [] b.rate = "hours" -> Some([detail |-> b.weekly, hours |-> Some(5)])
                        [] b.rate = "no unit" -> Some([detail |-> b.weekly, hours |-> None])])

KimiCodeKind(code) == IF code = "400" THEN "Api" ELSE Classified(code)
KimiWebKind(code) == IF code \in {"401", "403"} THEN "AuthenticationExpired" ELSE Classified(code)

(* fetch_subscription: what fails is only absent, a cancellation is not.    *)
KimiSubscription(session) ==
    LET req == [session |-> session, to |-> "subscription"]
    IN  IF ~Asked(req) THEN Ask(req)
        ELSE IF ReplyTo(req).code = "cancelled" THEN Err("Network")
        ELSE IF ReplyTo(req).code # "200" THEN Ok(None)
        ELSE IF ReplyTo(req).body.is = "junk" THEN Err("Parse") ELSE Ok(Some(ReplyTo(req).body))

(* The enrichment of fetch_code: the first session that answers, all of     *)
(* them within one grace period; only a cancellation ends the fetch.        *)
KimiEnrichment ==
    LET n == Len(setup.enrichment)
        From[i \in 1..(n + 1)] ==
          IF i > n THEN Ok(None)
          ELSE LET req == [session |-> setup.enrichment[i], to |-> "subscription"]
                   p == KimiSubscription(setup.enrichment[i])
               IN  IF p.is = "ask" THEN p
                   ELSE IF CancelledBy(req) THEN Err("Network")
                   ELSE IF ReplyTo(req).code = "grace" THEN Ok(None)
                   ELSE IF p.is = "ok" /\ p.value # None THEN p
                   ELSE From[i + 1]
    IN  From[1]
KimiCode ==
    Then(Sent([to |-> "code"], KimiCodeKind), LAMBDA b : Then(KimiUsage(b), LAMBDA usage :
      IF setup.enrichment = <<>> THEN KimiSample(usage, None)
      ELSE Then(KimiEnrichment, LAMBDA s : KimiSample(usage, s))))

(* fetch_web_session: usage and subscription are asked for at once, and one *)
(* reply stands for both: the body holds what came of the subscription      *)
(* before the usage and the grace period were over.                         *)
KimiWebSession(session) ==
    LET req == [session |-> session, to |-> "usage"]
    IN  Then(Sent(req, KimiWebKind), LAMBDA b : Then(KimiUsage(b), LAMBDA usage :
          IF CancelledBy(req) THEN Err("Network") ELSE KimiSample(usage, b.subscription)))
(* fetch_web_sessions.                                                      *)
KimiWeb(sessions) ==
    AnyOf(Len(sessions), LAMBDA i : KimiWebSession(sessions[i]),
          IF setup.source = "BrowserSession" THEN {"AuthenticationExpired", "PermissionDenied", "Api"} ELSE {})

KimiFetch ==
    CASE setup.source = "ApiKey" -> Then(KimiKey, LAMBDA k : KimiCode)
      [] setup.source = "Cli" -> Then(KimiCliCredential, LAMBDA k : KimiCode)
      [] setup.source = "ManualCookie" -> Then(KimiManualToken, LAMBDA t : KimiWeb(<<t>>))
      [] setup.source = "LocalData" -> Then(KimiDesktopToken, LAMBDA t : KimiWeb(<<t>>))
      [] setup.source = "BrowserSession" -> Then(Sessions(setup.profiles), KimiWeb)

KimiStats ==
    {[is |-> "stats", balance |-> None, code |-> None],
     [is |-> "stats", balance |-> Some([total |-> TRUE, ratio |-> 140]),
      code |-> Some([ratio |-> 50, enabled |-> None, reset |-> Some(200)])],
     [is |-> "stats", balance |-> Some([total |-> FALSE, ratio |-> 10]),
      code |-> Some([ratio |-> -5, enabled |-> Some(FALSE), reset |-> None])]}
KimiUsages(rates, subscriptions) ==
    [is : {"usage"}, rate : rates, subscription : subscriptions,
     weekly : {KimiDetail(0, Some(1), None, None), KimiDetail(10, Some(5), Some(9), Some(200)),
               KimiDetail(10, Some(-1), Some(12), None), KimiDetail(10, None, Some(4), Some(200)),
               KimiDetail(10, Some(25), None, None)}]
KimiSetups ==
    [provider : {"kimi"}, source : {"ApiKey"}, key : {"ok", "none"}, base : {"none", "https", "http"},
     enrichment : {<<>>, <<1, 2>>}, now : {100}]
    \cup [provider : {"kimi"}, source : {"Cli"}, override : BOOLEAN, enrichment : {<<>>}, now : {100},
          file : {"missing", "denied", "junk", "token"}, expires : {None, Some(101), Some(102)}]
    \cup [provider : {"kimi"}, source : {"ManualCookie"}, manual : {"none", "jwt", "bad"},
          auth : {"none", "cookie", "plain", "two cookies"}, lower : {"none", "plain", "other cookie"}, now : {100}]
    \cup [provider : {"kimi"}, source : {"LocalData"},
          rows : {<<>>, <<"locked", "token">>, <<"both", "token">>, <<"token", "undecryptable">>}, now : {100}]
    \cup [provider : {"kimi"}, source : {"BrowserSession"},
          profiles : {<<>>, << <<Some(1)>>, <<Some(2)>> >>}, now : {100}]
KimiReplies(req) ==
    CASE req.to = "code" -> Refusals({"400", "401", "403", "429", "500", "network", "cancelled"})
           \cup Bodies([is : {"junk"}] \cup KimiUsages({"none", "hours", "broken"}, {None}))
      [] req.to = "usage" -> Refusals({"401", "403", "404", "500", "network", "cancelled"})
           \cup Bodies([is : {"junk"}] \cup KimiUsages({"none", "no unit"}, {None} \cup {Some(s) : s \in KimiStats}))
      [] req.to = "subscription" -> Refusals({"401", "500", "grace", "cancelled"}) \cup Bodies([is : {"junk"}] \cup KimiStats)
----------------------------------------------------------------------------
(* OpenCode. A function of the server is called by GET and, when that says  *)
(* nothing usable, by POST. Percentages are tenths until they are shown.    *)

(* new_browser_from_discovery and from_browser_jar_at: the first store that *)
(* holds an auth cookie; an unreadable profile is passed over.              *)
OpenBrowser(stores) ==
    LET usable == {i \in DOMAIN stores : stores[i] = "auth"}
        broken == {i \in DOMAIN stores : stores[i] = "conflicting"}
    IN  IF \E i \in broken : \A j \in usable : i < j THEN Err("Parse")
        ELSE IF usable # {} THEN Ok("session")
        ELSE Err(IF \E i \in DOMAIN stores : stores[i] = "other cookies" THEN "AuthenticationExpired" ELSE "MissingCredential")

(* from_manual_capture_at and filtered_cookie: only the auth cookies go.    *)
OpenManual ==
    IF setup.capture # "ok" THEN Err(CaptureKind(setup.capture))
    ELSE IF "auth" \in setup.cookies THEN Ok("session") ELSE Err("MissingCredential")

(* read_response: no body is read of what is refused anyway.                *)
OpenUnread == {"302", "401", "challenge", "403", "429"}
(* classify_response: a page that asks for a login, whatever its status.    *)
OpenKind(code) ==
    CASE code = "302" -> "Api"
      [] code \in {"401", "403"} -> "AuthenticationExpired"
      [] code = "challenge" -> "PermissionDenied"
      [] code = "429" -> "RateLimited"
      [] code = "500 login" -> "AuthenticationExpired"
      [] code = "500" -> "Api"
      [] code \in {"network", "cancelled"} -> "Network"
      [] code = "too large" -> "Parse"
(* looks_signed_out, and validated_text: brackets, quotes and sizes.        *)
OpenSignedOut(b) == b.is = "login"
OpenText(b) == IF b.is = "malformed" THEN Err("Parse") ELSE Ok(b)
(* server_call, and the check every use of its answer starts with.          *)
OpenCall(fn, method) ==
    Then(Sent([to |-> fn, method |-> method], OpenKind), LAMBDA b :
      IF OpenSignedOut(b) THEN Err("AuthenticationExpired") ELSE OpenText(b))

(* parse_workspace_ids: each valid one once, and not too many.              *)
OpenIds(b) ==
    LET valid == IF b.is = "ids" THEN SelectSeq(b.ids, LAMBDA w : w # "bad") ELSE <<>>
    IN  IF Cardinality(Range(valid)) > MaxWorkspaces THEN Err("Parse") ELSE Ok(valid)
(* normalize_workspace_id: an id, or an address that holds one.             *)
OpenConfigured == setup.workspace \in {"id", "url"}
(* discover_workspace.                                                      *)
OpenWorkspace ==
    IF OpenConfigured THEN Ok("configured")
    ELSE Then(OpenCall("workspaces", "GET"), LAMBDA b : Then(OpenIds(b), LAMBDA ids :
           IF ids # <<>> THEN Ok(ids[1])
           ELSE Then(OpenCall("workspaces", "POST"), LAMBDA c : Then(OpenIds(c), LAMBDA again :
                  IF again = <<>> THEN Err("Parse") ELSE Ok(again[1])))))

(* What was used: a value up to one is a part of the whole.                 *)
OpenPercent(w) ==
    LET percent == IF w.percent # None
                   THEN Some(IF w.percent[1] \in 0..10 THEN 100 * w.percent[1] ELSE w.percent[1])
                   ELSE IF w.used = None \/ w.limit <= 0 THEN None
                   ELSE Some((1000 * w.used[1]) \div w.limit)
    IN  IF percent = None THEN Err("Parse") ELSE Ok(Clamp(percent[1], 0, 1000))
OpenReset(w) == IF w.resetIn # None THEN w.resetIn
                ELSE IF w.resetAt # None THEN Some(w.resetAt[1] - setup.now) ELSE None
OpenMade(percent, reset) == Ok([percent |-> percent, seconds |-> IF reset < 0 THEN 0 ELSE reset])
(* parse_json_window may miss the reset, parse_payload_window may not.      *)
OpenJsonWindow(w) ==
    Then(OpenPercent(w), LAMBDA p : OpenMade(p, IF OpenReset(w) = None THEN 0 ELSE OpenReset(w)[1]))
OpenPayloadWindow(w) ==
    Then(OpenPercent(w), LAMBDA p : IF OpenReset(w) = None THEN Err("Parse") ELSE OpenMade(p, OpenReset(w)[1]))

(* pick_candidate: by its name, else the one that resets first (or last),   *)
(* then the fuller one.                                                     *)
OpenPick(found, name, excluded) ==
    LET eligible == DOMAIN found \ excluded
        named == {i \in eligible : found[i].name = name}
        Before(i, j) ==
          LET a == found[i] b == found[j]
          IN  IF a.seconds # b.seconds THEN (a.seconds < b.seconds) = (name = "rolling")
              ELSE IF a.percent # b.percent THEN a.percent > b.percent ELSE i < j
        among == IF named # {} THEN named ELSE eligible
    IN  IF among = {} THEN None ELSE Some(CHOOSE i \in among : \A j \in among \ {i} : Before(i, j))

(* collect_candidates: every object that reads as a window.                 *)
OpenCandidates(b) ==
    LET good == SelectSeq(b.windows, LAMBDA w : OpenJsonWindow(w).is = "ok")
    IN  [i \in DOMAIN good |-> [name |-> good[i].name] @@ OpenJsonWindow(good[i]).value]
(* select_candidates.                                                       *)
OpenSelect(b) ==
    LET found == OpenCandidates(b)
        rolling == OpenPick(found, "rolling", {})
        weekly == IF rolling = None THEN None ELSE OpenPick(found, "weekly", {rolling[1]})
    IN  IF weekly = None THEN Err("Parse")
        ELSE Ok([rolling |-> found[rolling[1]], weekly |-> found[weekly[1]], renews |-> b.renewals[1]])

(* find_named_windows: not too deep, with the nearest renewal date around.  *)
OpenNamed(b) ==
    Then(OpenJsonWindow(b.windows[1]), LAMBDA r : Then(OpenJsonWindow(b.windows[2]), LAMBDA w :
      Ok([rolling |-> r, weekly |-> w, renews |-> FirstOf(Reverse(b.renewals))])))
(* parse_json_subscription.                                                 *)
OpenJson(b) == IF b.named /\ Len(b.renewals) <= 5 THEN OpenNamed(b) ELSE OpenSelect(b)
(* find_object_for_any_field and its like: the fields of a text that is not *)
(* JSON, where some may be assigned to a variable on the way.               *)
OpenField(b, name) ==
    LET called == SelectSeq(b.windows, LAMBDA w : w.name = name)
    IN  IF called = <<>> THEN Err("Parse") ELSE Ok(called[1])
(* parse_payload_subscription.                                              *)
OpenPayload(b) ==
    Then(OpenField(b, "rolling"), LAMBDA r : Then(OpenField(b, "weekly"), LAMBDA w :
      Then(OpenPayloadWindow(r), LAMBDA rolling : Then(OpenPayloadWindow(w), LAMBDA weekly :
        Ok([rolling |-> rolling, weekly |-> weekly, renews |-> b.renewals[1]])))))

(* subscription_sample and rate_window.                                     *)
OpenSample(s) ==
    LET Shown(w, hours) == [percent |-> w.percent \div 10, reset |-> Some(setup.now + w.seconds), hours |-> Some(hours)]
    IN  Ok([windows |-> <<Shown(s.rolling, 5), Shown(s.weekly, 168)>>, renews |-> s.renews])
(* parse_subscription.                                                      *)
OpenSubscription(b) ==
    Then(CASE b.is = "payload" -> OpenPayload(b)
           [] b.is = "json" -> OpenJson(b)
           [] OTHER -> Err("Parse"), OpenSample)

(* fetch_subscription.                                                      *)
OpenUsage ==
    Then(OpenCall("subscription", "GET"), LAMBDA b :
      IF b.is = "null" THEN Err("Api")
      ELSE OrElse(OpenSubscription(b), LAMBDA e : Then(OpenCall("subscription", "POST"), LAMBDA c :
             IF c.is = "null" THEN Err("Api") ELSE OpenSubscription(c))))

(* parse_json_billing and parse_payload_billing.                            *)
OpenBillingInfo(b) == IF b.is # "billing" THEN None ELSE IF b.usage = None THEN None ELSE Some(b)
(* billing_sample.                                                          *)
OpenBillingSample(b) ==
    [windows |-> IF b.limit <= 0 THEN <<>>
                 ELSE <<[percent |-> CountPercent(b.usage[1], b.limit), reset |-> None, hours |-> Some(720)]>>,
     renews |-> None]
(* fetch_billing and parse_billing: of a customer without a subscription.   *)
OpenBilling ==
    Then(OpenCall("billing", "GET"), LAMBDA b :
      LET info == OpenBillingInfo(b)
      IN  IF info = None THEN Ok(None)
          ELSE IF info[1].subscribed THEN Ok(None) ELSE Ok(Some(OpenBillingSample(info[1]))))

OpenFetch ==
    Then(IF setup.source = "ManualCookie" THEN OpenManual ELSE OpenBrowser(setup.stores), LAMBDA session :
      Then(OpenWorkspace, LAMBDA w : OrElse(OpenUsage, LAMBDA e :
        IF e.kind \notin {"Api", "Parse"} THEN e
        ELSE LET billing == OpenBilling
             IN  CASE billing.is = "ask" -> billing
                   [] billing.is = "ok" -> IF billing.value = None THEN e ELSE Ok(billing.value[1])
                   [] billing.is = "err" -> IF billing.kind = "AuthenticationExpired" THEN billing ELSE e)))

OpenSetups ==
    [provider : {"opencode"}, source : {"ManualCookie"}, capture : {"ok", "MissingSecret", "DisallowedUrl"},
     cookies : {{}, {"other"}, {"other", "auth"}}, workspace : {"id"}, now : {100}]
    \cup [provider : {"opencode"}, source : {"BrowserSession"}, workspace : {"none", "url", "junk"}, now : {100},
          stores : {<<>>, <<"unreadable", "auth">>, <<"conflicting", "auth">>, <<"other cookies", "empty">>}]
OpenBodies ==
    LET W(name, percent, used, limit, resetIn, resetAt) ==
          [name |-> name, percent |-> percent, used |-> used, limit |-> limit, resetIn |-> resetIn, resetAt |-> resetAt]
        ratio == W("rolling", Some(5), None, 0, Some(-3), None)
        over == W("weekly", None, Some(30), 20, None, Some(90))
        later == W("other", Some(1500), None, 0, None, Some(140))
        open == W("weekly", Some(20), None, 0, None, None)
        empty == W("weekly", None, Some(3), 0, Some(1), None)
    IN  [is : {"json"}, named : {TRUE}, windows : {<<ratio, over>>, <<ratio, empty>>},
         renewals : {<<Some(7), None>>, <<None, None, None, None, None, Some(8)>>}]
        \cup [is : {"json"}, named : {FALSE}, windows : {<<later, open>>, <<later, later, ratio>>, <<empty, open>>}, renewals : {<<Some(7)>>}]
        \cup [is : {"payload"}, windows : {<<ratio, over>>, <<over>>, <<ratio, open>>}, renewals : {<<None>>}]
OpenReplies(req) ==
    Refusals(OpenUnread \cup {"500 login", "500", "network", "cancelled"})
    \cup Bodies([is : {"login", "malformed"}])
    \cup CASE req.to = "workspaces" -> Bodies([is : {"ids"}, ids : {<<>>, <<"bad">>, <<"a", "a", "b">>, <<"a", "b", "c">>}])
           [] req.to = "subscription" -> Bodies([is : {"null", "other"}] \cup OpenBodies)
           [] req.to = "billing" -> Bodies([is : {"other"}] \cup
                [is : {"billing"}, usage : {None, Some(30)}, limit : {0, 20}, subscribed : BOOLEAN])

----------------------------------------------------------------------------
(* Mistral. Times are days, and a request takes seconds of a shared limit.  *)

(* browser_sessions and session_from_headers: a session is a store with a   *)
(* session cookie; the console needs the token of one of its two headers.   *)
MistralSessions ==
    IF setup.source = "ManualCookie"
    THEN IF setup.capture # "ok" THEN Err(IF setup.capture = "MissingSecret" THEN "MissingCredential" ELSE "Parse")
         ELSE IF ~setup.session THEN Err("AuthenticationExpired") ELSE Ok(<<[id |-> "pasted", csrf |-> setup.csrf]>>)
    ELSE LET with == SelectSeq(setup.stores, LAMBDA s : s.is = "session")
         IN  IF Len(with) > MaxSessions THEN Err("Parse")
             ELSE IF with # <<>> THEN Ok([i \in DOMAIN with |-> [id |-> i, csrf |-> with[i].csrf]])
             ELSE Err(IF \E i \in DOMAIN setup.stores : setup.stores[i].is = "other cookies"
                      THEN "AuthenticationExpired" ELSE "MissingCredential")

(* classify_required_transport.                                             *)
MistralKind(code) ==
    CASE code \in {"401", "403"} -> "AuthenticationExpired"
      [] code \in {"network", "timeout", "cancelled"} -> "Network"
      [] code = "malformed" -> "Parse"
      [] OTHER -> "Api"

MistralSum(entries, Amount(_)) == FoldSeq(LAMBDA e, total : total + Amount(e), 0, entries)
(* entry_cost and aggregate_models: what has no price costs nothing, and    *)
(* only some categories count tokens.                                       *)
MistralCost(e) == IF e.price = None THEN 0 ELSE e.units * e.price[1]
MistralTokens(e) == IF e.tokens THEN e.units ELSE 0
(* add_daily_entries: an entry without a date is in no day.                 *)
MistralDaily(entries) ==
    LET dated == SelectSeq(entries, LAMBDA e : e.day # None)
        On(day) == SelectSeq(dated, LAMBDA e : e.day[1] = day)
    IN  [day \in {dated[i].day[1] : i \in DOMAIN dated} |->
           [cost |-> MistralSum(On(day), MistralCost), tokens |-> MistralSum(On(day), MistralTokens)]]

NotADate == -1
(* daily_window: the days shown, the days they cover and up to when.        *)
MistralWindow(b) ==
    LET days == DOMAIN MistralDaily(b.entries) \ {NotADate}
        last == IF b.end = None \/ b.end[1] > setup.now THEN setup.now ELSE b.end[1]
        first == last - (HistoryDays - 1)
        shown == {d \in days : d \in first..last}
        start == IF b.start = None THEN 0 ELSE IF b.start[1] > first THEN b.start[1] ELSE first
        stated == b.start # None /\ b.end # None /\ start <= last
    IN  IF stated THEN [shown |-> shown, covered |-> last - start + 1, known |-> TRUE, until |-> last]
        ELSE IF shown # {} THEN [shown |-> shown, covered |-> Max(shown) - Min(shown) + 1, known |-> TRUE, until |-> Max(shown)]
        ELSE [shown |-> shown, covered |-> 1, known |-> FALSE, until |-> last]

(* cost_data_complete and token_data_complete: the days account for the     *)
(* whole of the month's total, and none of it is negative.                  *)
MistralComplete(b, what, total) ==
    LET daily == MistralDaily(b.entries)
        Sum == FoldSet(LAMBDA d, sum : sum + daily[d][what], 0, DOMAIN daily)
    IN  /\ total >= 0 /\ \A d \in DOMAIN daily : daily[d][what] >= 0
        /\ NotADate \in DOMAIN daily => daily[NotADate][what] = 0
        /\ MistralWindow(b).known /\ Sum = total

(* billing_currency, parse_bounded_json and validate_billing_limits.        *)
MistralCurrency(b) == IF b.currency = "bad" THEN Err("Parse") ELSE Ok(b)
MistralJson(b) == IF b.is = "junk" THEN Err("Parse") ELSE Ok(b)
MistralLimits(b) == IF Len(b.entries) > MaxEntries THEN Err("Parse") ELSE Ok(b)
(* parse_billing.                                                           *)
MistralBilling(b) ==
    Then(MistralJson(b), LAMBDA j : Then(MistralLimits(b), LAMBDA l : MistralCurrency(b)))
(* project_cost_usage: the month so far and the days that are shown.        *)
MistralUsage(b) ==
    LET w == MistralWindow(b)
        daily == MistralDaily(b.entries)
        cost == MistralSum(b.entries, MistralCost)
        tokens == MistralSum(b.entries, MistralTokens)
        Shown(what) == FoldSet(LAMBDA d, sum : sum + daily[d][what], 0, w.shown)
    IN  Ok([spend |-> IF cost > 0 THEN cost ELSE 0, covered |-> w.covered, until |-> w.until,
            cost |-> IF MistralComplete(b, "cost", cost) THEN Some(Shown("cost")) ELSE None,
            tokens |-> IF MistralComplete(b, "tokens", tokens) THEN Some(Shown("tokens")) ELSE None])

(* optional_remaining, in seconds: after the bill and, for the credits,     *)
(* what the console took, which is cut off after four.                      *)
MistralRemaining(billing, vibe) ==
    LET after == 15 - billing.took
    IN  after - (IF ~Asked(vibe) THEN 0 ELSE IF ReplyTo(vibe).code = "timeout" THEN Min({4, after}) ELSE 1)
(* fetch_optional_vibe and fetch_optional_credits: only a cancellation ends *)
(* the fetch; there is no console without the token.                        *)
MistralOptional(req, wanted) ==
    IF ~wanted THEN Ok(None)
    ELSE IF ~Asked(req) THEN Ask(req)
    ELSE LET r == ReplyTo(req)
         IN  IF r.code = "cancelled" \/ (r.code = "timeout" /\ CancelledBy(req)) THEN Err("Network")
             ELSE IF r.code = "200" /\ r.body.is = "value" THEN Ok(Some(r.body)) ELSE Ok(None)
(* parse_vibe and parse_credits.                                            *)
MistralVibe(v) == IF v = None THEN <<>> ELSE IF v[1].amount \in 0..100
                  THEN <<[percent |-> v[1].amount, reset |-> None, hours |-> None]>> ELSE <<>>
MistralCredits(v) == IF v = None THEN None ELSE Some(IF v[1].amount < 0 THEN 0 ELSE v[1].amount)

(* normalize_usage.                                                         *)
MistralNormalize(usage, vibe, credits) == Ok(usage @@ [windows |-> MistralVibe(vibe), balance |-> MistralCredits(credits)])
MistralFetch ==
    Then(MistralSessions, LAMBDA sessions :
      LET n == Len(sessions)
          Usage(i) == [to |-> "billing", session |-> sessions[i].id]
          refused == {i \in 1..n : Asked(Usage(i)) /\ ReplyTo(Usage(i)).code \in {"401", "403"}}
          i == Cardinality(refused) + 1
      IN  IF i > n THEN Err("AuthenticationExpired")
          ELSE Then(Sent(Usage(i), MistralKind), LAMBDA b : Then(MistralBilling(b), LAMBDA bill : Then(MistralUsage(bill), LAMBDA usage :
            LET vibe == [to |-> "vibe", session |-> sessions[i].id]
                credits == [to |-> "credits", session |-> sessions[i].id]
            IN  Then(MistralOptional(vibe, sessions[i].csrf /\ b.took < 15), LAMBDA v :
                Then(MistralOptional(credits, MistralRemaining(b, vibe) > 0), LAMBDA c :
                  MistralNormalize(usage, v, c)))))))

MistralSetups ==
    [provider : {"mistral"}, source : {"ManualCookie"}, capture : {"ok", "MissingSecret", "InvalidSyntax"},
     session : BOOLEAN, csrf : BOOLEAN, now : {100}]
    \cup [provider : {"mistral"}, source : {"BrowserSession"}, now : {100},
          stores : LET S(csrf) == [is |-> "session", csrf |-> csrf] IN
                   {<<>>, <<[is |-> "other cookies"]>>, <<[is |-> "other cookies"], S(TRUE), S(FALSE)>>, <<S(TRUE), S(TRUE), S(TRUE)>>}]
MistralBodies ==
    LET E(day, units, price, tokens) == [day |-> day, units |-> units, price |-> price, tokens |-> tokens]
        today == E(Some(100), 4, Some(2), TRUE)
        old == E(Some(90), 3, Some(1), FALSE)
        undated == E(None, 5, Some(1), FALSE)
        odd == E(Some(NotADate), 0, None, FALSE)
        refund == E(Some(99), -2, Some(1), FALSE)
    IN  [is : {"billing"}, currency : {"EUR"}, took : {1, 12},
         entries : {<<>>, <<today, odd>>, <<today, old>>, <<today, undated>>, <<today, refund>>, <<E(Some(99), 1, None, TRUE), old>>},
         start : {None, Some(98)}, end : {None, Some(97), Some(105)}]
        \cup [is : {"junk"}] \cup [is : {"billing"}, currency : {"bad"}, entries : {<<>>, <<today, today, today>>}, took : {1}]
MistralReplies(req) ==
    IF req.to = "billing"
    THEN Refusals({"401", "403", "429", "404", "network", "timeout", "cancelled", "malformed"}) \cup Bodies(MistralBodies)
    ELSE Refusals({"401", "500", "timeout", "cancelled"}) \cup Bodies([is : {"junk"}] \cup [is : {"value"}, amount : {-5, 40, 140}])


----------------------------------------------------------------------------
Fetch == CASE setup.provider = "amp" -> AmpFetch [] setup.provider = "kimi" -> KimiFetch [] setup.provider = "opencode" -> OpenFetch
           [] setup.provider = "mistral" -> MistralFetch
Replies(req) == CASE setup.provider = "amp" -> AmpReplies(req) [] setup.provider = "kimi" -> KimiReplies(req)
             [] setup.provider = "opencode" -> OpenReplies(req) [] setup.provider = "mistral" -> MistralReplies(req)
Setups == AmpSetups \cup KimiSetups \cup OpenSetups \cup MistralSetups

Init == Start(Setups)
Next == Advance(Fetch, Replies)
Spec == Init /\ [][Next]_vars

----------------------------------------------------------------------------
(* The user is asked to sign in only for a refusal, a page or program that  *)
(* asks for a login, or stored credentials that are over; a credential is   *)
(* called missing only when none was used.                                  *)
SaysLogin(r) ==
    \/ r.code \in {"401", "403", "asks for login", "500 login"}
    \/ r.code = "200" /\ LET b == r.body IN
         CASE b.is = "text" -> \E i \in DOMAIN b.lines : b.lines[i].is = "login"
           [] b.is = "page" -> b.login
           [] b.is = "redirect" -> b.to = "login"
           [] OTHER -> b.is \in {"auth-required", "login"}
LoginOnlyWhenRefused ==
    /\ FailedWith({"AuthenticationExpired"}) =>
         \/ \E i \in DOMAIN log : SaysLogin(log[i].reply)
         \/ setup.source # "ApiKey" /\ log = <<>>
    /\ FailedWith({"MissingCredential"}) => log = <<>> \/ Saw({"spawn"})

(* Usage that was answered is shown, whatever the sessions before it, the   *)
(* subscription's details or the other route said; nothing but a            *)
(* cancellation, or a login that the other route asks for, hides it. (Amp   *)
(* asks one question: its answer is the sample or the error.)               *)
HoldsUsage(b) ==
    CASE setup.provider = "kimi" -> b.is = "usage" /\ b.rate # "broken"
      [] setup.provider = "opencode" -> \/ b.is \in {"json", "payload"} /\ OpenSubscription(b).is = "ok"
                                        \/ b.is = "billing" /\ b.usage # None /\ ~b.subscribed
      [] setup.provider = "mistral" -> b.is = "billing" /\ b.currency # "bad"
      [] setup.provider = "amp" -> FALSE

(* A page follows at most the allowed redirects, and no page outside the    *)
(* service gets the cookie.                                                 *)
RequestsStayInBounds ==
    /\ Len(log) <= 2 * (MaxHops + 1)
    /\ setup.provider = "amp" => \A i \in 1..(Len(log) - 1) :
         log[i].reply.code = "200" /\ log[i].reply.body.is = "redirect" /\ log[i].req.hop < MaxHops
             => \/ log[i].reply.body.to \in AmpApprovedPages
                \/ log[i + 1].req.session # log[i].req.session

=============================================================================
