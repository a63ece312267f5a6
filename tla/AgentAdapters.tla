------------------------------ MODULE AgentAdapters ------------------------------
(****************************************************************************)
(* The adapters that read the limits of a coding agent, from the service    *)
(* its login belongs to, its program in a terminal, or both: Claude         *)
(* (providers/claude.rs), Kilo (kilo.rs) and Copilot (copilot.rs).          *)
(* Percentages are whole numbers, times hours.                              *)
(****************************************************************************)
EXTENDS ProviderFetch, SequencesExt, TLC

CONSTANTS
    Deadline,             \* the reads of the terminal before CLI_USAGE_TIMEOUT
    KiloMaxOrganizations, \* MAX_ORGANIZATIONS
    MaxLifetime,          \* MAX_DEVICE_FLOW_LIFETIME
    MaxInterval,          \* MAX_DEVICE_POLL_INTERVAL
    SlowDown,             \* SLOW_DOWN_DELAY
    MaxProfiles,          \* MAX_BROWSER_PROFILES
    MaxBudgetSessions,    \* MAX_BROWSER_SESSIONS
    MaxBudgetPages,       \* MAX_BUDGET_PAGES
    MaxBudgetWindows,     \* MAX_BUDGET_WINDOWS
    MaxBudgetsPerPage,    \* MAX_BUDGETS_PER_PAGE
    MaxMetaTags,          \* MAX_HTML_META_TAGS
    MonthHours            \* the length of the months of the model

----------------------------------------------------------------------------
(* Claude.                                                                  *)

(* ClaudeSettings::resolve and resolve_config_root: a token of the          *)
(* environment, else the file of the login under an absolute home.          *)
ClaudeSettings ==
    IF setup.token THEN Ok("environment")
    ELSE IF setup.home = "relative" THEN Err("MissingCredential") ELSE Ok("file")
(* load_file_credential and parse_file_credential.                          *)
ClaudeFile ==
    CASE setup.file \in {"missing", "too large", "no login"} -> Err("MissingCredential")
      [] setup.file = "junk" -> Err("Parse")
      [] setup.file = "login" ->
           IF setup.expires = None THEN Err("AuthenticationExpired")
           ELSE IF setup.expires[1] <= setup.now THEN Err("AuthenticationExpired")
           ELSE IF ~setup.profile THEN Err("PermissionDenied") ELSE Ok("file")
ClaudeCredential ==
    Then(ClaudeSettings, LAMBDA s : IF s = "environment" THEN Ok(s) ELSE ClaudeFile)

(* normalize_window: an unknown use stays unknown, a bad date is an error.  *)
ClaudeWindow(w, hours) ==
    IF w.reset = "bad" THEN Err("Parse")
    ELSE Ok([percent |-> IF w.used = None THEN None ELSE Some(Clamp(w.used[1], 0, 100)),
             reset |-> IF w.reset = "none" THEN None ELSE Some(setup.now + 2), hours |-> Some(hours)])
(* normalize_extra_usage_cost: the monthly cap, when it is switched on.     *)
ClaudeCost(extra) ==
    IF extra = None THEN Ok(None)
    ELSE IF ~extra[1].enabled \/ extra[1].limit = None THEN Ok(None)
    ELSE IF extra[1].spent < 0 \/ extra[1].limit[1] < 0 THEN Err("Parse")
    ELSE Ok(Some([spent |-> extra[1].spent, limit |-> extra[1].limit[1]]))
(* normalize_spend_limit: the cap as a window, for want of another one.     *)
ClaudeSpend(extra, cost) ==
    [percent |-> Some(IF extra.percent # None THEN Clamp(extra.percent[1], 0, 100) ELSE CountPercent(cost.spent, cost.limit)),
     reset |-> None, hours |-> None]
(* scoped_weekly_windows and slug: each model once, and never all of them.  *)
ClaudeScoped(limits) ==
    LET fit == SelectSeq(limits, LAMBDA l : l.weekly /\ l.model \notin {"none", "all-models"})
        first == {i \in DOMAIN fit : \A j \in 1..(i - 1) : fit[j].model # fit[i].model}
    IN  {fit[i] : i \in first}
(* normalize_usage.                                                         *)
ClaudeUsage(b) ==
    IF b.is # "usage" THEN Err("Parse")
    ELSE LET names == SelectSeq(<<"five", "seven", "apps", "sonnet", "opus">>, LAMBDA n : n \in DOMAIN b.windows)
             Hours(n) == IF n = "five" THEN 5 ELSE 168
             bad == \E n \in DOMAIN b.windows : ClaudeWindow(b.windows[n], 5).is = "err"
                      /\ (n = names[1] \/ n \in {"seven", "sonnet", "routines"} \/ (n = "opus" /\ "sonnet" \notin DOMAIN b.windows))
         IN  Then(IF names # <<>> THEN ClaudeWindow(b.windows[names[1]], Hours(names[1])) ELSE Ok(None), LAMBDA p :
             Then(ClaudeCost(b.extra), LAMBDA cost :
               IF p = None /\ (cost = None \/ (cost # None /\ cost[1].limit = 0)) THEN Err("Parse")
               ELSE IF bad THEN Err("Parse")
               ELSE Ok([windows |-> {IF p = None THEN ClaudeSpend(b.extra[1], cost[1]) ELSE p}
                                    \cup {ClaudeWindow(b.windows[n], 168).value : n \in DOMAIN b.windows \cap {"seven", "routines", "sonnet"}},
                        models |-> {l.model : l \in ClaudeScoped(b.limits)}, from |-> "oauth"])))

(* fetch_oauth_usage.                                                       *)
ClaudeOAuth ==
    Then(ClaudeCredential, LAMBDA c : Then(Sent([to |-> "oauth usage"], Classified), ClaudeUsage))

(* cached_cli_usage_is_valid: fresh, and none of its windows has reset.     *)
ClaudeCacheValid ==
    setup.cache # None /\ setup.cache[1].minutes < 15 /\ ~(setup.cache[1].reset # None /\ setup.cache[1].reset[1] <= setup.now)

(* is_cli_rate_limit_text of a text without its blanks, and with them.      *)
ClaudeLimitedCompact(seen) == "rate_limit_error" \in seen
ClaudeLimited(seen) == seen \cap {"rate_limit_error", "slow down"} # {}
(* cli_capture_is_complete and compact_scan_has_session_usage.              *)
ClaudeComplete(seen) == ClaudeLimitedCompact(seen) \/ seen \cap {"usage", "failed to load", "not logged in"} # {}
(* classify_cli_capture_failure.                                            *)
ClaudeCaptureKind(seen) ==
    CASE ClaudeLimitedCompact(seen) -> "RateLimited"
      [] ~ClaudeLimitedCompact(seen) /\ seen \cap {"not logged in", "please log in"} # {} -> "MissingCredential"
      [] ~ClaudeLimitedCompact(seen) /\ seen \cap {"not logged in", "please log in"} = {} ->
           IF "failed to load" \in seen THEN "ProviderUnavailable" ELSE "Network"

(* ClaudePtyCapture::new. A unit of time is one turn: CLI_INPUT_INTERVAL    *)
(* and CLI_CAPTURE_SETTLE are two, CLI_STARTUP_DELAY is three.              *)
ClaudePtyStart == [seen |-> {}, done |-> {}, due |-> 3, last |-> 0, complete |-> None, selected |-> "none",
                   since |-> {}, written |-> <<>>]
ClaudeWrite(p, keys, t) == [p EXCEPT !.written = Append(p.written, keys), !.last = t]
(* drive_claude_pty_inputs: one answer to what the screen asks, then the    *)
(* command itself, each once.                                               *)
ClaudeRecord(p, new, t) ==
    LET read == [p EXCEPT !.seen = @ \cup new, !.since = IF "selection" \in p.done THEN @ \cup new ELSE {},
                          !.selected = IF "no selected" \in new THEN "no" ELSE IF "yes selected" \in new THEN "yes" ELSE @]
    IN  IF "cursor" \in new THEN ClaudeWrite(read, "position", t) ELSE read
ClaudeDrive(p, seen, t) ==
    LET Answer(name, keys) == [ClaudeWrite(p, keys, t) EXCEPT !.done = p.done \cup {name}, !.due = t + 1]
        prompts == SelectSeq(<<"ready", "continue">>, LAMBDA n : n \in seen /\ n \notin p.done)
        choice == seen \cap {"yes selected", "no selected"} # {}
        palette == IF "palette" \notin p.done /\ "usage" \in p.done /\ "palette" \in seen
                   THEN [ClaudeWrite(p, "enter", t) EXCEPT !.done = p.done \cup {"palette"}] ELSE p
    IN  IF "trust" \in seen /\ "trust" \notin p.done THEN Answer("trust", "y")
        ELSE IF "safety" \in seen /\ "safety" \notin p.done /\ ~choice THEN [p EXCEPT !.due = t + 1]
        ELSE IF choice /\ "selection" \notin p.done
        THEN IF p.selected # "yes" THEN ClaudeWrite(p, "down", t)
             ELSE IF t - p.last >= 1
             THEN [ClaudeWrite(p, "enter", t) EXCEPT !.done = p.done \cup {"selection", "safety"}]
             ELSE p
        ELSE IF "selection" \in p.done /\ "confirmed" \notin p.done
        THEN IF "main" \in p.since THEN [p EXCEPT !.done = p.done \cup {"confirmed"}, !.due = t + 1] ELSE p
        ELSE IF prompts # <<>> THEN Answer(prompts[1], "enter")
        ELSE IF "usage" \notin palette.done /\ t >= palette.due
        THEN [ClaudeWrite(palette, "/usage", t) EXCEPT !.done = palette.done \cup {"usage"}]
        ELSE palette
(* capture_cli_usage_pty_inner: until the panel has settled, the program    *)
(* has ended or the time is up; Enter is pressed again now and then.        *)
ClaudeRead(t) == [to |-> "terminal", t |-> t]
ClaudeReadKind(code) == IF code = "too much" THEN "Parse" ELSE "Network"
ClaudeTurn(p, t, new) ==
    LET pressed == IF "usage" \in p.done /\ t - p.last >= 2 THEN ClaudeWrite(p, "enter", t) ELSE p
        Noted(q) == [q EXCEPT !.complete = IF @ = None /\ ClaudeComplete(q.seen) THEN Some(t) ELSE @]
    IN  Noted(ClaudeDrive(ClaudeRecord(pressed, new, t), p.seen \cup new, t))
ClaudeTerminal[t \in 0..Deadline] ==
    IF t = 0 THEN ClaudePtyStart ELSE ClaudeTurn(ClaudeTerminal[t - 1], t - 1, ReplyTo(ClaudeRead(t - 1)).body.shows)
ClaudePty ==
    LET From[t \in 0..Deadline] ==
          Then(Ok(ClaudeTerminal[t]), LAMBDA p :
            IF p.complete # None /\ t >= p.complete[1] + 2 THEN Ok(p)
            ELSE IF t = Deadline THEN Err(ClaudeCaptureKind(p.seen))
            ELSE Then(Sent(ClaudeRead(t), ClaudeReadKind), LAMBDA b :
                   IF ~b.exited THEN From[t + 1]
                   ELSE Then(Ok(ClaudeTurn(p, t, b.shows)), LAMBDA q :
                          IF ClaudeComplete(q.seen) THEN Ok(q) ELSE Err(ClaudeCaptureKind(q.seen)))))
    IN  From[0]

(* parse_cli_reset_timestamp and bounded_cli_reset: relative, at an hour of *)
(* the day or on a date, the next one, and not beyond the window and a day. *)
ClaudeReset(r, hours) ==
    LET day == setup.now \div 24
        at == CASE r.is = "in" -> setup.now + r.hours
                [] r.is = "clock" -> LET today == 24 * day + r.hour IN IF today <= setup.now THEN today + 24 ELSE today
                [] r.is = "date" -> LET dated == 24 * r.day + r.hour IN IF dated <= setup.now THEN dated + 24 * 365 ELSE dated
                [] r.is = "none" -> setup.now
    IN  IF at > setup.now /\ at <= setup.now + hours + 24 THEN Some(at) ELSE None
(* cli_used_percent: used, or left.                                         *)
ClaudeUsed(line) == IF line.left THEN 100 - Clamp(line.percent[1], 0, 100) ELSE Clamp(line.percent[1], 0, 100)
(* cli_rate_window.                                                         *)
ClaudeCliWindow(line, hours) == [percent |-> Some(ClaudeUsed(line)), reset |-> ClaudeReset(line.reset, hours), hours |-> Some(hours)]
(* cli_quota_observations: a label without a percentage is passed over.     *)
ClaudeObserved(panel) == SelectSeq(panel, LAMBDA line : line.percent # None)
(* classify_missing_cli_usage.                                              *)
ClaudeMissingUsage(seen) == Err(IF seen \cap {"failed to load", "loading"} # {} THEN "ProviderUnavailable" ELSE "Parse")
(* parse_cli_usage_windows: the last line of a label counts.                *)
ClaudeCliWindows(panel, seen) ==
    LET lines == ClaudeObserved(panel)
        Of(label) == {i \in DOMAIN lines : lines[i].label = label}
        Latest(label) == lines[Max(Of(label))]
    IN  IF Of("session") = {} THEN ClaudeMissingUsage(seen)
        ELSE Ok([windows |-> {ClaudeCliWindow(Latest("session"), 5)}
                             \cup {ClaudeCliWindow(Latest(m), 168) : m \in {lines[i].label : i \in DOMAIN lines} \ {"session"}},
                 models |-> {lines[i].label : i \in DOMAIN lines} \ {"session", "all", "sonnet"}, from |-> "cli"])
(* normalize_cli_usage and latest_cli_usage_panel.                          *)
ClaudeCliUsage(p) ==
    IF ClaudeLimited(p.seen) THEN Err("RateLimited")
    ELSE IF p.seen \cap {"not logged in", "please log in"} # {} THEN Err("MissingCredential")
    ELSE ClaudeCliWindows(IF "usage" \in p.seen THEN setup.panel ELSE <<>>, p.seen)

(* classify_cli_subprocess_error.                                           *)
ClaudeAuthKind(code) ==
    CASE code \in {"cancelled", "timeout"} -> "Network"
      [] code \in {"spawn", "not logged in"} -> "MissingCredential"
      [] code = "rate limited" -> "RateLimited"
      [] code = "too much" -> "Parse"
      [] code = "nonzero" -> "Api"
(* fetch_cli_usage_uncached.                                                *)
ClaudeCliUncached ==
    IF ~setup.cli THEN Err("MissingCredential")
    ELSE Then(Sent([to |-> "auth status"], ClaudeAuthKind), LAMBDA b :
           IF b.is = "junk" THEN Err("Parse")
           ELSE IF ~b.in THEN Err("MissingCredential")
           ELSE Then(ClaudePty, ClaudeCliUsage))
(* fetch_cli_usage.                                                         *)
ClaudeCli ==
    IF ClaudeCacheValid /\ ~setup.bypass
    THEN Ok([windows |-> {}, models |-> {}, from |-> "cache"]) ELSE ClaudeCliUncached

(* should_auto_fallback_to_cli and resolve_auto_fallback_error.             *)
ClaudeFallsBack(kind) ==
    kind \in {"MissingCredential", "AuthenticationExpired", "ProviderUnavailable", "Network", "Parse", "Api"}
ClaudeWorse(oauth, cli) ==
    IF cli.kind = "MissingCredential" /\ oauth.kind \notin {"MissingCredential", "AuthenticationExpired"} THEN oauth ELSE cli
(* fetch_usage, in the order of ClaudeSourcePlanner.                        *)
ClaudeFetch ==
    CASE setup.mode = "OAuth" -> ClaudeOAuth
      [] setup.mode = "Cli" -> ClaudeCli
      [] setup.mode = "Auto" -> OrElse(ClaudeOAuth, LAMBDA oauth :
           IF ~ClaudeFallsBack(oauth.kind) THEN oauth ELSE OrElse(ClaudeCli, LAMBDA cli : ClaudeWorse(oauth, cli)))

ClaudeSetups ==
    LET Line(label, left, percent, reset) == [label |-> label, left |-> left, percent |-> percent, reset |-> reset]
        none == [is |-> "none"]
        session == Line("session", FALSE, Some(130), [is |-> "clock", hour |-> 3])
        base == [provider |-> "claude", source |-> "OAuth", mode |-> "Auto", now |-> 100, token |-> FALSE, home |-> "absolute",
                 file |-> "login", expires |-> Some(200), profile |-> TRUE, cli |-> TRUE, cache |-> None, bypass |-> FALSE,
                 script |-> <<>>, panel |-> <<>>]
        terminal == [base EXCEPT !.mode = "Cli"]
    IN  {[base EXCEPT !.mode = m, !.token = t, !.home = h, !.file = f, !.expires = e, !.profile = p] :
           m \in {"OAuth"}, t \in BOOLEAN, h \in {"absolute", "relative"}, f \in {"missing", "junk", "no login", "login"},
           e \in {None, Some(100), Some(101)}, p \in BOOLEAN}
        \cup {[base EXCEPT !.cli = c, !.file = f, !.script = <<"usage">>, !.panel = <<session>>, !.cache = k] :
                c \in BOOLEAN, f \in {"missing", "junk", "login"}, k \in {None, Some([minutes |-> 3, reset |-> None])}}
        \cup {[terminal EXCEPT !.cache = Some([minutes |-> m, reset |-> r]), !.bypass = b, !.script = <<"usage">>, !.panel = <<session>>] :
                m \in {14, 15}, r \in {None, Some(100), Some(101)}, b \in BOOLEAN}
        \cup {[terminal EXCEPT !.script = s, !.panel = <<session>>] :
                s \in {<<"trust", "usage">>, <<"safety", "no selected", "yes selected", "main", "usage">>,
                       <<"cursor", "ready", "continue", "usage">>, <<"palette", "usage">>, <<"loading">>,
                       <<"slow down">>, <<"rate_limit_error">>, <<"not logged in">>, <<"please log in">>, <<"failed to load">>}}
        \cup {[terminal EXCEPT !.script = <<"usage">>, !.now = n, !.panel = p] : n \in {99, 24 * 364 + 5},
                p \in {<<>>, <<Line("session", FALSE, None, none), Line("all", TRUE, Some(30), none)>>,
                       <<session, Line("all", TRUE, Some(30), [is |-> "date", day |-> 5, hour |-> 2]),
                         Line("opus", FALSE, Some(5), [is |-> "in", hours |-> 200]), Line("session", TRUE, Some(-4), [is |-> "in", hours |-> 2])>>}}
ClaudeReplies(req) ==
    LET W(used, reset) == [used |-> used, reset |-> reset]
        E(enabled, spent, limit, percent) == [enabled |-> enabled, spent |-> spent, limit |-> limit, percent |-> percent]
        limit == [weekly |-> TRUE, model |-> "opus"]
        shown == Cardinality({i \in DOMAIN log : log[i].req.to = "terminal" /\ log[i].reply.code = "200" /\ log[i].reply.body.shows # {}})
    IN  CASE req.to = "oauth usage" ->
               Refusals({"401", "403", "429", "500", "404", "network", "cancelled", "malformed"})
               \cup Bodies([is : {"junk"}] \cup
                     [is : {"usage"}, limits : {<<limit, limit, [limit EXCEPT !.model = "all-models"], [limit EXCEPT !.weekly = FALSE]>>},
                      windows : {<<>>, ("five" :> W(Some(130), "none")), ("seven" :> W(None, "good")) @@ ("opus" :> W(Some(5), "bad")),
                                 ("five" :> W(Some(-1), "good")) @@ ("sonnet" :> W(Some(7), "none")) @@ ("opus" :> W(Some(5), "bad"))},
                      extra : {None, Some(E(FALSE, 3, Some(0), None)), Some(E(TRUE, 30, Some(20), None)), Some(E(TRUE, 3, Some(0), None)),
                               Some(E(TRUE, -3, Some(9), None)), Some(E(TRUE, 3, Some(20), Some(140))), Some(E(TRUE, 3, None, None))}])
          [] req.to = "auth status" ->
               Refusals({"cancelled", "timeout", "spawn", "not logged in", "rate limited", "too much", "nonzero"})
               \cup Bodies([is : {"junk"}] \cup [is : {"status"}, in : BOOLEAN])
          [] req.to = "terminal" ->
               Refusals({"cancelled", "too much", "broken"})
               \cup Bodies([is : {"screen"}, exited : BOOLEAN,
                            shows : {{}} \cup (IF shown < Len(setup.script) THEN {{setup.script[shown + 1]}} ELSE {})])

----------------------------------------------------------------------------
(* Kilo: one batch of three procedures, and the organizations to choose     *)
(* from. A field is absent, a number, or something that is neither.         *)

(* resolve_auth_path, validated_root and validate_path.                     *)
KiloAuthPath ==
    CASE setup.root = "unset" -> Err("MissingCredential")
      [] setup.root = "relative" -> Err("Api")
      [] setup.root = "absolute" -> Ok("auth.json")
(* read_auth_file, validate_open_auth_file and classify_auth_io.            *)
KiloAuthFile ==
    CASE setup.file = "missing" -> Err("MissingCredential")
      [] setup.file = "private" -> Err("PermissionDenied")
      [] setup.file \in {"too large", "folder"} -> Err("Parse")
      [] setup.file \in {"junk", "no access", "blank", "login"} -> Ok(setup.file)
(* validate_present_cli_token.                                              *)
KiloCliToken(file) == IF file = "login" THEN Ok("token") ELSE Err("Parse")
(* KiloCliCredential::resolve.                                              *)
KiloCli == Then(KiloAuthPath, LAMBDA p : Then(KiloAuthFile, KiloCliToken))
(* resolve_api_credential.                                                  *)
KiloKey == IF setup.key THEN Ok("token") ELSE Err("MissingCredential")
(* KiloProvider::resolve and build.                                         *)
KiloClient == IF setup.source = "Cli" THEN KiloCli ELSE KiloKey

(* kilo_status and organizations_status.                                    *)
KiloStatus(code) ==
    CASE code \in {"401", "403"} -> "AuthenticationExpired"
      [] code = "404" -> "Api"
      [] code = "500" -> "ProviderUnavailable"
      [] code \notin {"401", "403", "404", "500"} -> Classified(code)
KiloOrganizationStatus(code) == IF code = "404" THEN "MissingCredential" ELSE KiloStatus(code)

(* number: anything but a number or nothing is an error.                    *)
KiloNumber(f) ==
    CASE f.is = "none" -> Ok(None) [] f.is = "number" -> Ok(Some(f.n)) [] f.is = "odd" -> Err("Parse")
KiloNumbers(fields) ==
    IF \E i \in DOMAIN fields : KiloNumber(fields[i]).is = "err" THEN Err("Parse")
    ELSE Ok([i \in DOMAIN fields |-> KiloNumber(fields[i]).value])
KiloFloor(option) == IF option = None THEN None ELSE Some(Max({option[1], 0}))
KiloLess(a, b) == IF a # None /\ b # None THEN Some(Max({a[1] - b[1], 0})) ELSE None
KiloPlus(a, b) == IF a # None /\ b # None THEN Some(a[1] + b[1]) ELSE None

(* response_entries: an array or an object of at most three objects.        *)
KiloEntries(b) == IF b.is = "batch" THEN Ok(b.entries) ELSE Err("Parse")
(* trpc_error: what one procedure answered instead of a result.             *)
KiloTrpcKind(why) ==
    CASE why \in {"unauthorized", "forbidden"} -> "AuthenticationExpired"
      [] why = "not found" -> "Api" [] why = "other" -> "Parse"
(* result_payload: data.json, data or json, unless it is null.              *)
KiloPayload(entry) == IF entry.is = "result" THEN Some(entry.payload) ELSE None
(* dictionary_contexts: the objects of a payload, which is one itself.      *)
KiloContexts(payload) ==
    IF payload = None THEN Ok(None) ELSE IF payload[1].is = "scalar" THEN Err("Parse") ELSE Ok(payload)

(* credit_fields, of creditBlocks: the sums of what the blocks state.       *)
KiloBlocks(blocks) ==
    LET amounts == SelectSeq(blocks, LAMBDA x : x.amount # None)
        balances == SelectSeq(blocks, LAMBDA x : x.balance # None)
        total == FoldSeq(LAMBDA x, s : s + x.amount[1], 0, amounts)
        remaining == FoldSeq(LAMBDA x, s : s + x.balance[1], 0, balances)
        t == IF amounts = <<>> THEN None ELSE Some(Max({total, 0}))
        r == IF balances = <<>> THEN None ELSE Some(Max({remaining, 0}))
    IN  [used |-> KiloLess(t, r), total |-> t, remaining |-> r]
(* ... of the first of the names in the payload, or of the plain balance.   *)
KiloPlain(p) ==
    Then(KiloNumbers(<<p.used, p.total, p.remaining, p.balance>>), LAMBDA n :
      IF n[1] = None /\ n[2] = None /\ n[3] = None /\ n[4] # None
      THEN Ok([used |-> Some(0), total |-> KiloFloor(n[4]), remaining |-> KiloFloor(n[4])])
      ELSE Ok([used |-> n[1], total |-> IF n[2] = None THEN KiloPlus(n[1], n[3]) ELSE n[2], remaining |-> n[3]]))
KiloNothing == [used |-> None, total |-> None, remaining |-> None]
KiloCredits(payload) ==
    Then(KiloContexts(payload), LAMBDA c :
      IF c = None THEN Ok(KiloNothing)
      ELSE IF \E i \in DOMAIN c[1].blocks : c[1].blocks[i].amount # None \/ c[1].blocks[i].balance # None
      THEN Ok(KiloBlocks(c[1].blocks))
      ELSE KiloPlain(c[1]))

(* date_value and epoch_timestamp: seconds or milliseconds, or an error.    *)
KiloDate(d) == IF d = "bad" THEN Err("Parse") ELSE Ok(CASE d = "none" -> None [] d = "ahead" -> Some(setup.now + 2) [] d = "past" -> Some(setup.now - 2))
(* subscription_pass_fields.                                                *)
KiloSubscription(s) ==
    Then(KiloNumbers(<<s.used, s.base, s.bonus>>), LAMBDA n :
    Then(KiloDate(s.reset), LAMBDA reset :
      LET bonus == IF n[3] = None THEN 0 ELSE Max({n[3][1], 0})
          used == KiloFloor(n[1])
          total == IF n[2] = None THEN None ELSE Some(Max({n[2][1], 0}) + bonus)
      IN  Ok([used |-> used, total |-> total, remaining |-> KiloLess(total, used), reset |-> reset])))
(* money_amount: cents, then millionths, then whole.                        *)
KiloMoney(m) ==
    Then(KiloNumbers(<<m.cents, m.whole>>), LAMBDA n :
      Ok(IF n[1] # None THEN Some(n[1][1] \div 100) ELSE n[2]))
(* fallback_pass_fields: any two of the three give the third.               *)
KiloFallbackPass(p) ==
    Then(KiloMoney(p.total), LAMBDA t0 : Then(KiloMoney(p.used), LAMBDA u0 : Then(KiloMoney(p.remaining), LAMBDA r0 :
    Then(KiloDate(p.reset), LAMBDA reset :
      LET t == IF t0 = None THEN KiloPlus(u0, r0) ELSE t0
          u == IF u0 = None THEN KiloLess(t, r0) ELSE u0
      IN  Ok([used |-> u, total |-> t, remaining |-> IF r0 = None THEN KiloLess(t, u) ELSE r0, reset |-> reset])))))
(* pass_fields and subscription.                                            *)
KiloPass(payload) ==
    IF payload # None /\ payload[1].is = "subscription" THEN KiloSubscription(payload[1])
    ELSE Then(KiloContexts(payload), LAMBDA c :
           IF c = None \/ (c # None /\ c[1].is # "pass")
           THEN Ok([used |-> None, total |-> None, remaining |-> None, reset |-> None])
           ELSE KiloFallbackPass(c[1]))
(* plan_name: the tier of the subscription, or a name that is given.        *)
KiloPlan(payload) ==
    IF payload = None THEN Ok(None)
    ELSE CASE payload[1].is = "subscription" -> Ok(Some("tier"))
           [] payload[1].is = "scalar" -> Err("Parse")
           [] payload[1].is \notin {"subscription", "scalar"} -> Ok(None)
(* auto_top_up_state: whatever is wrong with it, it is left out.            *)
KiloTopUp(credits, topup) ==
    IF KiloContexts(credits).is = "err" \/ KiloContexts(topup).is = "err" THEN None
    ELSE IF topup # None /\ topup[1].is = "topup" THEN Some(topup[1].enabled) ELSE None
(* parse_usage_response: the first two procedures must not have failed.     *)
KiloFields(b) ==
    Then(KiloEntries(b), LAMBDA e :
      LET failed == {i \in {1, 2} : e[i].is = "error"}
      IN  IF failed # {} THEN Err(KiloTrpcKind(e[Min(failed)].why))
          ELSE LET P(i) == KiloPayload(e[i])
               IN  Then(KiloCredits(P(1)), LAMBDA c : Then(KiloPass(P(2)), LAMBDA p : Then(KiloPlan(P(2)), LAMBDA name :
                     Ok([credits |-> c, pass |-> p, plan |-> name, topup |-> KiloTopUp(P(1), P(3))])))))

(* rate_window, and the share that is used: an empty total is used up.      *)
KiloWindow(used, total, reset) ==
    [percent |-> Some(IF total > 0 THEN Clamp((100 * used) \div total, 0, 100) ELSE 100), reset |-> reset, hours |-> None]
(* normalize: a total that is stated or can be worked out is a window.      *)
KiloUsage(b) ==
    Then(KiloFields(b), LAMBDA f :
      LET Total(x) == KiloFloor(IF x.total # None THEN x.total ELSE KiloPlus(x.used, x.remaining))
          Used(x, t) == IF x.used # None THEN Max({x.used[1], 0})
                        ELSE IF x.remaining # None THEN Max({t[1] - x.remaining[1], 0}) ELSE 0
          Shown(x, reset) == LET t == Total(x) IN IF t = None THEN {} ELSE {KiloWindow(Used(x, t), t[1], reset)}
      IN  Ok([windows |-> Shown(f.credits, None) \cup Shown(f.pass, f.pass.reset), topup |-> f.topup, plan |-> f.plan]))
(* parse_organizations: those that name themselves, of no more than there   *)
(* may be.                                                                  *)
KiloOrganizations(b) ==
    IF b.is = "junk" \/ (b.is = "organizations" /\ b.count > KiloMaxOrganizations) THEN Err("Parse")
    ELSE Ok([windows |-> {}, organizations |-> IF b.is = "organizations" THEN b.count ELSE 0])

(* fetch_at, and fetch_organizations: the older profile has them too.       *)
KiloFetchAt == Then(Sent([to |-> "usage batch"], KiloStatus), KiloUsage)
KiloFetchOrganizations ==
    LET first == Sent([to |-> "organizations"], KiloOrganizationStatus)
    IN  OrElse(Then(first, KiloOrganizations), LAMBDA e :
          IF first.is = "err" /\ e.kind = "MissingCredential" THEN Then(Sent([to |-> "profile"], KiloStatus), KiloOrganizations) ELSE e)
KiloFetch == Then(KiloClient, LAMBDA c : IF setup.mode = "usage" THEN KiloFetchAt ELSE KiloFetchOrganizations)

KiloSetups ==
    LET base == [provider |-> "kilo", source |-> "ApiKey", mode |-> "usage", now |-> 100, key |-> TRUE, root |-> "absolute", file |-> "login"]
    IN  {[base EXCEPT !.source = s, !.key = k, !.root = r, !.file = f] : s \in {"ApiKey", "Cli"}, k \in BOOLEAN,
           r \in {"unset", "relative", "absolute"}, f \in {"missing", "private", "folder", "blank", "login"}}
        \cup {[base EXCEPT !.mode = "organizations"]}
KiloReplies(req) ==
    LET none == [is |-> "none", n |-> 0]
        N(n) == [is |-> "number", n |-> n]
        odd == [is |-> "odd", n |-> 0]
        M(x) == [cents |-> none, whole |-> x]
        Result(p) == [is |-> "result", payload |-> p, why |-> "none"]
        Error(why) == [is |-> "error", payload |-> None, why |-> why]
        absent == [is |-> "absent", payload |-> None, why |-> "none"]
        Plain(u, t, r, bal) == [is |-> "credits", blocks |-> <<>>, used |-> u, total |-> t, remaining |-> r, balance |-> bal]
        Blocks(list) == [Plain(none, none, none, none) EXCEPT !.blocks = list]
        scalar == [is |-> "scalar"]
        refused == Refusals({"401", "403", "404", "429", "500", "network", "cancelled"})
    IN  CASE req.to = "usage batch" -> refused \cup Bodies([is : {"junk"}] \cup [is : {"batch"}, entries :
               {<<c, p, t>> : c \in {absent, Error("unauthorized"), Error("not found"), Result(scalar),
                                     Result(Plain(N(3), none, N(-5), none)), Result(Plain(none, N(0), none, none)), Result(Plain(N(9), N(4), odd, none)),
                                     Result(Plain(none, none, none, N(7))),
                                     Result(Blocks(<<[amount |-> Some(5), balance |-> Some(2)], [amount |-> None, balance |-> Some(9)]>>)),
                                     Result(Blocks(<<[amount |-> Some(5), balance |-> None]>>))},
                              p \in {absent, Error("other"), Result(scalar),
                                     Result([is |-> "subscription", used |-> N(4), base |-> N(10), bonus |-> N(-1), reset |-> "ahead"]),
                                     Result([is |-> "subscription", used |-> none, base |-> N(10), bonus |-> none, reset |-> "bad"]),
                                     Result([is |-> "pass", used |-> M(none), total |-> M(N(8)), remaining |-> M(N(3)), reset |-> "past"]),
                                     Result([is |-> "pass", used |-> [cents |-> N(250), whole |-> N(1)], total |-> M(none), remaining |-> M(none), reset |-> "none"])},
                              t \in {absent, Error("unauthorized"), Result(scalar), Result([is |-> "topup", enabled |-> TRUE])}}])
          [] req.to \in {"organizations", "profile"} ->
               refused \cup Bodies([is : {"junk", "empty"}] \cup [is : {"organizations"}, count : {0, KiloMaxOrganizations, KiloMaxOrganizations + 1}])

----------------------------------------------------------------------------
(* Copilot: the sign-in on another device, the quotas, and the budgets of   *)
(* the account's web page. The unit of time of a sign-in is a second.       *)

(* normalize_enterprise_host, usage_base_url and device_base_url.           *)
CopilotHost ==
    CASE setup.host = "public" -> Ok([api |-> "api.github.com", login |-> "github.com"])
      [] setup.host = "enterprise" -> Ok([api |-> "api.ghe", login |-> "ghe"])
      [] setup.host \in {"odd", "loopback"} -> Err("Api")
(* bounded_duration: more than nothing, and not more than there may be.     *)
CopilotBounded(seconds, maximum) == IF seconds = 0 \/ seconds > maximum THEN Err("Parse") ELSE Ok(seconds)
(* CopilotDeviceCode::from_wire and verification_url.                       *)
CopilotChallenge(b) ==
    IF b.is # "challenge" THEN Err("Parse")
    ELSE Then(CopilotBounded(b.expires, MaxLifetime), LAMBDA e :
         Then(CopilotBounded(b.interval, MaxInterval), LAMBDA i : Ok([expires |-> e, interval |-> i])))
(* request_device_code.                                                     *)
CopilotPlainStatus(code) == IF code = "202" THEN "Api" ELSE Classified(code)
CopilotRequestCode == Then(Sent([to |-> "device code"], CopilotPlainStatus), CopilotChallenge)

(* remaining: the code has expired once nothing of its lifetime is left.    *)
CopilotRemaining(challenge, now) == IF now < challenge.expires THEN Ok(challenge.expires - now) ELSE Err("AuthenticationExpired")
(* sleep_with_deadline: not beyond the end of the code; a cancelled sleep   *)
(* comes first.                                                             *)
CopilotSleepKind(code) == "Network"
CopilotSleep(challenge, now, seconds) ==
    Then(CopilotRemaining(challenge, now), LAMBDA left :
    Then(Sent([to |-> "sleep", at |-> now], CopilotSleepKind), LAMBDA b :
      IF seconds >= left THEN Err("AuthenticationExpired") ELSE Ok(now + seconds)))
CopilotTokenKind(code) == IF code = "deadline" THEN "AuthenticationExpired" ELSE CopilotPlainStatus(code)
(* poll_for_token: what one answer means; None is to ask again.             *)
CopilotAnswer(b) ==
    CASE b.is = "junk" -> Err("Parse")
      [] b.is = "error" -> (CASE b.why \in {"pending", "slow down"} -> Ok(None)
                             [] b.why = "denied" -> Err("PermissionDenied")
                             [] b.why \in {"expired", "other"} -> Err("AuthenticationExpired"))
      [] b.is = "token" -> IF b.status # "200" THEN Err("Api") ELSE IF b.whole THEN Ok(Some("token")) ELSE Err("Parse")
CopilotPoll(challenge) ==
    LET From[t \in 0..(MaxLifetime + SlowDown + 1)] ==
          Then(CopilotSleep(challenge, t, challenge.interval), LAMBDA at :
          Then(Sent([to |-> "token", at |-> at], CopilotTokenKind), LAMBDA b :
          Then(CopilotRemaining(challenge, at + b.took), LAMBDA left :
          Then(CopilotAnswer(b), LAMBDA token :
            IF token # None THEN Ok(token[1])
            ELSE IF b.why = "slow down"
            THEN Then(CopilotSleep(challenge, at + b.took, SlowDown), LAMBDA u : From[u])
            ELSE From[at + b.took]))))
    IN  From[0]
(* CopilotLoginValidator::validate.                                         *)
CopilotUserStatus(code) ==
    CASE code = "401" -> "AuthenticationExpired" [] code = "403" -> "PermissionDenied"
      [] code \notin {"401", "403"} -> CopilotPlainStatus(code)
CopilotValidate(token) ==
    Then(Sent([to |-> "identity"], CopilotUserStatus), LAMBDA b :
      IF b.is = "identity" THEN Ok([windows |-> {}, extras |-> <<>>]) ELSE Err("Parse"))
(* ... of the sign-in command: the session is replaced only at the end.     *)
CopilotLogin == Then(CopilotHost, LAMBDA h : Then(CopilotRequestCode, LAMBDA c : Then(CopilotPoll(c), CopilotValidate)))

(* QuotaSnapshot::parse: a share that is stated, or follows from the counts.*)
CopilotSnapshot(s) ==
    IF s.odd THEN Err("Parse")
    ELSE LET counted == s.entitlement # None /\ s.remaining # None /\ (s.entitlement # None => s.entitlement[1] > 0)
         IN  Ok([entitlement |-> s.entitlement, remaining |-> s.remaining, credits |-> s.credits, unlimited |-> s.unlimited,
                 percent |-> IF s.unlimited THEN Some(100) ELSE IF s.percent # None THEN s.percent
                             ELSE IF counted THEN Some((100 * s.remaining[1]) \div s.entitlement[1]) ELSE None])
(* is_placeholder: a quota the account does not have.                       *)
CopilotPlaceholder(q) ==
    LET Zero(option) == option = None \/ option = Some(0)
    IN  ~q.unlimited /\ \/ q.percent = None /\ Zero(q.entitlement) /\ Zero(q.remaining)
                        \/ q.entitlement = Some(0) /\ q.remaining = Some(0)
CopilotUsable(q) == ~CopilotPlaceholder(q) /\ q.percent # None
CopilotEmpty(q) == CopilotPlaceholder(q) /\ q.credits = None
(* parse_direct_snapshots: by their names, then by what their names hold,   *)
(* in the order of the names, then the first that says anything.            *)
CopilotDirect(list) ==
    LET Named(key) == {i \in DOMAIN list : list[i].key = key}
        Of(key) == IF Named(key) = {} THEN Ok(None)
                   ELSE Then(CopilotSnapshot(list[Min(Named(key))]), LAMBDA q : Ok(IF CopilotEmpty(q) THEN None ELSE Some(q)))
        good == SelectSeq(list, LAMBDA s : CopilotSnapshot(s).is = "ok")
        said == SelectSeq(good, LAMBDA s : ~CopilotEmpty(CopilotSnapshot(s).value))
        First(keys) == LET fit == SelectSeq(said, LAMBDA s : s.key \in keys)
                       IN  IF fit = <<>> THEN None ELSE Some(CopilotSnapshot(fit[1]).value)
    IN  Then(Of("premium_interactions"), LAMBDA p : Then(Of("chat"), LAMBDA c :
          LET premium == IF p # None THEN p ELSE First({"code", "completions", "premium_interactions"})
              chat == IF c # None THEN c ELSE First({"chat"})
          IN  Ok([premium |-> premium,
                  chat |-> IF premium = None /\ chat = None /\ said # <<>> THEN Some(CopilotSnapshot(said[1]).value) ELSE chat])))
(* monthly_snapshot, of parse_quota_counts.                                 *)
CopilotMonthly(monthly, limited) ==
    IF monthly = None \/ limited = None THEN None
    ELSE IF monthly[1] <= 0 THEN None
    ELSE LET left == Max({limited[1], 0})
         IN  Some([entitlement |-> monthly, remaining |-> Some(left), credits |-> None, unlimited |-> FALSE,
                   percent |-> Some(Clamp((100 * left) \div monthly[1], 0, 100))])
(* preferred_snapshot: a count in the place of unlimited, with its credits. *)
CopilotPreferred(direct, fallback) ==
    LET useful == fallback # None /\ (fallback # None => CopilotUsable(fallback[1]))
        credited == IF direct # None THEN direct[1].credits ELSE None
    IN  IF direct # None /\ (direct # None => direct[1].unlimited) /\ useful THEN Some([fallback[1] EXCEPT !.credits = credited])
        ELSE IF direct # None /\ (direct # None => CopilotUsable(direct[1])) THEN direct
        ELSE IF useful THEN Some([fallback[1] EXCEPT !.credits = credited]) ELSE None
(* make_window: what is over the quota is more than all of it.              *)
CopilotWindow(q, reset) ==
    IF q = None THEN {}
    ELSE IF q[1].unlimited \/ ~CopilotUsable(q[1]) THEN {}
    ELSE {[percent |-> Some(Max({100 - q[1].percent[1], 0})), reset |-> reset, hours |-> None]}
(* parse_reset: a date that cannot be read is no date.                      *)
CopilotReset(r) == IF r = "good" THEN Some(setup.now + 9) ELSE None
(* normalize: without a window it is either not limited, or ended.          *)
CopilotNormalize(b, extras) ==
    IF b.is # "quotas" THEN Err("Parse")
    ELSE Then(CopilotDirect(b.snapshots), LAMBDA direct :
      LET completions == CopilotMonthly(b.monthly.completions, b.limited.completions)
          talk == CopilotMonthly(b.monthly.chat, b.limited.chat)
          premium0 == CopilotPreferred(direct.premium, completions)
          chat0 == CopilotPreferred(direct.chat, talk)
          chosen == IF premium0 # None \/ chat0 # None THEN [premium |-> premium0, chat |-> chat0] ELSE direct
          windows == CopilotWindow(chosen.premium, CopilotReset(b.reset)) \cup CopilotWindow(chosen.chat, CopilotReset(b.reset))
          unlimited == \E q \in {chosen.premium, chosen.chat} : q # None /\ (q # None => q[1].unlimited)
      IN  IF b.reset = "odd" THEN Err("Parse")
          ELSE IF windows = {} /\ ~b.token /\ ~unlimited THEN Err(IF b.ended THEN "PermissionDenied" ELSE "Parse")
          ELSE Ok([windows |-> windows, extras |-> extras]))

(* from_manual_capture_routes, classify_budget_capture_error and            *)
(* normalized_budget_cookie.                                                *)
CopilotManual(capture) ==
    CASE capture = "cookie" -> Ok(<<"pasted">>)
      [] capture = "other page" -> Err("Parse")
      [] capture \in {"no cookie", "no session"} -> Err("MissingCredential")
      [] capture \in {"InvalidSyntax", "InvalidSecret", "InvalidPolicy"} -> Err(CaptureKind(capture))
(* budget_browser_sessions: each session of the profiles once.              *)
CopilotBrowser(stores) ==
    LET fit == SelectSeq(stores, LAMBDA s : s # "unreadable")
        once == FoldSeq(LAMBDA s, seen : IF Contains(seen, s) THEN seen ELSE Append(seen, s), <<>>, fit)
    IN  IF Len(stores) > MaxProfiles \/ Len(once) > MaxBudgetSessions THEN Err("Parse") ELSE Ok(once)
(* build_copilot: budgets that cannot be set up are left out.               *)
CopilotSessions ==
    CASE setup.budget.mode = "Manual" -> CopilotManual(setup.budget.capture)
      [] setup.budget.mode = "Browser" -> CopilotBrowser(setup.budget.stores)
      [] setup.budget.mode = "off" -> Err("Api")
(* is_public_github_or_loopback.                                            *)
CopilotBudgetAllowed == setup.host = "public"

(* classify_budget_transport_error, and From<ClassifiedError>.              *)
CopilotBudgetKind(code) ==
    CASE code \in {"401", "403"} -> "NotLoggedIn"
      [] code \in {"cancelled", "network", "408"} -> "Network"
      [] code \notin {"401", "403", "cancelled", "network", "408"} -> "Status"
CopilotIdentityKind(code) ==
    CASE code \in {"401", "403"} -> "NotLoggedIn" [] code = "202" -> "Status"
      [] code \notin {"401", "403", "202"} -> IF Classified(code) = "Network" THEN "Network" ELSE "InvalidResponse"
(* meta_attributes, parse_meta_attributes and first_meta_content: the first *)
(* of the names that a tag of the page has a content for.                   *)
CopilotMeta(tags, names) ==
    FirstOf([k \in DOMAIN names |->
      LET fit == SelectSeq(tags, LAMBDA t : t.name = names[k] /\ t.content # "") IN IF fit = <<>> THEN None ELSE Some(fit[1].content)])
(* parse_budget_page_metadata: a page that names nobody may be the login.   *)
CopilotPageMetadata(b) ==
    LET id == CopilotMeta(b.tags, <<"octolytics-actor-id", "analytics-user-id", "user-id">>)
        login == CopilotMeta(b.tags, <<"user-login">>)
    IN  IF Len(b.tags) > MaxMetaTags THEN Err("InvalidResponse")
        ELSE IF id = None /\ login = None /\ b.login THEN Err("NotLoggedIn") ELSE Ok([account |-> id])
(* fetch_metadata.                                                          *)
CopilotMetadata(i) ==
    Then(Sent([to |-> "budget page", session |-> i], CopilotBudgetKind), LAMBDA b :
      IF b.is = "junk" THEN Err("InvalidResponse") ELSE CopilotPageMetadata(b))
(* parse_budget_page: the innermost payload.                                *)
CopilotPageBody(b) == IF b.is = "junk" \/ (b.is = "budgets" /\ Len(b.list) > MaxBudgetsPerPage) THEN Err("InvalidResponse") ELSE Ok(b)
(* fetch_page.                                                              *)
CopilotPage(i, page) ==
    Then(Sent([to |-> "budgets", session |-> i, page |-> page], CopilotBudgetKind), LAMBDA b :
      IF b.is = "login" THEN Err("NotLoggedIn") ELSE CopilotPageBody(b))
(* fetch_session: the pages, of the account that is signed in only.         *)
CopilotSession(i, me) ==
    LET Pages[page \in 1..MaxBudgetPages] ==
          Then(CopilotPage(i, page), LAMBDA b :
            IF ~b.more \/ page = MaxBudgetPages THEN Ok(b.list)
            ELSE Then(Pages[page + 1], LAMBDA rest : Ok(b.list \o rest)))
    IN  Then(CopilotMetadata(i), LAMBDA m :
          IF m.account # Some(me) THEN Err("AccountMismatch") ELSE Pages[1])
(* normalized_billing_identifier, of the words of a name.                   *)
CopilotSelector(words) ==
    LET asks == {"premium", "request"} \subseteq words
        agent == "agent" \in words /\ (words \cap {"cloud", "coding"} # {} \/ ("copilot" \in words /\ "bundled" \notin words))
    IN  CASE words = {"copilot"} -> "copilot"
          [] asks /\ "spark" \in words -> "spark_premium_request"
          [] asks /\ "spark" \notin words /\ agent -> "copilot_agent_premium_request"
          [] asks /\ "spark" \notin words /\ ~agent /\ (words = {"premium", "request"} \/ words \cap {"bundled", "copilot"} # {}) -> "copilot_premium_request"
          [] OTHER -> "other"
CopilotSelectors(r) == {CopilotSelector(words) : words \in r.names \ {{}}}
(* first_amount and amount_value: the first that is a number, in units.     *)
CopilotAmount(values) ==
    LET fit == SelectSeq(values, LAMBDA v : v.is \in {"number", "text", "cents"})
    IN  IF fit = <<>> THEN 0 ELSE IF fit[1].is = "cents" THEN fit[1].n \div 100 ELSE fit[1].n
(* parse_budget_record, of the fields it may have under several names.      *)
CopilotRecord(r) == [id |-> r.id, selectors |-> CopilotSelectors(r), amount |-> CopilotAmount(r.amounts), current |-> CopilotAmount(r.currents)]
(* approximate_next_month_reset: the midnight that starts the next month,   *)
(* at the offset that holds then; the offset is looked up again until it    *)
(* agrees with the midnight it gives.                                       *)
CopilotOffset(at) == IF at < setup.zone.change THEN setup.zone.before ELSE setup.zone.after
CopilotNextMonth ==
    LET local == setup.now + CopilotOffset(setup.now)
        midnight == MonthHours * (local \div MonthHours + 1)
        Try[k \in 0..3] == LET offset == IF k = 0 THEN CopilotOffset(setup.now) ELSE CopilotOffset(midnight - Try[k - 1]) IN offset
        steady == {k \in 0..3 : CopilotOffset(midnight - Try[k]) = Try[k]}
    IN  IF steady = {} THEN None ELSE Some(midnight - Try[Min(steady)])
(* budget_windows_from_records: Copilot's own, each under a name of its     *)
(* own, and no more than there is room for.                                 *)
CopilotUnique(id, used) ==
    LET Candidate(n) == IF n = 1 THEN <<id, 0>> ELSE <<id, n>>
    IN  Candidate(Min({n \in 1..(Cardinality(used) + 1) : Candidate(n) \notin used}))
CopilotBudgets(list0) ==
    LET records == [k \in DOMAIN list0 |-> CopilotRecord(list0[k])]
        fit == SelectSeq(records, LAMBDA r : r.amount > 0 /\ r.selectors \ {"other"} # {})
        Add(r, list) == IF Len(list) = MaxBudgetWindows THEN list
                        ELSE Append(list, [id |-> CopilotUnique(r.id, {w.id : w \in Range(list)}),
                                           percent |-> Clamp((100 * r.current) \div r.amount, 0, 999), reset |-> CopilotNextMonth])
    IN  FoldSeq(Add, <<>>, fit)
(* fetch_for_identity: the next session of a browser when one is not the    *)
(* account's.                                                               *)
CopilotForIdentity(sessions, me) ==
    IF sessions = <<>> THEN Err("NoSession")
    ELSE LET From[i \in 1..Len(sessions)] ==
               OrElse(CopilotSession(i, me), LAMBDA e :
                 IF e.kind \in {"NotLoggedIn", "AccountMismatch"} /\ setup.budget.mode = "Browser"
                 THEN IF i < Len(sessions) THEN From[i + 1] ELSE Err("NoSession")
                 ELSE e)
         IN  Then(From[1], LAMBDA records : Ok(CopilotBudgets(records)))
(* fetch_budget_windows and parse_oauth_identity.                           *)
CopilotBudgetWindows(sessions) ==
    Then(Sent([to |-> "identity"], CopilotIdentityKind), LAMBDA b :
      IF b.is = "identity" THEN CopilotForIdentity(sessions, b.id) ELSE Err("InvalidResponse"))
(* fetch_at: whatever happens to the budgets, the quotas are shown.         *)
CopilotUsage ==
    Then(CopilotHost, LAMBDA h : Then(IF setup.token THEN Ok("token") ELSE Err("MissingCredential"), LAMBDA t :
    Then(Sent([to |-> "quotas"], CopilotUserStatus), LAMBDA b : Then(CopilotNormalize(b, <<>>), LAMBDA base :
      IF CopilotSessions.is = "err" \/ ~CopilotBudgetAllowed THEN Ok(base)
      ELSE Then(Optional(CopilotBudgetWindows(CopilotSessions.value), <<>>), LAMBDA extras : CopilotNormalize(b, extras))))))
CopilotFetch == IF setup.mode = "login" THEN CopilotLogin ELSE CopilotUsage

CopilotSetups ==
    LET B(mode, capture, stores) == [mode |-> mode, capture |-> capture, stores |-> stores]
        base == [provider |-> "copilot", source |-> "OAuth", mode |-> "usage", now |-> 100, host |-> "public", token |-> TRUE, zone |-> [before |-> -5, after |-> -4, change |-> 110], budget |-> B("off", "none", <<>>)]
    IN  {[base EXCEPT !.host = h, !.token = t] : h \in {"public", "enterprise", "odd"}, t \in BOOLEAN}
        \cup {[base EXCEPT !.mode = "login", !.host = h] : h \in {"public", "loopback"}}
        \cup {[base EXCEPT !.budget = B("Manual", c, <<>>), !.host = h] : c \in {"cookie", "other page", "no cookie", "InvalidSecret"}, h \in {"public", "enterprise"}}
        \cup {[base EXCEPT !.budget = B("Browser", "none", s)] : s \in {<<>>, <<"a", "unreadable", "a">>, <<"a", "b">>, <<"a", "b", "c">>}}
        \cup {[base EXCEPT !.budget = B("Manual", "cookie", <<>>), !.zone.change = MonthHours + c] : c \in {-1, 4, 5, 9}}
CopilotReplies(req) ==
    LET S(key, e, r, c, p, u) == [key |-> key, entitlement |-> e, remaining |-> r, credits |-> c, percent |-> p, unlimited |-> u, odd |-> FALSE]
        refused == {"401", "403", "429", "network", "cancelled"}
        none == [completions |-> None, chat |-> None]
        premium == S("premium_interactions", Some(10), Some(-2), Some(3), None, FALSE)
        empty == S("premium_interactions", Some(0), Some(0), None, None, FALSE)
        N(n) == [is |-> "number", n |-> n]
        R(id, amount, current) == [id |-> id, amounts |-> <<N(amount)>>, currents |-> <<N(current)>>, names |-> {{"copilot"}}]
        Tag(name, content) == [name |-> name, content |-> content]
        Token(w, s) == [is |-> "token", whole |-> w, status |-> s, why |-> "none", took |-> 0]
        E(why, took) == [is |-> "error", why |-> why, took |-> took]
        simple == [is |-> "quotas", snapshots |-> <<premium>>, monthly |-> none, limited |-> none, reset |-> "none", token |-> FALSE, ended |-> FALSE]
    IN  CASE req.to = "device code" -> Refusals({"429", "202", "network", "cancelled"})
               \cup Bodies([is : {"junk"}] \cup [is : {"challenge"}, expires : {0, MaxLifetime - 1, MaxLifetime, MaxLifetime + 1}, interval : {0, 1, 2, MaxInterval + 1}])
          [] req.to = "sleep" -> Refusals({"cancelled"}) \cup Bodies([is : {"woke"}])
          [] req.to = "token" -> Refusals({"deadline", "network", "cancelled"})
               \cup Bodies({E("pending", 0), E("pending", 1), E("slow down", 0), E("slow down", 1), E("denied", 0), E("other", 0), Token(TRUE, "200"), Token(FALSE, "200"), Token(TRUE, "400"),
                            [is |-> "junk", took |-> 0, why |-> "none"]})
          [] req.to = "identity" -> Refusals(refused \cup {"202"}) \cup Bodies([is : {"junk"}] \cup [is : {"identity"}, id : {"me"}])
          [] req.to = "quotas" -> Refusals(refused) \cup Bodies([is : {"junk"}] \cup
               (IF setup.budget.mode = "off"
                THEN {[simple EXCEPT !.snapshots = s, !.monthly = m[1], !.limited = m[2], !.reset = x[1], !.token = x[2], !.ended = x[3]] :
                      s \in {<<>>, <<premium>>, <<empty>>, <<[empty EXCEPT !.credits = Some(2)]>>, <<[premium EXCEPT !.odd = TRUE]>>,
                             <<S("chat", None, None, None, Some(30), FALSE), S("completions", None, None, None, Some(140), FALSE), empty>>,
                             <<S("other", Some(4), Some(1), None, None, FALSE)>>,
                             <<S("chat", None, None, Some(1), None, TRUE), S("code", None, None, None, Some(5), FALSE)>>},
                      m \in {<<none, none>>, <<[completions |-> Some(0), chat |-> Some(8)], [completions |-> Some(3), chat |-> Some(-1)]>>},
                      x \in {<<"none", FALSE, FALSE>>, <<"good", FALSE, TRUE>>, <<"odd", TRUE, FALSE>>, <<"unreadable", TRUE, TRUE>>}}
                ELSE {simple}))
          [] req.to = "budget page" -> Refusals({"403", "429", "cancelled"})
               \cup Bodies([is : {"junk"}] \cup [is : {"settings"}, login : BOOLEAN, tags :
                     {<<>>, <<Tag("user-id", "me")>>, <<Tag("user-login", "me")>>, <<Tag("user-id", "me"), Tag("octolytics-actor-id", "someone else")>>,
                      [k \in 1..(MaxMetaTags + 1) |-> Tag("user-id", "me")]}])
          [] req.to = "budgets" -> Refusals({"401", "cancelled"})
               \cup Bodies([is : {"junk", "login"}] \cup
                     [is : {"budgets"}, more : BOOLEAN, list :
                     {<<>>, <<R("a", 2, 90), [R("b", 5, 1) EXCEPT !.names = {{"actions"}}], R("a", 4, -1)>>,
                      <<R("a", 0, 1), [R("a", 4, 2) EXCEPT !.amounts = <<[is |-> "odd", n |-> 0], [is |-> "cents", n |-> 400]>>,
                                                          !.names = {{"coding", "agent", "premium", "request"}, {}}]>>,
                      <<[R("c", 4, 2) EXCEPT !.names = {{"premium", "request"}, {"spark", "premium", "request"}}], [R("c", 1, 2) EXCEPT !.names = {{"bundled", "premium", "request"}}]>>,
                      [k \in 1..(MaxBudgetsPerPage + 1) |-> R("a", 0, 1)]}])

----------------------------------------------------------------------------
Fetch == CASE setup.provider = "claude" -> ClaudeFetch
           [] setup.provider = "kilo" -> KiloFetch
           [] setup.provider = "copilot" -> CopilotFetch
Replies(req) == CASE setup.provider = "claude" -> ClaudeReplies(req)
                  [] setup.provider = "kilo" -> KiloReplies(req)
                  [] setup.provider = "copilot" -> CopilotReplies(req)
Setups == ClaudeSetups \cup KiloSetups \cup CopilotSetups

Init == Start(Setups)
Next == Advance(Fetch, Replies)
Spec == Init /\ [][Next]_vars

----------------------------------------------------------------------------
(* The user is asked to sign in only when a service, a program or a stored  *)
(* login says so; a credential is called missing only when the one that was *)
(* used last says that it is not there.                                     *)
SaysLogin(r) ==
    r.code \in {"401", "403", "not logged in", "spawn"} \/ (r.code = "200" /\ r.body.is = "status" /\ ~r.body.in)
    \/ (r.code = "200" /\ r.body.is = "screen" /\ r.body.shows \cap {"not logged in", "please log in"} # {})
    \/ r.code = "deadline" \/ (r.code = "200" /\ r.body.is = "error")
    \/ (r.code = "200" /\ r.body.is = "batch" /\ \E i \in {1, 2} : r.body.entries[i].why \in {"unauthorized", "forbidden"})
NothingStored ==
    CASE setup.provider = "claude" -> ClaudeCredential.is = "err" \/ ~setup.cli
      [] setup.provider = "kilo" -> KiloClient.is = "err"
      [] setup.provider = "copilot" -> ~setup.token
LoginOnlyWhenRefused ==
    FailedWith({"AuthenticationExpired", "MissingCredential"}) =>
        NothingStored \/ \E i \in DOMAIN log : SaysLogin(log[i].reply)

(* Usage that was answered is shown, and a fetch that may fall back tries   *)
(* every route before it fails.                                             *)
HoldsUsage(b) ==
    CASE setup.provider = "claude" -> b.is = "usage" /\ ClaudeUsage(b).is = "ok"
      [] setup.provider = "kilo" -> b.is = "organizations" /\ b.count <= KiloMaxOrganizations
      [] setup.provider = "copilot" -> CopilotNormalize(b, <<>>).is = "ok"

(* The sign-in on another device polls no faster than it was told and not   *)
(* after its code has expired, and the budgets of another account are not   *)
(* asked for.                                                               *)
CopilotStaysInBounds ==
    /\ \A i, j \in DOMAIN log : i < j /\ log[i].req.to = "token" /\ log[j].req.to = "token" =>
         log[j].req.at >= log[i].req.at + ReplyTo([to |-> "device code"]).body.interval
                          + (IF log[i].reply.body.why = "slow down" THEN SlowDown ELSE 0)
    /\ \A i \in DOMAIN log : log[i].req.to = "token" => log[i].req.at < ReplyTo([to |-> "device code"]).body.expires
    /\ \A i \in DOMAIN log : log[i].req.to = "budgets" =>
         CopilotPageMetadata(ReplyTo([to |-> "budget page", session |-> log[i].req.session]).body).value.account = Some(ReplyTo([to |-> "identity"]).body.id)

(* A terminal is read until its deadline only, its command is typed once    *)
(* and a choice is confirmed only with Yes selected.                        *)
RequestsStayInBounds ==
    /\ Cardinality({i \in DOMAIN log : log[i].req.to = "terminal"}) <= Deadline
    /\ setup.provider = "claude" => \A i \in DOMAIN log :
         log[i].req.to = "terminal" /\ log[i].reply.code = "200" =>
           \A p \in {ClaudeTerminal[log[i].req.t]} : \A q \in {ClaudeTurn(p, log[i].req.t, log[i].reply.body.shows)} :
           /\ Cardinality({k \in DOMAIN q.written : q.written[k] = "/usage"}) <= 1
           /\ p.selected = "no" /\ q.selected = "no" => "enter" \notin {q.written[k] : k \in (Len(p.written) + 1)..Len(q.written)}
    /\ setup.provider = "copilot" => CopilotStaysInBounds

=============================================================================
