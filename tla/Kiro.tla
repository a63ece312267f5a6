----------------------------------- MODULE Kiro -----------------------------------
(****************************************************************************)
(* The Kiro adapter (providers/kiro.rs): kiro-cli is run for the account    *)
(* and the usage, then for the context; the usage limits come from the      *)
(* service with the token the CLI keeps in its database. Every command is   *)
(* run over pipes, and once more on a terminal when the pipes stay silent.  *)
(* An answer is what a run printed; a terminal run is asked for separately. *)
(****************************************************************************)
EXTENDS ProviderFetch

Commands == {"whoami", "usage", "context"}
Run(command, via) == [command |-> command, via |-> via]

(* A capture: whether the output asks for a login, whether the exit was     *)
(* clean, whether the run was stopped after output, and what it says.       *)
Login(c) == c.says = "login"

(* parse_account_fields, parse_usage_core, parse_context_report.            *)
Parses(c) == c.says \notin {"login", "nothing", "noise"}

(* acceptable_capture.                                                      *)
Acceptable(c, command) ==
    \/ Login(c)
    \/ /\ c.clean \/ c.stopped
       /\ \/ Parses(c)
          \/ command = "context" /\ c.clean /\ ~c.stopped /\ c.says = "nothing"

(* validate_capture.                                                        *)
Validate(c, command) ==
    IF Login(c) THEN Err("AuthenticationExpired")
    ELSE IF c.stopped /\ ~Acceptable(c, command) THEN Err("Network")
    ELSE IF ~c.clean /\ ~c.stopped THEN Err("Api")
    ELSE Ok(c)

(* critical_cli_error.                                                      *)
Critical(p) ==
    p.is = "err" /\ p.kind \in {"AuthenticationExpired", "MissingCredential", "ProviderUnavailable"}

(* finish_without_fallback.                                                 *)
FinishWithoutFallback(result, command) ==
    Then(result, LAMBDA c :
        IF Acceptable(c, command) THEN Validate(c, command)
        ELSE IF ~c.clean THEN Err("Api")
        ELSE Err(IF c.stopped THEN "Network" ELSE "Parse"))

(* resolve_command_results: the terminal's capture, else what the pipes     *)
(* gave, else the more telling error.                                       *)
Resolve(pipe, pty, command) ==
    LET a == Then(pipe, LAMBDA c : Validate(c, command))
        b == Then(pty, LAMBDA c : Validate(c, command))
    IN  IF b.is = "ok" \/ Critical(b) THEN b
        ELSE IF a.is = "ok" \/ Critical(a) THEN a ELSE b

(* run_pipe, run_pty: a capture or an error of its own.                     *)
Ran(command, via) ==
    LET reply == ReplyTo(Run(command, via)) IN
    IF reply.code = "cancelled" THEN Err("Network")
    ELSE IF reply.body.is = "capture" THEN Ok(reply.body) ELSE Err(reply.body.kind)

Terminal(pipe, command) ==
    IF ~Asked(Run(command, "pty")) THEN Ask(Run(command, "pty"))
    ELSE Resolve(pipe, Ran(command, "pty"), command)

(* run_command: pipes that finish before the fallback delay, or that were   *)
(* active by then, decide alone; silent ones are stopped, and the terminal  *)
(* is tried with the time that is left: what they print after the delay is  *)
(* kept, and does not call the terminal off. Cancellation stops the pipes.  *)
RunCommand(command) ==
    LET req == Run(command, "pipe")
        reply == ReplyTo(req)
        pipe == Ran(command, "pipe")
        early == reply.body.early
        active == reply.body.active
        spent == reply.body.spent
    IN  IF Cancelled /\ ~Asked(req) THEN Err("Network")
        ELSE IF ~Asked(req) THEN Ask(req)
        ELSE IF reply.code = "cancelled" THEN Err("Network")
        ELSE IF early /\ pipe.is = "ok" /\ Acceptable(pipe.value, command)
        THEN Validate(pipe.value, command)
        ELSE IF early /\ Critical(pipe) THEN pipe
        ELSE IF active \/ (early /\ spent) THEN FinishWithoutFallback(pipe, command)
        ELSE IF Critical(pipe) THEN pipe
        ELSE IF spent THEN Err("Network")
        ELSE Terminal(pipe, command)

(* parse_account: an empty answer is an error, a login prompt another.      *)
Account ==
    Then(RunCommand("whoami"), LAMBDA c :
        IF Login(c) THEN Err("AuthenticationExpired")
        ELSE IF c.says = "nothing" THEN Err("Api") ELSE Ok(c))

(* parse_usage_core_with_offset: managed plans of the new format have no    *)
(* credits; a bar without numbers stands for 50 credits.                    *)
ParseUsage(c) ==
    CASE c.says = "credits" -> Ok([used |-> c.used, total |-> c.total, overage |-> None,
                                   percent |-> IF c.total > 0 THEN (100 * c.used) \div c.total ELSE 0])
      [] c.says = "bar" -> Ok([used |-> 0, total |-> 50, percent |-> 40, overage |-> None])
      [] c.says = "managed" -> Ok([used |-> 0, total |-> 0, percent |-> 0, overage |-> None])
      [] OTHER -> Err("Parse")

(* read_cli_identity and parse_identity_rows: token and profile from the    *)
(* CLI's database, when there is one and sqlite to read it.                 *)
Identity ==
    IF ~setup.database THEN Err("MissingCredential")
    ELSE Then(Sent([command |-> "sqlite", via |-> "process"], Classified), LAMBDA b :
         IF b.is = "rows" THEN Ok(b) ELSE Err(IF b.is = "none" THEN "MissingCredential" ELSE "Parse"))

(* parse_usage_limits: one credit row, the plan's usage is the total minus  *)
(* the overage and, without bonus credits, within the plan; a cap counts    *)
(* only when overages are enabled.                                          *)
ParseLimits(b) ==
    IF b.is # "limits" \/ b.used < b.overage THEN Err("Parse")
    ELSE LET used == b.used - b.overage IN
         IF ~b.bonus /\ used > b.limit THEN Err("Parse")
         ELSE Ok([used |-> used, limit |-> b.limit, overage |-> b.overage,
                  cap |-> IF b.enabled THEN b.cap ELSE None, bonus |-> b.bonus])

(* fetch_usage_limits.                                                      *)
UsageLimits ==
    Then(Identity, LAMBDA i :
        Then(Sent([command |-> "limits", via |-> "https"], Classified), ParseLimits))

(* normalize_report: limits without bonus credits replace the CLI's count;  *)
(* the overage window is capped at full.                                    *)
Normalize(report, limits) ==
    IF limits = None THEN Ok(report)
    ELSE LET l == limits[1]
             percent == IF l.limit > 0 THEN (100 * l.used) \div l.limit ELSE report.percent
             over == IF l.cap # None /\ l.cap[1] > 0
                     THEN Some(Clamp((100 * l.overage) \div l.cap[1], 0, 100)) ELSE None
         IN  Ok([IF l.bonus THEN report
                 ELSE [report EXCEPT !.used = l.used, !.total = l.limit, !.percent = percent]
                 EXCEPT !.overage = over])

(* The limits are an extra: without them the CLI's report stands.           *)
WithLimits(report) ==
    IF UsageLimits.is = "err"
    THEN IF Cancelled THEN UsageLimits ELSE Normalize(report, None)
    ELSE Then(UsageLimits, LAMBDA l : Normalize(report, Some(l)))

(* fetch_at, the join: both commands are run; a failed usage is a login     *)
(* when the account says so.                                                *)
UsageCapture ==
    IF Account.is = "ask" THEN Account
    ELSE OrElse(RunCommand("usage"), LAMBDA e :
         IF Account.is = "err" /\ Account.kind = "AuthenticationExpired"
         THEN Err("AuthenticationExpired") ELSE e)

(* The token was cancelled while a command ran.                             *)
CancelledRunning == \E i \in DOMAIN log : log[i].cut /\ log[i].req.via \in {"pipe", "pty"}

(* fetch_at: the context is optional, the usage is not.                     *)
Fetch ==
    Then(UsageCapture, LAMBDA usage :
        LET context == RunCommand("context") IN
        IF context.is = "ask" \/ (context.is = "err" /\ CancelledRunning) THEN context
        ELSE Then(ParseUsage(usage), WithLimits))

----------------------------------------------------------------------------
Capture(says, clean, stopped, early, active) ==
    [is |-> "capture", says |-> says, clean |-> clean, stopped |-> stopped, early |-> early,
     active |-> active, spent |-> FALSE, used |-> 30, total |-> 60]
Failed(kind, early, active, spent) ==
    [is |-> "error", kind |-> kind, early |-> early, active |-> active, spent |-> spent]

Setups == [database : BOOLEAN]
Runs(says) ==
    {Capture(s, TRUE, FALSE, TRUE, TRUE) : s \in says} \cup
    {Capture(s, TRUE, FALSE, FALSE, FALSE) : s \in (says \cap {"credits", "noise"}) \cup {"login"}} \cup   \* printed after the delay
    {Capture("login", FALSE, FALSE, TRUE, TRUE), Capture("nothing", FALSE, FALSE, TRUE, FALSE),
     Capture("nothing", TRUE, FALSE, TRUE, FALSE), Capture("noise", TRUE, TRUE, FALSE, TRUE),
     Failed("Network", FALSE, FALSE, FALSE), Failed("Network", FALSE, FALSE, TRUE),
     Failed("ProviderUnavailable", FALSE, FALSE, FALSE)}
Terminals(says) ==
    {Capture(s, TRUE, FALSE, TRUE, TRUE) : s \in says}
    \cup {Capture("login", TRUE, FALSE, TRUE, TRUE), Failed("Network", TRUE, TRUE, FALSE)}
Says(command) ==
    CASE command = "whoami" -> {"account", "nothing"}
      [] command = "usage" -> {"credits", "bar", "managed", "noise"}
      [] command = "context" -> {"percent", "nothing"}
Limits ==
    LET L(used, overage, enabled, bonus) ==
          [is |-> "limits", used |-> used, overage |-> overage, limit |-> 50, cap |-> Some(10), enabled |-> enabled, bonus |-> bonus]
    IN  {L(u, o, TRUE, FALSE) : u \in {5, 70}, o \in {0, 20}} \cup {L(70, 20, FALSE, FALSE), L(70, 0, FALSE, TRUE), L(70, 20, TRUE, TRUE)}

Replies(req) ==
    Refusals({"cancelled"}) \cup
    CASE req.via = "pipe" -> Bodies(Runs(Says(req.command)))
      [] req.via = "pty" -> Bodies(Terminals(Says(req.command)))
      [] req.via = "process" -> Bodies({[is |-> "rows"], [is |-> "none"]})
      [] req.via = "https" -> Refusals({"401"}) \cup Bodies(Limits)

Init == Start(Setups)
Next == Advance(Fetch, Replies)
Spec == Init /\ [][Next]_vars

(* The user is told to log in only when the account's or the usage's run    *)
(* asked for it, unless the fetch was cancelled (fetch_at).                 *)
LoginWasAsked ==
    FailedWith({"AuthenticationExpired"}) /\ ~Cancelled =>
        \E i \in DOMAIN log : /\ log[i].req.command \in {"whoami", "usage"}
                              /\ log[i].reply.body.is = "capture" /\ Login(log[i].reply.body)

(* Only the usage command can fail a fetch that is not cancelled: account,  *)
(* context, database and limits failures leave the report as it is. Usage   *)
(* that was printed is shown, unless the pipes printed it so late that the  *)
(* terminal had been decided on: then the terminal's run counts, even one   *)
(* that prints nothing of use (fetch_at, resolve_command_results).          *)
OnlyUsageIsRequired ==
    verdict.is = "err" /\ ~Cancelled =>
        \A i \in DOMAIN log :
            log[i].req.command = "usage" /\ log[i].reply.body.is = "capture" /\ log[i].reply.body.says \in {"credits", "bar", "managed"}
            => log[i].req.via = "pipe" /\ ~log[i].reply.body.early /\ ~log[i].reply.body.active
               /\ Asked(Run("usage", "pty")) /\ ReplyTo(Run("usage", "pty")).body.is = "capture"

(* A command is started a second time only if its pipes were silent when    *)
(* that was decided, with time left, and neither answered nor failed for    *)
(* good before; and what the pipes print after the decision never calls it  *)
(* off (run_command).                                                       *)
SecondRunOnlyAfterSilence ==
    \A i \in DOMAIN log : log[i].req.via = "pipe" /\ log[i].reply.code = "200" =>
        LET run == log[i].reply.body
            command == log[i].req.command
            second == Asked(Run(command, "pty"))
        IN  /\ second => /\ ~run.active /\ ~run.spent
                         /\ run.is = "error" => ~Critical(Err(run.kind))
                         /\ run.is = "capture" /\ run.early => ~Acceptable(run, command)
            /\ run.is = "capture" /\ ~run.early /\ ~run.active /\ (i < Len(log) \/ ~Running) => second

(* What is shown of the plan is the plan's own part: never more than its    *)
(* credits, whatever the overage (parse_usage_limits, normalize_report).    *)
PlanWithinCredits ==
    Returned => /\ verdict.value.total > 0 => verdict.value.used <= verdict.value.total
                /\ verdict.value.overage # None => verdict.value.overage[1] \in 0..100
=============================================================================
