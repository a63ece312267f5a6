------------------------------ MODULE Configuration ------------------------------
(****************************************************************************)
(* The configuration file: its validation (storage/config), the commands    *)
(* that read, change and replace it (app/wiring.rs, run_config), each in    *)
(* two steps with no lock across them, and the reloader that polls it       *)
(* (storage/watcher.rs). A route has an identity and an instance; of its    *)
(* settings the endpoint and one option are kept. atomic_write is one step: *)
(* its transactions are those of AtomicFile.                                *)
(****************************************************************************)
EXTENDS Integers, Sequences, FiniteSets, SequencesExt

CONSTANTS
    Commands,       \* processes that run config commands
    MaxInstances,   \* MAX_PROVIDER_INSTANCES
    MaxConfigBytes, \* MAX_CONFIG_BYTES, in routes and settings
    MaxCommands, MaxEdits

ConfigurationAssumption ==
    {MaxInstances, MaxConfigBytes, MaxCommands, MaxEdits} \subseteq Nat

VARIABLES
    file,     \* what the path holds
    origin,   \* what wrote it last: "edit", "enable" or "command"
    pc,       \* of each process: "idle" or "write"
    draft,    \* of each process in "write": the command, what it read and what it writes
    reader,   \* the reloader: its current configuration and last observation
    budget    \* commands and edits left

vars == <<file, origin, pc, draft, reader, budget>>

Providers == {"Codex", "Groq", "Ollama"}
None == [is |-> "none"]
NoReader == [current |-> None, seen |-> None]

----------------------------------------------------------------------------
(* Validation.                                                              *)

Route(id, instance, enabled, endpoint) ==
    [id |-> id, instance |-> instance, enabled |-> enabled, endpoint |-> endpoint, option |-> "none"]
Default(id, enabled) == Route(id, "default", enabled, "none")
Empty == [routes |-> <<>>, order |-> <<>>]
Ids(routes) == {routes[i].id : i \in DOMAIN routes}

(* validate_endpoint: https, or plain http to this machine for a provider   *)
(* that runs locally.                                                       *)
EndpointAllowed(id, endpoint) ==
    endpoint \in {"none", "https"} \/ (endpoint = "loopback" /\ id = "Ollama")

(* validate_config.                                                         *)
ValidateConfig(c) ==
    IF Len(c.routes) > MaxInstances THEN "CollectionTooLarge"
    ELSE IF \E i, j \in DOMAIN c.routes : i < j /\ c.routes[i].id = c.routes[j].id
                                          /\ c.routes[i].instance = c.routes[j].instance
    THEN "DuplicateProvider"
    ELSE IF \E i \in DOMAIN c.routes : ~EndpointAllowed(c.routes[i].id, c.routes[i].endpoint) THEN "InvalidEndpoint"
    ELSE IF Cardinality(ToSet(c.order)) < Len(c.order) THEN "DuplicateProviderOrder"
    ELSE IF ToSet(c.order) # Ids(c.routes) THEN "ProviderOrderMismatch"
    ELSE "ok"

(* What a command encodes, pretty-printed: its size grows with the routes   *)
(* and their settings, and no command compares it with the limit.           *)
Bytes(c) ==
    Len(c.routes) + Cardinality({i \in DOMAIN c.routes : c.routes[i].endpoint # "none"})
                  + Cardinality({i \in DOMAIN c.routes : c.routes[i].option # "none"})
Document(config) ==
    [is |-> "json", secret |-> FALSE, version |-> 1, config |-> config, bytes |-> Bytes(config)]
(* load_config_bytes: size, syntax, no field that looks like a secret, the  *)
(* schema's version, and the validation.                                    *)
LoadConfig(f) ==
    CASE f.is = "huge" -> "ConfigTooLarge"
      [] f.is = "junk" -> "JsonInvalid"
      [] f.is = "none" -> "ConfigReadFailed"
      [] f.is = "json" -> IF f.bytes > MaxConfigBytes THEN "ConfigTooLarge"
                          ELSE IF f.secret THEN "SecretField"
                          ELSE IF f.version # 1 THEN "UnsupportedSchemaVersion"
                          ELSE ValidateConfig(f.config)

----------------------------------------------------------------------------
(* The commands. What was read is changed, and, but by enable and disable,  *)
(* validated before it is written.                                          *)

(* The file as a command sees it: none is an empty configuration.           *)
Readable(f) == f.is = "none" \/ LoadConfig(f) = "ok"
Read(f) == IF f.is = "none" THEN Empty ELSE f.config

AtDefault(c, id) == {i \in DOMAIN c.routes : c.routes[i].id = id /\ c.routes[i].instance = "default"}
(* The default route of a provider is changed, or added with the change; a  *)
(* provider that was not in the order is put at its end.                    *)
WithRoute(c, id, route, Change(_)) ==
    LET at == AtDefault(c, id) IN
    IF at # {} THEN [c EXCEPT !.routes[CHOOSE i \in at : TRUE] = Change(@)]
    ELSE [routes |-> Append(c.routes, Change(route)),
          order |-> IF id \in ToSet(c.order) THEN c.order ELSE Append(c.order, id)]

(* set_provider_enabled.                                                    *)
SetProviderEnabled(c, id, enabled) ==
    WithRoute(c, id, Default(id, enabled), LAMBDA r : [r EXCEPT !.enabled = enabled])
(* set_provider_endpoint: a new route stays disabled.                       *)
SetProviderEndpoint(c, id, endpoint) ==
    WithRoute(c, id, Default(id, FALSE), LAMBDA r : [r EXCEPT !.endpoint = endpoint])
(* set_provider_option and apply_provider_option_update.                    *)
SetProviderOption(c, id, option) ==
    WithRoute(c, id, Default(id, FALSE), LAMBDA r : [r EXCEPT !.option = option])

(* The members of a sequence that are not in a set, in their order.         *)
Without(s, T) ==
    LET kept[n \in 0 .. Len(s)] ==
          IF n = 0 THEN << >> ELSE IF s[n] \in T THEN kept[n - 1] ELSE Append(kept[n - 1], s[n])
    IN  kept[Len(s)]

(* set_provider_order: those named come first, the others keep their order; *)
(* one without any route is added, and enabled.                             *)
SetProviderOrder(c, ids) ==
    LET missing == Without(ids, Ids(c.routes))
    IN  [routes |-> c.routes \o [i \in DOMAIN missing |-> Default(missing[i], TRUE)],
         order |-> ids \o Without(c.order, ToSet(ids))]

Kinds ==
    [is : {"enable", "disable"}, id : Providers]
    \cup [is : {"reorder"}, ids : {<<"Groq">>, <<"Ollama", "Codex">>, <<"Codex", "Codex">>}]
    \cup [is : {"endpoint"}, id : {"Groq", "Ollama"}, endpoint : {"none", "https", "loopback"}]
    \cup [is : {"option"}, id : {"Codex"}, option : {"none", "cli", "unknown"}]
    \cup [is : {"init"}, force : BOOLEAN]

(* What a command refuses before it looks at the file: an order that names  *)
(* a provider twice, a value no picker offers (provider_option_update).     *)
Sensible(k) ==
    /\ k.is = "reorder" => Cardinality(ToSet(k.ids)) = Len(k.ids)
    /\ k.is = "option" => k.option # "unknown"

(* initialize_config: only --force replaces a file that is there, and that  *)
(* one does not look.                                                       *)
InitAllowed(k) == k.force \/ file = None

Changed(c, k) ==
    CASE k.is = "enable" -> SetProviderEnabled(c, k.id, TRUE)
      [] k.is = "disable" -> SetProviderEnabled(c, k.id, FALSE)
      [] k.is = "reorder" -> SetProviderOrder(c, k.ids)
      [] k.is = "endpoint" -> SetProviderEndpoint(c, k.id, k.endpoint)
      [] k.is = "option" -> SetProviderOption(c, k.id, k.option)
      [] k.is = "init" -> Empty

(* A command goes on to write: it could read the file, and what it made of  *)
(* it is valid; enable and disable do not ask.                              *)
Accepted(k) ==
    IF k.is = "init" THEN InitAllowed(k)
    ELSE /\ Sensible(k) /\ Readable(file)
         /\ k.is \in {"enable", "disable"} \/ ValidateConfig(Changed(Read(file), k)) = "ok"

RunCommand(p, k) ==
    /\ pc[p] = "idle" /\ budget.commands > 0
    /\ budget' = [budget EXCEPT !.commands = @ - 1]
    /\ IF Accepted(k)
       THEN /\ pc' = [pc EXCEPT ![p] = "write"]
            /\ draft' = [draft EXCEPT ![p] = [command |-> k, read |-> file,
                                              writes |-> Document(Changed(IF k.is = "init" THEN Empty ELSE Read(file), k))]]
       ELSE UNCHANGED <<pc, draft>>
    /\ UNCHANGED <<file, origin, reader>>

WrittenBy(k) == IF k.is \in {"enable", "disable"} THEN "enable" ELSE "command"

(* atomic_write, or its failure.                                            *)
Write(p) ==
    /\ pc[p] = "write"
    /\ pc' = [pc EXCEPT ![p] = "idle"]
    /\ draft' = [draft EXCEPT ![p] = None]
    /\ \/ /\ file' = draft[p].writes
          /\ origin' = WrittenBy(draft[p].command)
       \/ UNCHANGED <<file, origin>>
    /\ UNCHANGED <<reader, budget>>

(* The user's editor, which validates nothing and may write compactly.      *)
Edits ==
    {None, [is |-> "junk"], [is |-> "huge"], [Document(Empty) EXCEPT !.secret = TRUE],
     [Document(Empty) EXCEPT !.version = 2],
     Document([routes |-> <<Default("Groq", TRUE)>>, order |-> <<>>]),
     Document([routes |-> <<Default("Groq", TRUE), Default("Groq", FALSE)>>, order |-> <<"Groq">>]),
     [Document([routes |-> <<Route("Groq", "work", TRUE, "https"), Default("Codex", TRUE)>>,
                order |-> <<"Codex", "Groq">>]) EXCEPT !.bytes = 1]}
Edit ==
    /\ budget.edits > 0 /\ budget' = [budget EXCEPT !.edits = @ - 1]
    /\ file' \in Edits /\ origin' = "edit"
    /\ UNCHANGED <<pc, draft, reader>>

----------------------------------------------------------------------------
(* The reloader. An observation is the content, or that it could not be     *)
(* read: also for a file that was replaced while it was read (observe).     *)

(* poll, of an observation that differs from the last one.                  *)
Observed(o) ==
    IF LoadConfig(o) = "ok" THEN [current |-> o.config, seen |-> o] ELSE [reader EXCEPT !.seen = o]

(* ConfigReloader::load.                                                    *)
ReaderLoad ==
    /\ reader = NoReader /\ LoadConfig(file) = "ok"
    /\ reader' = [current |-> file.config, seen |-> file]
    /\ UNCHANGED <<file, origin, pc, draft, budget>>

ReaderPoll ==
    /\ reader # NoReader
    /\ \E o \in {file, None} : o # reader.seen /\ reader' = Observed(o)
    /\ UNCHANGED <<file, origin, pc, draft, budget>>

----------------------------------------------------------------------------
Init ==
    /\ file \in {None, Document([routes |-> <<Default("Groq", TRUE)>>, order |-> <<"Groq">>])}
    /\ origin = "edit"
    /\ pc = [p \in Commands |-> "idle"] /\ draft = [p \in Commands |-> None]
    /\ reader = NoReader
    /\ budget = [commands |-> MaxCommands, edits |-> MaxEdits]

Next ==
    \/ \E p \in Commands : Write(p) \/ \E k \in Kinds : RunCommand(p, k)
    \/ Edit \/ ReaderLoad \/ ReaderPoll

Spec == Init /\ [][Next]_vars

----------------------------------------------------------------------------
(* What a command wrote is valid, and the daemon and the next command can   *)
(* load it, whatever the file held before and whatever commands overlapped, *)
(* up to two limits that the commands do not check: that of the bytes, and, *)
(* for enable and disable, that of the routes (set_provider_enabled).       *)
Unchecked(by) == IF by = "enable" THEN {"CollectionTooLarge"} ELSE {}
WrittenLoads ==
    origin # "edit" =>
        /\ file.is = "json" /\ ValidateConfig(file.config) \in {"ok"} \cup Unchecked(origin)
        /\ LoadConfig(file) = IF file.bytes > MaxConfigBytes THEN "ConfigTooLarge"
                              ELSE ValidateConfig(file.config)

(* The reloader always holds a valid configuration, and the file's once it  *)
(* has observed it: after any rejected or unreadable state in between       *)
(* (poll).                                                                  *)
ReaderHoldsGood ==
    reader # NoReader => /\ ValidateConfig(reader.current) = "ok"
                         /\ reader.seen = file /\ LoadConfig(file) = "ok" => reader.current = file.config

Routes == [id : Providers, instance : {"default", "work"}, enabled : BOOLEAN,
           endpoint : {"none", "https", "loopback"}, option : {"none", "cli"}]
Configs == [routes : Seq(Routes), order : Seq(Providers)]
Documents == [is : {"json"}, secret : BOOLEAN, version : Nat, config : Configs, bytes : Nat]
Files == {None, [is |-> "junk"], [is |-> "huge"]} \cup Documents
Drafts == [command : Kinds, read : Files, writes : Documents]

(* Every variable keeps its shape: whatever the path holds, a document has  *)
(* the fields of the schema, and a process between its read and its write   *)
(* has a draft of one.                                                      *)
TypeOK ==
    /\ file \in Files /\ origin \in {"edit", "enable", "command"}
    /\ pc \in [Commands -> {"idle", "write"}] /\ draft \in [Commands -> Drafts \cup {None}]
    /\ \A p \in Commands : pc[p] = "write" <=> draft[p] # None
    /\ reader = NoReader \/ reader \in [current : Configs, seen : Files]
    /\ budget \in [commands : Nat, edits : Nat]

Encodes(f, k) ==
    f = Document(f.config) /\ ValidateConfig(f.config) \in {"ok"} \cup Unchecked(WrittenBy(k))

(* What every step keeps, and the two above rest on: what a command is      *)
(* about to write encodes a configuration that is valid but for the limit   *)
(* that enable does not check; the reader's is the last it saw that loads.  *)
DraftsKept ==
    \A p \in Commands : pc[p] = "write" => Encodes(draft[p].writes, draft[p].command)
ReaderKept ==
    reader # NoReader =>
        /\ ValidateConfig(reader.current) = "ok"
        /\ LoadConfig(reader.seen) = "ok" => reader.current = reader.seen.config
ConfigKept == TypeOK /\ WrittenLoads /\ DraftsKept /\ ReaderKept

(* And what the one below rests on: a command writes what it made of what   *)
(* it read.                                                                 *)
DraftsAreChanges ==
    \A p \in Commands : pc[p] = "write" =>
        /\ draft[p].command \in Kinds /\ Sensible(draft[p].command)
        /\ draft[p].command.is # "init" =>
              /\ Readable(draft[p].read)
              /\ draft[p].writes = Document(Changed(Read(draft[p].read), draft[p].command))

(* What a command writes differs from what it read in no route of another   *)
(* provider, no other instance, and the place of no provider it did not     *)
(* name: also when another command wrote in between, whose change is then   *)
(* lost as a whole but never mixed into its own.                            *)
Named(k) == IF k.is = "reorder" THEN ToSet(k.ids) ELSE {k.id}
Others(c, named) == Without(c.routes, {r \in Routes : r.id \in named /\ r.instance = "default"})
OthersKept ==
    \A p \in Commands :
        LET k == draft[p].command
            read == Read(draft[p].read)
        IN  pc[p] = "write" /\ file' # file /\ pc'[p] = "idle" /\ k.is # "init" =>
                /\ Others(file'.config, Named(k)) = Others(read, Named(k))
                /\ Without(file'.config.order, Named(k)) = Without(read.order, Named(k))
=============================================================================
