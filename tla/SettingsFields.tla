---------------------------- MODULE SettingsFields ---------------------------
(***************************************************************************)
(* The fields of the settings form                                         *)
(* (web/components/settings/settings-fields.ts): what kind each one is,    *)
(* what may be typed in it, and how a text becomes what is stored and      *)
(* back.  Everything is a text: what the configuration holds is the text   *)
(* its value is shown as, so only the typing can be out of form.  Numbers  *)
(* are counted in tenths.                                                  *)
(***************************************************************************)
EXTENDS Integers, Sequences, FiniteSets, TLC

Plain == [lo |-> 0, hi |-> 0, notAbove |-> "", notBelow |-> "", allowEmpty |-> FALSE,
          noZero |-> FALSE, offWhenZero |-> FALSE, options |-> {}]
Field(key, kind, def) == [key |-> key, kind |-> kind, def |-> def] @@ Plain

Bool(key, def) == Field(key, "bool", def)
Num(key, lo, hi, def) == [Field(key, "num", def) EXCEPT !.lo = 10 * lo, !.hi = 10 * hi]
Tenths(key, lo, hi, def) == [Field(key, "num", def) EXCEPT !.lo = lo, !.hi = hi]
Hours(key, def) == Field(key, "hours", def)
Duration(key, def) == Field(key, "duration", def)
Choice(key, options, def) == [Field(key, "select", def) EXCEPT !.options = options]
Text(key) == Field(key, "text", "")
Lines(key) == Field(key, "list", "")
-----------------------------------------------------------------------------
ScheduleFields ==
    {Bool(k, "true") : k \in {"checkin_enabled", "travel_enabled", "activity_enabled",
                              "keepalive_enabled", "cat_enabled"}}
    \cup {Bool(k, "false") : k \in {"queue_enabled", "compensation_enabled"}}
    \cup {Hours(k, "9, 21") : k \in {"checkin_hours", "travel_hours"}}
    \cup {Hours(k, "10") : k \in {"activity_hours", "queue_hours"}}
    \cup {Hours("keepalive_hours", "22"), Hours("cat_hours", "1"),
          [Hours("compensation_hours", "") EXCEPT !.allowEmpty = TRUE],
          Num("activity_report_count", 1, 20, "5"),
          Num("random_delay_minutes", 0, 60, "0"),
          [Num("account_delay_min_seconds", 0, 600, "0")
              EXCEPT !.notAbove = "account_delay_max_seconds"],
          [Num("account_delay_max_seconds", 0, 600, "0")
              EXCEPT !.notBelow = "account_delay_min_seconds"]}

CooldownFields ==
    {Duration("soft_rate", "600s"), Duration("soft_rate_max", "2h"),
     [Duration("credit_exhausted", "") EXCEPT !.allowEmpty = TRUE, !.noZero = TRUE]}

PoolFields ==
    {Choice("pick_strategy", {"weighted", "credits_desc"}, "weighted"),
     Num("max_in_flight", 0, 32, "3"), Num("max_in_flight_global", 0, 64, "2"),
     Num("breaker_threshold", 1, 100, "3"),
     Duration("breaker_cooldown", "30m"), Duration("breaker_cooldown_max", "6h"),
     Tenths("idle_weight_per_hour", 1, 100, "0.5"), Tenths("idle_weight_max", 5, 1000, "5"),
     [Duration("expiring_soon", "168h") EXCEPT !.offWhenZero = TRUE],
     [Duration("cost_explore_interval", "30m") EXCEPT !.offWhenZero = TRUE]}

FeaturesFields == {Bool("sanitize_blacklist_fingerprints", "true")}

ChannelGuardFields ==
    {Bool("enabled", "true"), Choice("mode", {"block", "warn", "off"}, "block"),
     [Duration("block_ttl", "10m") EXCEPT !.noZero = TRUE],
     [Duration("template_ttl", "10m") EXCEPT !.noZero = TRUE],
     Bool("scan_messages", "true"), Text("capture_dir"),
     Num("capture_max_mb", 1, 4096, "256"), Lines("block_patterns")}

LoggingFields ==
    {Bool("request_archive", "false"), Num("request_retention_days", 1, 365, "7"),
     Num("request_archive_max_mb", 1, 4096, "200"), Bool("request_client_info", "false")}

SessionFields ==
    {Bool("enabled", "true"), Duration("ttl", "30m"), Duration("gc_interval", "5m")}

PromptFields ==
    {Choice("mode", {"passthrough", "append", "custom"}, "passthrough"), Text("file")}

UpstreamFields ==
    {Text(k) : k \in {"user_agent", "client_name", "client_version", "cli_version",
                      "device_token_file"}}
    \cup {Bool("passthrough_ip", "false")}

GlobalFields == {Bool("enabled", "true"), Text("chat_base"), Text("billing_base")}

(* A group, its fields, and where they are in the configuration. *)
FieldsOf ==
    [schedule |-> ScheduleFields, prompt |-> PromptFields, cooldown |-> CooldownFields,
     features |-> FeaturesFields, session |-> SessionFields, pool |-> PoolFields,
     upstream |-> UpstreamFields, global |-> GlobalFields, channelGuard |-> ChannelGuardFields,
     logging |-> LoggingFields]

PathOf(g) == CASE g = "session" -> <<"session_sticky">>
               [] g = "channelGuard" -> <<"features", "channel_check_guard">>
               [] OTHER -> <<g>>

CONSTANT
    Form        \* the groups and their fields: FieldsOf

(* One key may belong to several groups: a field is looked for in its own. *)
FieldOf(g, key) == CHOOSE f \in Form[g] : f.key = key
KeysOf(g) == {f.key : f \in Form[g]}
-----------------------------------------------------------------------------
(* The texts, by what they say.  A number that is not there says 0. *)
NumberOf == ("" :> 0) @@ ("-1" :> -10) @@ ("0" :> 0) @@ ("0.5" :> 5) @@ ("2" :> 20) @@ ("3" :> 30)
            @@ ("5" :> 50) @@ ("7" :> 70) @@ ("200" :> 2000) @@ ("256" :> 2560) @@ ("9999" :> 99990)
Shown0(text) == IF text = "" THEN "0" ELSE text

HoursOf == ("" :> {}) @@ ("1" :> {1}) @@ ("9" :> {9}) @@ ("10" :> {10}) @@ ("22" :> {22})
           @@ ("9, 21" :> {9, 21}) @@ ("21 9 9" :> {9, 21})
HoursToText(hours) == CHOOSE text \in DOMAIN HoursOf \ {"21 9 9"} : HoursOf[text] = hours

Padded == (" 10m " :> "10m") @@ (" path " :> "path") @@ ("line, empty lines" :> "line")
Trim(text) == IF text \in DOMAIN Padded THEN Padded[text] ELSE text

IsZeroDuration(text) == text \in {"0", "0m"}
Durations == {"0m", "10m", "30m", "600s", "2h", "6h", "168h", "5m"}

DurationOk(f, raw) ==
    LET text == Trim(raw)
    IN  \/ f.offWhenZero /\ text \in {"", "0"}
        \/ text = "" /\ f.allowEmpty
        \/ text \in Durations /\ ~(f.noZero /\ IsZeroDuration(text))

ParseHours(text, allowEmpty) ==
    text \in DOMAIN HoursOf /\ (HoursOf[text] = {} => allowEmpty)

(* What the form may not send, field by field. *)
FieldOk(f, raw) ==
    CASE f.kind = "num" -> raw \in DOMAIN NumberOf /\ f.lo <= NumberOf[raw] /\ NumberOf[raw] <= f.hi
      [] f.kind = "hours" -> ParseHours(raw, f.allowEmpty)
      [] f.kind = "duration" -> DurationOk(f, raw)
      [] f.kind = "select" -> raw \in f.options
      [] f.kind = "text" -> raw # "two lines"
      [] f.kind = "list" -> raw # "a long line"
      [] f.kind = "bool" -> TRUE

(* Two fields that bound an interval: a number against its other end. *)
PairOk(f, form) ==
    LET against == IF f.notAbove # "" THEN f.notAbove ELSE f.notBelow
        of(key) == NumberOf[form[key]]
    IN  against # "" /\ {form[f.key], form[against]} \subseteq DOMAIN NumberOf
        => IF f.notAbove # "" THEN of(f.key) <= of(against) ELSE of(f.key) >= of(against)

(* What is stored, as it will be shown. *)
ToWire(f, raw) == CASE f.kind = "num" -> Shown0(raw)
                    [] f.kind = "hours" -> HoursToText(HoursOf[raw])
                    [] OTHER -> Trim(raw)
-----------------------------------------------------------------------------
DefaultValues(g) == [k \in KeysOf(g) |-> FieldOf(g, k).def]
EmptyForm(groups) == [g \in groups |-> DefaultValues(g)]

(* What is missing, or is not of the field's kind, shows as its default. *)
PickValues(g, stored) ==
    [k \in KeysOf(g) |->
        LET f == FieldOf(g, k)
        IN  IF k \in DOMAIN stored /\ (f.kind \in {"duration", "select"} => FieldOk(f, stored[k]))
            THEN stored[k] ELSE f.def]

(* A part of the configuration is named by its path; an absent one is empty. *)
ConfigAtPath(root, path) == IF path \in DOMAIN root THEN root[path] ELSE <<>>
NestPatch(path, patch) == path :> patch

(* The parts that are read once, when the gateway starts. *)
RestartSections == {<<"prompt">>, <<"upstream">>, <<"global">>, <<"session_sticky">>}
RestartFields == {<<"schedule", k>> : k \in {"random_delay_minutes", "account_delay_min_seconds",
                                             "account_delay_max_seconds"}}
(* A name the server lists is an entry, or lies under one. *)
HitsRestartEntry(name, entry) == Len(entry) <= Len(name) /\ SubSeq(name, 1, Len(entry)) = entry
NeedsRestartBySection(saved) ==
    \E name \in saved : \E entry \in RestartSections \cup RestartFields : HitsRestartEntry(name, entry)
=============================================================================
