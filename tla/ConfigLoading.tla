--------------------------- MODULE ConfigLoading ----------------------------
(***************************************************************************)
(* How a configuration comes about (config.cpp): the fields of the JSON    *)
(* document, each checked as it is read, the environment variables laid     *)
(* over them, and the validation of the whole.                              *)
(*                                                                         *)
(* A field of a document, and a variable of the environment, is Absent, an  *)
(* integer, a word or a list; wherever the code throws, the configuration   *)
(* is refused, whatever the field, so each part says whether it is refused  *)
(* and, apart from that, what it yields.  Defaults are those of config.hpp.  *)
(* Numbers that are not integers are counted in tenths.  Left out are the   *)
(* texts that are only passed on (names, units, paths, headers, the token)  *)
(* and the fields get_enum and get_bool read like those that are here:      *)
(* register_type, word_order, persistence_enabled.                          *)
(***************************************************************************)
EXTENDS Integers, FiniteSets, SequencesExt, FiniteSetsExt, ConfigTypes, Subsequence

Absent == [is |-> "absent"]
Num(n) == [is |-> "int", int |-> n]
Word(w) == [is |-> "word", word |-> w]
List(l) == [is |-> "list", list |-> l]

\* The empty text.
NoText == ""

IsWord(v) == v.is = "word"

-----------------------------------------------------------------------------
\* get_int: refused, and what it yields when it is not.
BadInt(v, low, high) == v # Absent /\ (v.is # "int" \/ v.int \notin low..high)
GetInt(v, fallback) == IF v = Absent THEN fallback ELSE v.int

\* get_string and, for a choice of words, get_enum.
BadString(v) == v # Absent /\ ~IsWord(v)
GetString(v, fallback) == IF v = Absent THEN fallback ELSE v.word
BadEnum(v, options) == BadString(v) \/ (IsWord(v) /\ v.word \notin options \union {NoText})
GetEnum(v, fallback) == IF v = Absent \/ v.word = NoText THEN fallback ELSE v.word

\* get_number and get_optional_number, in tenths.
BadNumber(v) == v # Absent /\ v.is # "int"

\* get_bool, over 0 and 1.
BadBool(v) == BadInt(v, 0, 1)

\* Stand-ins for the largest values of the fields wider than 16 bits, which are
\* beyond the integers TLC counts with.
U32 == 2147483646
U64 == 2147483647

(***************************************************************************)
(* parse_or: a variable that is not a number, or is too large for the type *)
(* of the field, leaves the field as it is.  No range is checked, and       *)
(* std::stoull takes -1 for the largest number there is.                    *)
(***************************************************************************)
Unsigned(n) == IF n < 0 THEN U64 ELSE n

ParseOr(v, fallback, largest) ==
    IF v.is = "int" /\ Unsigned(v.int) <= largest THEN Unsigned(v.int) ELSE fallback

\* expand_env: ${NAME} for a variable that is not set becomes nothing.
ExpandEnv(word) == IF word = "${UNSET}" THEN NoText ELSE word

\* is_valid_id: no text and ".." stand for the ids it does not accept.
IsValidId(id) == id \notin {NoText, "..", "not an id"}

-----------------------------------------------------------------------------
\* parse_detector: each type has its own numbers, with their own ranges.
Threshold(d) == GetInt(d.threshold, IF d.type = "cusum" THEN 50 ELSE 30)

BadDetector(d) ==
    \/ d.type \notin {"zscore", "ewma", "cusum"}
    \/ d.type = "zscore" /\ BadInt(d.window, 2, 100000)
    \/ d.type = "ewma" /\ (BadNumber(d.alpha) \/ GetInt(d.alpha, 2) \notin 1..10)
    \/ d.type = "cusum" /\ \/ d.mean = Absent \/ d.stddev = Absent
                           \/ BadNumber(d.mean) \/ BadNumber(d.stddev) \/ BadNumber(d.slack)
                           \/ d.stddev.int <= 0
                           \/ GetInt(d.slack, 5) < 0
    \/ BadNumber(d.threshold)
    \/ Threshold(d) <= 0

Detector(d) ==
    [type      |-> d.type,
     window    |-> IF d.type = "zscore" THEN GetInt(d.window, 60) ELSE 60,
     alpha     |-> IF d.type = "ewma" THEN GetInt(d.alpha, 2) ELSE 2,
     stddev    |-> IF d.type = "cusum" THEN d.stddev.int ELSE 10,
     slack     |-> IF d.type = "cusum" THEN GetInt(d.slack, 5) ELSE 5,
     threshold |-> Threshold(d)]

\* A detector with nothing but its type.
Plain(type) ==
    [type |-> type, window |-> Absent, alpha |-> Absent, mean |-> Absent,
     stddev |-> Absent, slack |-> Absent, threshold |-> Absent]

\* parse_detection; Absent stands for default_detection.
Detectors(d) ==
    IF d = Absent \/ d.detectors = Absent
    THEN <<Plain("zscore"), Plain("ewma")>> ELSE d.detectors.list

MaxVotes(detectors) == Max({1, Len(detectors)})

BadDetection(d) ==
    /\ d # Absent
    /\ \/ d.detectors # Absent /\ d.detectors.is # "list"
       \/ \E i \in DOMAIN Detectors(d) : BadDetector(Detectors(d)[i])
       \/ BadInt(d.cooldown_seconds, 0, 86400)
       \/ BadInt(d.votes_required, 1, MaxVotes(Detectors(d)))

Detection(d) ==
    [detectors        |-> [i \in DOMAIN Detectors(d) |-> Detector(Detectors(d)[i])],
     votes_required   |-> IF d = Absent THEN 1 ELSE GetInt(d.votes_required, 1),
     cooldown_seconds |-> IF d = Absent THEN 30 ELSE GetInt(d.cooldown_seconds, 30)]

\* parse_sensor.
BadSensor(s) ==
    \/ BadString(s.id) \/ ~IsValidId(GetString(s.id, NoText))
    \/ BadEnum(s.data_type, DataTypes)
    \/ BadInt(s.address, 0, 65535)
    \/ GetInt(s.address, 0) + RegisterCount(GetEnum(s.data_type, "uint16")) > 65536
    \/ BadNumber(s.scale) \/ s.scale = Num(0)
    \/ BadNumber(s.low) \/ BadNumber(s.high)
    \/ s.low # Absent /\ s.high # Absent /\ s.low.int >= s.high.int
    \/ BadDetection(s.detection)

Sensor(s) ==
    [id        |-> GetString(s.id, NoText),
     data_type |-> GetEnum(s.data_type, "uint16"),
     address   |-> GetInt(s.address, 0),
     low       |-> s.low,
     high      |-> s.high,
     detection |-> Detection(s.detection)]

\* A device without a list of sensors is one value in register 0.
Shorthand(id) ==
    [id |-> Word(id), data_type |-> Absent, address |-> Absent, scale |-> Absent,
     low |-> Absent, high |-> Absent, detection |-> Absent]

\* parse_device.
BadDevice(d) ==
    \/ BadString(d.id) \/ ~IsValidId(GetString(d.id, NoText))
    \/ BadString(d.host) \/ ExpandEnv(GetString(d.host, NoText)) = NoText
    \/ BadInt(d.port, 1, 65535)
    \/ BadInt(d.unit_id, 0, 255)
    \/ BadInt(d.poll_interval_ms, 50, 86400000)
    \/ BadInt(d.timeout_ms, 100, 60000)
    \/ d.sensors # Absent
         /\ \/ d.sensors.is # "list" \/ d.sensors.list = <<>>
            \/ \E i \in DOMAIN d.sensors.list : BadSensor(d.sensors.list[i])

Device(d) ==
    [id               |-> GetString(d.id, NoText),
     poll_interval_ms |-> GetInt(d.poll_interval_ms, 1000),
     timeout_ms       |-> GetInt(d.timeout_ms, 3000),
     sensors          |-> LET list == IF d.sensors = Absent
                                      THEN <<Shorthand(d.id.word)>> ELSE d.sensors.list
                          IN  [i \in DOMAIN list |-> Sensor(list[i])]]

-----------------------------------------------------------------------------
\* parse_channel, and channel_is_complete.
BadChannel(c) == c.type \notin {Word("telegram"), Word("slack"), Word("webhook")}
                     \/ BadString(c.url) \/ BadString(c.bot_token) \/ BadString(c.chat_id)

Channel(c) ==
    [type      |-> c.type.word,
     url       |-> ExpandEnv(GetString(c.url, NoText)),
     bot_token |-> ExpandEnv(GetString(c.bot_token, NoText)),
     chat_id   |-> ExpandEnv(GetString(c.chat_id, NoText))]

IsComplete(channel) ==
    IF channel.type = "telegram"
    THEN channel.bot_token # NoText /\ channel.chat_id # NoText
    ELSE channel.url # NoText

\* parse_export.
BadExport(e) ==
    \/ BadBool(e.enabled)
    \/ BadString(e.directory)
    \/ BadInt(e.queue_capacity, 16, 2^24)
    \/ BadInt(e.batch_size, 1, 2^20)
    \/ BadInt(e.flush_interval_ms, 10, 3600000)
    \/ BadInt(e.segment_max_mb, 1, 65536)
    \/ BadInt(e.max_total_mb, 0, 2^24)

Export(e) ==
    [enabled        |-> GetInt(e.enabled, 0),
     directory      |-> GetString(e.directory, "export"),
     queue_capacity |-> GetInt(e.queue_capacity, 65536),
     batch_size     |-> GetInt(e.batch_size, 1000),
     flush_interval_ms |-> GetInt(e.flush_interval_ms, 1000),
     segment_max_mb |-> GetInt(e.segment_max_mb, 64),
     max_total_mb   |-> GetInt(e.max_total_mb, 1024)]

-----------------------------------------------------------------------------
\* What parse refuses before it looks at the environment.
BadDocument(j) ==
    \/ BadString(j.log_level)
    \/ BadInt(j.http_port, 1, 65535)
    \/ BadInt(j.ws_port, 1, 65535)
    \/ BadInt(j.worker_threads, 1, 256)
    \/ BadInt(j.retention_hours, 1, 87600)
    \/ \E i \in DOMAIN j.devices : BadDevice(j.devices[i])
    \/ BadString(j.language)
    \/ BadEnum(j.min_severity, {"warning", "critical"})
    \/ \E i \in DOMAIN j.channels : BadChannel(j.channels[i])
    \/ BadExport(j.export)

Parsed(j) ==
    [log_level       |-> GetString(j.log_level, "info"),
     http_port       |-> GetInt(j.http_port, 8080),
     ws_port         |-> GetInt(j.ws_port, 8081),
     worker_threads  |-> GetInt(j.worker_threads, 4),
     retention_hours |-> GetInt(j.retention_hours, 168),
     devices         |-> [i \in DOMAIN j.devices |-> Device(j.devices[i])],
     language        |-> GetString(j.language, "ru"),
     min_severity    |-> GetEnum(j.min_severity, "warning"),
     channels        |-> [i \in DOMAIN j.channels |-> Channel(j.channels[i])],
     export          |-> Export(j.export)]

\* The channel the variables of one service add; an empty variable is unset.
Shortcut(type, variable, chat) ==
    IF variable = Absent THEN <<>>
    ELSE <<[type      |-> type,
            url       |-> IF type = "telegram" THEN NoText ELSE variable.word,
            bot_token |-> IF type = "telegram" THEN variable.word ELSE NoText,
            chat_id   |-> GetString(chat, NoText)]>>

\* apply_env_overrides, the part about the export and the whole.
ExportOverrides(export, env) ==
    [export EXCEPT
        !.directory      = GetString(env.export_dir, @),
        !.enabled        = IF env.export_enabled = Absent THEN @
                           ELSE IF env.export_enabled = Num(1) THEN 1 ELSE 0,
        !.max_total_mb   = ParseOr(env.export_max_mb, @, U32),
        !.segment_max_mb = ParseOr(env.export_segment_mb, @, U32)]

ApplyEnvOverrides(cfg, env) ==
    [cfg EXCEPT
        !.http_port       = ParseOr(env.http_port, @, U16),
        !.ws_port         = ParseOr(env.ws_port, @, U16),
        !.log_level       = GetString(env.log_level, @),
        !.worker_threads  = ParseOr(env.worker_threads, @, U64),
        !.retention_hours = ParseOr(env.retention_hours, @, U32),
        !.language        = GetString(env.language, @),
        !.channels        = @ \o Shortcut("telegram", env.bot_token, env.chat_id)
                              \o Shortcut("slack", env.slack_url, Absent)
                              \o Shortcut("webhook", env.webhook_url, Absent),
        !.export          = ExportOverrides(@, env)]

\* Two devices, or two sensors of any devices, with one id.
DuplicateIds(devices) ==
    LET sensors == FlattenSeq([i \in DOMAIN devices |-> devices[i].sensors])
        repeats(s) == Cardinality({s[i].id : i \in DOMAIN s}) < Len(s)
    IN  repeats(devices) \/ repeats(sensors)

\* The test for a power of two: n and n - 1 have no bit in common.
HasBit(n, k) == (n \div 2^k) % 2 = 1
IsPowerOfTwo(n) == \A k \in 0..30 : ~(HasBit(n, k) /\ HasBit(n - 1, k))

TotalTooSmall(export) ==
    export.max_total_mb # 0 /\ export.max_total_mb < 2 * export.segment_max_mb

\* validate: what it refuses, and the channels it leaves out.
Invalid(cfg) ==
    \/ cfg.log_level \notin {"trace", "debug", "info", "warn", "error", "critical"}
    \/ cfg.http_port = 0 \/ cfg.ws_port = 0
    \/ cfg.http_port = cfg.ws_port
    \/ cfg.worker_threads \notin 1..256
    \/ cfg.retention_hours = 0
    \/ DuplicateIds(cfg.devices)
    \/ cfg.language \notin {"ru", "en", "zh", "hi", "es", "fr", "de", "it"}
    \/ ~IsPowerOfTwo(cfg.export.queue_capacity)
    \/ cfg.export.batch_size > cfg.export.queue_capacity
    \/ cfg.export.enabled = 1 /\ cfg.export.directory = NoText
    \/ cfg.export.segment_max_mb = 0
    \/ TotalTooSmall(cfg.export)

Validated(cfg) == [cfg EXCEPT !.channels = Only(@, {c \in ToSet(@) : IsComplete(c)})]

\* parse: the configuration, or that there is none.
Refused == [accepted |-> FALSE]

\* As a bug would have it: the environment laid over what was validated.
ParseOverridesLast(document, env) ==
    IF BadDocument(document) \/ Invalid(Parsed(document)) THEN Refused
    ELSE [accepted |-> TRUE, config |-> ApplyEnvOverrides(Validated(Parsed(document)), env)]

Parse(document, env) ==
    LET cfg == ApplyEnvOverrides(Parsed(document), env)
    IN  IF BadDocument(document) \/ Invalid(cfg) THEN Refused
        ELSE [accepted |-> TRUE, config |-> Validated(cfg)]

=============================================================================
