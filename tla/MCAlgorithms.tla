---------------------------- MODULE MCAlgorithms ----------------------------
(* The algorithms on bounded sets of cases. *)
EXTENDS Algorithms

(***************************************************************************)
(* Words that differ from one register to the next and, in the input       *)
(* registers, one that makes a float a NaN.                                 *)
(***************************************************************************)
MCContents(function, address) ==
    IF function = FunctionCode.input /\ address = 3 THEN 32704
    ELSE (263 * address + 7 * function + 39000) % 65536

(***************************************************************************)
(* Sensors: both register types, one and two registers, both word orders,  *)
(* neighbours, gaps and overlaps, the last registers there are, and a span  *)
(* of 125 registers, the most one request may ask for.                      *)
(***************************************************************************)
SensorKinds ==
    {[register_type |-> "holding", data_type |-> "int16", word_order |-> "big"],
     [register_type |-> "holding", data_type |-> "int32", word_order |-> "little"],
     [register_type |-> "input", data_type |-> "float32", word_order |-> "big"]}

Addresses == {0, 1, 3, 123, 65534}

Sensors == {[register_type |-> k.register_type, data_type |-> k.data_type,
             word_order |-> k.word_order, address |-> a] : k \in SensorKinds, a \in Addresses}

MCLimits == {[quantity |-> 4, gap |-> 1], [quantity |-> 125, gap |-> 122]}

MCSensorLists == UNION {[1..n -> Sensors] : n \in 1..3}

(***************************************************************************)
(* Segments of up to three batches of one or two samples, cut off at every *)
(* unit and in the middle of every unit.                                    *)
(***************************************************************************)
MCBatchSizes == UNION {[1..n -> 1..2] : n \in 1..3}
MCLengths == {4 * k : k \in 0..58}
MCCounts == 0..3

(***************************************************************************)
(* Configurations: an empty document, and documents and environments in    *)
(* which the fields of one part are present, below, at and above their      *)
(* bounds, or of another type.                                              *)
(***************************************************************************)
\* A field that may be absent or one of these numbers, and one of another type too.
Field(numbers) == {Absent} \union {Num(n) : n \in numbers}
AnyField(numbers) == Field(numbers) \union {Word("text")}

Inputs(documents, environments) == [documents |-> documents, environments |-> environments]

ServerCases ==
    Inputs({[EmptyDocument EXCEPT !.http_port = h, !.worker_threads = w, !.retention_hours = r] :
                h \in AnyField({0, 8081, 65535, 65536}), w \in AnyField({0, 256, 257}),
                r \in AnyField({0, 87600, 87601})},
           {[EmptyEnvironment EXCEPT !.http_port = h, !.ws_port = s, !.worker_threads = w,
                                     !.retention_hours = r] :
                h \in AnyField({0, 8081, 65536}), s \in Field({8080, 65535}),
                w \in AnyField({-1, 0, 300}), r \in Field({-1, 0, 100000})})

ExportCases ==
    Inputs({[EmptyDocument EXCEPT !.export = [NoExport EXCEPT
                !.queue_capacity = q, !.batch_size = b, !.segment_max_mb = s, !.max_total_mb = t]] :
                q \in AnyField({15, 16, 24, 2^24}), b \in Field({0, 1, 16, 17, 2^20}),
                s \in Field({0, 1, 3, 65536}), t \in Field({0, 1, 2, 5, 2^24})},
           {[EmptyEnvironment EXCEPT !.export_max_mb = t, !.export_segment_mb = s] :
                t \in AnyField({0, 1, 6}), s \in AnyField({0, 3})})

Texts(words) == {Absent, Num(1)} \union {Word(w) : w \in words}

WordCases ==
    Inputs({[EmptyDocument EXCEPT !.log_level = l, !.language = n, !.min_severity = m,
                                  !.export.directory = d] :
                l \in Texts({"warn", "loud"}), n \in Texts({"en", "xx"}),
                m \in Texts({"critical", "xx"}), d \in Texts({""})},
           {[EmptyEnvironment EXCEPT !.log_level = l, !.language = n, !.export_enabled = e] :
                l \in {Absent, Word("loud")}, n \in {Absent, Word("xx")},
                e \in AnyField({1})})

OneDevice ==
    [id |-> Word("d1"), host |-> Word("host"), port |-> Absent, unit_id |-> Absent,
     poll_interval_ms |-> Absent, timeout_ms |-> Absent, sensors |-> Absent]

OneSensor == [Shorthand("s1") EXCEPT !.id = Word("s1")]

WithSensor(s) == [EmptyDocument EXCEPT
                      !.devices = <<[OneDevice EXCEPT !.sensors = List(<<s>>)]>>]

DetectorCases ==
    {Plain("bogus")}
    \union {[Plain("zscore") EXCEPT !.window = w] : w \in AnyField({1, 2, 100001})}
    \union {[Plain("ewma") EXCEPT !.alpha = a, !.threshold = t] :
                a \in AnyField({0, 1, 10, 11}), t \in Field({0, 1})}
    \union {[Plain("cusum") EXCEPT !.mean = Num(0), !.stddev = d, !.slack = k] :
                d \in AnyField({0, 1}), k \in Field({-1, 0})}

SensorCases ==
    Inputs({WithSensor([OneSensor EXCEPT !.address = a, !.data_type = t, !.low = l, !.high = h]) :
                a \in AnyField({-1, 65534, 65535, 65536}),
                t \in {Absent, Word("uint16"), Word("float32"), Word("text"), Num(1)},
                l \in AnyField({1, 2}), h \in Field({1, 2})},
           {EmptyEnvironment})

DetectionCases ==
    Inputs({WithSensor([OneSensor EXCEPT
                !.detection = [detectors |-> d, votes_required |-> v, cooldown_seconds |-> c]]) :
                d \in {Absent, Num(1), List(<<>>)} \union {List(<<x>>) : x \in DetectorCases},
                v \in AnyField({0, 1, 2, 3}), c \in Field({-1, 0, 86401})},
           {EmptyEnvironment})

DeviceCases ==
    Inputs({[EmptyDocument EXCEPT !.devices =
                <<[OneDevice EXCEPT !.sensors = s],
                  [OneDevice EXCEPT !.id = Word(i), !.host = h, !.poll_interval_ms = p,
                                    !.timeout_ms = t]>>] :
                s \in {Absent, List(<<>>), List(<<OneSensor>>), List(<<OneSensor, OneSensor>>),
                       List(<<[OneSensor EXCEPT !.id = Word("d2")]>>)},
                i \in {"d1", "d2", ""}, h \in {Absent, Word("host"), Word("${UNSET}")},
                p \in Field({49, 50}), t \in Field({99, 60000})},
           {EmptyEnvironment})

ChannelCases ==
    Inputs({[EmptyDocument EXCEPT !.channels =
                <<[type |-> Word(t), url |-> u, bot_token |-> b, chat_id |-> c]>>] :
                t \in {"telegram", "slack", "webhook", "pager"},
                u \in {Absent, Word("url"), Word("${UNSET}"), Num(1)},
                b \in {Absent, Word("token"), Word("${UNSET}")},
                c \in {Absent, Word("chat")}},
           {[EmptyEnvironment EXCEPT !.bot_token = b, !.chat_id = c, !.slack_url = u] :
                b \in {Absent, Word("token")}, c \in {Absent, Word("chat")},
                u \in {Absent, Word("url")}})

MCConfigurations ==
    {ServerCases, ExportCases, WordCases, SensorCases, DetectionCases, DeviceCases, ChannelCases}

=============================================================================
