----------------------------- MODULE Algorithms -----------------------------
(***************************************************************************)
(* The algorithms without state of their own: reading a device's sensors,  *)
(* reading a damaged export segment and loading a configuration.  A         *)
(* behaviour is one step: a case is chosen and the algorithm run on it.     *)
(***************************************************************************)
EXTENDS SensorReading, SegmentReader, ConfigLoading

CONSTANTS SensorLists,    \* devices, each a list of sensors
          Limits,         \* the quantity and the gap plan_reads allows
          BatchSizes,     \* segments, each a list of the sizes of its batches
          Lengths,        \* where a file may be cut off
          Counts,         \* what a damaged count may read as
          Configurations  \* sets of documents, each with a set of environments

VARIABLES case,     \* the algorithm and its input
          result    \* what it returned

-----------------------------------------------------------------------------
(***************************************************************************)
(* Devices: any sensors the configuration accepts, requests of at most 125 *)
(* registers, as the protocol has it, and any kind of answer.               *)
(***************************************************************************)
SensorSettings == [register_type : RegisterTypes, data_type : DataTypes,
                   word_order : WordOrders, address : Nat]

ASSUME SensorAssumption ==
    /\ \A sensors \in SensorLists :
           /\ sensors \in Seq(SensorSettings) /\ sensors # <<>>
           /\ \A i \in DOMAIN sensors : End(sensors[i]) <= 65536
    /\ Limits \subseteq [quantity : 2..125, gap : Nat]

\* The device is polled: plan_reads, a request for every block, the values.
PollDevice ==
    \E sensors \in SensorLists, limits \in Limits, kind \in AnswerKinds :
    \E plan \in Plans(sensors, limits.quantity, limits.gap) :
        /\ case' = [run |-> "poll", sensors |-> sensors, limits |-> limits, kind |-> kind]
        /\ result' = [plan |-> plan, values |-> ReadCycle(sensors, plan, kind)]

(***************************************************************************)
(* Segments of batches of so many samples, one unit of them overwritten    *)
(* (or none), then cut anywhere.                                            *)
(***************************************************************************)
Payloads(sizes) ==
    [b \in DOMAIN sizes |-> [k \in 1..SampleUnits * sizes[b] |-> Data(10 * b + k)]]

TableUnits == 1
FirstBatch == HeaderUnits + TableUnits

Written(sizes) ==
    [u \in 1..FirstBatch |-> Data(0)]
        \o FlattenSeq([b \in DOMAIN sizes |-> Serialize(Payloads(sizes)[b])])

\* What may stand in the place of a unit.
Damaged(unit) ==
    ({Data(0)} \union
     (IF unit.magic THEN {Start(1)} ELSE {}) \union
     (IF unit.count # Huge
      THEN {CountAndSum(c, unit.sum) : c \in Counts} \union {CountAndSum(unit.count, <<>>)}
      ELSE {}))
    \ {unit}

IntactHeader == [magic |-> TRUE, version |-> TRUE, tableUnits |-> TableUnits, tableIntact |-> TRUE]

\* A segment header, after its magic, its version or its tag table was damaged.
Headers ==
    {IntactHeader, [IntactHeader EXCEPT !.magic = FALSE], [IntactHeader EXCEPT !.version = FALSE],
     [IntactHeader EXCEPT !.tableUnits = Huge], [IntactHeader EXCEPT !.tableIntact = FALSE]}

ASSUME SegmentAssumption ==
    /\ Huge \in Nat /\ Lengths \subseteq Nat /\ Counts \subseteq Nat
    /\ \A sizes \in BatchSizes : sizes \in Seq(Nat \ {0}) /\ Len(Written(sizes)) < Huge

\* The file is read: what read_segment returns and hands to its visitor.
\* Damage is to the segment header, to one unit after the tag table, or none.
ReadDamaged ==
    \E sizes \in BatchSizes :
    \E bytes \in Lengths, header \in Headers, at \in {0} \union FirstBatch + 1..Len(Written(sizes)) :
    \E unit \in IF at = 0 THEN {Data(0)} ELSE Damaged(Written(sizes)[at]) :
        LET file == [header |-> header, bytes |-> bytes,
                     units |-> IF at = 0 THEN Written(sizes)
                                         ELSE [Written(sizes) EXCEPT ![at] = unit]]
        IN  /\ header # IntactHeader => at = 0
            /\ bytes <= UnitBytes * Len(Written(sizes))
            /\ case' = [run |-> "segment", sizes |-> sizes, at |-> at, file |-> file]
            /\ result' = ReadSegment(file)

(***************************************************************************)
(* Configurations: documents and environments whose fields are absent,     *)
(* numbers or words, in any combination.                                    *)
(***************************************************************************)
Numbers == [is : {"int"}, int : Int]
Words == [is : {"word"}, word : STRING]
Fields == {Absent} \union Numbers \union Words
Lists(elements) == {Absent} \union Numbers \union [is : {"list"}, list : Seq(elements)]

DetectorDocuments ==
    [type : STRING, window : Fields, alpha : Fields, mean : Fields,
     stddev : Fields, slack : Fields, threshold : Fields]

DetectionDocuments ==
    {Absent} \union [detectors : Lists(DetectorDocuments), votes_required : Fields,
                     cooldown_seconds : Fields]

SensorDocuments ==
    [id : Fields, data_type : Fields, address : Fields, scale : Fields,
     low : Fields, high : Fields, detection : DetectionDocuments]

DeviceDocuments ==
    [id : Fields, host : Fields, port : Fields, unit_id : Fields,
     poll_interval_ms : Fields, timeout_ms : Fields, sensors : Lists(SensorDocuments)]

ChannelDocuments == [type : Fields, url : Fields, bot_token : Fields, chat_id : Fields]

ExportDocuments ==
    [enabled : Fields, directory : Fields, queue_capacity : Fields, batch_size : Fields,
     flush_interval_ms : Fields, segment_max_mb : Fields, max_total_mb : Fields]

Documents ==
    [log_level : Fields, http_port : Fields, ws_port : Fields, worker_threads : Fields,
     retention_hours : Fields, devices : Seq(DeviceDocuments), language : Fields,
     min_severity : Fields, channels : Seq(ChannelDocuments), export : ExportDocuments]

\* A variable is a text, which may be that of a number.
Environments ==
    [http_port : Fields, ws_port : Fields, worker_threads : Fields, retention_hours : Fields,
     export_max_mb : Fields, export_segment_mb : Fields, export_enabled : Fields,
     log_level : {Absent} \union Words, language : {Absent} \union Words,
     bot_token : {Absent} \union Words, chat_id : {Absent} \union Words,
     slack_url : {Absent} \union Words, webhook_url : {Absent} \union Words,
     export_dir : {Absent} \union Words]

ASSUME ConfigAssumption ==
    \A inputs \in Configurations :
        inputs.documents \subseteq Documents /\ inputs.environments \subseteq Environments

\* The program loads its configuration.
LoadConfig ==
    \E inputs \in Configurations :
    \E document \in inputs.documents, env \in inputs.environments :
        /\ case' = [run |-> "config", document |-> document, env |-> env]
        /\ result' = Parse(document, env)

-----------------------------------------------------------------------------
Init == case = [run |-> "none"] /\ result = [none |-> TRUE]

Next == case.run = "none" /\ (PollDevice \/ ReadDamaged \/ LoadConfig)

Spec == Init /\ [][Next]_<<case, result>>

-----------------------------------------------------------------------------
(***************************************************************************)
(* Sensors and their blocks, defined apart from the code.                  *)
(***************************************************************************)
Covered(sensor) == First(sensor)..End(sensor) - 1

\* The sensors of one type that one request of at most so many registers may
\* read without passing over more than so many registers in a row.
OneRequest(sensors, group, limits) ==
    LET covered == UNION {Covered(sensors[i]) : i \in group}
        span    == Min(covered)..Max(covered)
    IN  /\ \A i, j \in group : sensors[i].register_type = sensors[j].register_type
        /\ Cardinality(span) <= limits.quantity
        /\ \A a \in covered : a = Max(covered) \/ a + limits.gap + 1 >= Min({b \in covered : b > a})

\* They can be read by so many requests.
Possible(sensors, limits, n) ==
    \E part \in [DOMAIN sensors -> 1..n] :
        \A p \in 1..n :
            LET group == {i \in DOMAIN sensors : part[i] = p}
            IN  group = {} \/ OneRequest(sensors, group, limits)

FewestRequests(sensors, limits) == Min({n \in 1..Len(sensors) : Possible(sensors, limits, n)})

\* Where a plan has a sensor: in which block and where in the block.
PlacesOf(plan, i) ==
    UNION {{<<b, k>> : k \in {k \in DOMAIN plan[b].indices : plan[b].indices[k] = i}} :
               b \in DOMAIN plan}

\* What the device holds for a sensor.
ValueOf(sensor) ==
    LET word(k) == Contents(FunctionCode[sensor.register_type], sensor.address + k)
        high == IF sensor.word_order = "little" THEN word(1) ELSE word(0)
        low  == IF sensor.word_order = "little" THEN word(0) ELSE word(1)
        signed(w) == IF sensor.data_type \in {"int16", "int32"} /\ w \div 32768 = 1
                     THEN w - 65536 ELSE w
    IN  IF sensor.data_type = "float32" /\ (high \div 128) % 256 = 255 THEN NoValue
        ELSE IF RegisterCount(sensor.data_type) = 1 THEN <<signed(word(0))>>
        ELSE <<signed(high), low>>

(***************************************************************************)
(* A cycle reads every sensor and reads it right: the plan has each sensor *)
(* in one block, no block is longer than allowed, there are as few blocks   *)
(* as possible ("as few read requests as possible", register_decoder.hpp),  *)
(* and each sensor ends up with exactly what its own registers hold, in its *)
(* own type and word order, or without a value where that is not a number.  *)
(* An answer that is short, an exception or malformed gives no values.      *)
(***************************************************************************)
EverySensorIsRead ==
    case.run = "poll" =>
        LET sensors == case.sensors
            plan    == result.plan
        IN  /\ \A i \in DOMAIN sensors : Cardinality(PlacesOf(plan, i)) = 1
            /\ \A b \in DOMAIN plan : plan[b].quantity \in 1..case.limits.quantity
            /\ Len(plan) = FewestRequests(sensors, case.limits)
            /\ result.values =
                   IF case.kind \in {"whole", "long"} /\
                      (case.kind = "long" => \A b \in DOMAIN plan : plan[b].quantity < 125)
                   THEN [i \in DOMAIN sensors |-> ValueOf(sensors[i])]
                   ELSE Failed

-----------------------------------------------------------------------------
(***************************************************************************)
(* What a reader of a damaged segment may count on.                        *)
(***************************************************************************)
\* The units a batch takes are those after StartOf up to EndOf.
EndOf(sizes, b) ==
    LET ends[n \in 0..Len(sizes)] ==
            IF n = 0 THEN FirstBatch ELSE ends[n - 1] + RequiredUnits(sizes[n])
    IN  ends[b]
StartOf(sizes, b) == EndOf(sizes, b - 1)

DamagedBatches == {b \in DOMAIN case.sizes :
                       case.at \in StartOf(case.sizes, b) + 1..EndOf(case.sizes, b)}

\* The batches that are in the file, whole and as they were written.
Intact == {b \in DOMAIN case.sizes \ DamagedBatches :
               UnitBytes * EndOf(case.sizes, b) <= case.file.bytes}

\* The damage is to the count, which alone tells where the next batch is.
LengthIsLost == \E b \in DamagedBatches :
                    /\ case.at = StartOf(case.sizes, b) + 2
                    /\ case.file.units[case.at].count # case.sizes[b]

(***************************************************************************)
(* Damage stays where it is.  Whatever unit of a segment is overwritten,   *)
(* and wherever the file is cut off, read_segment delivers no batch that is *)
(* not exactly what was written, none twice and none out of order; it       *)
(* delivers every batch that is whole, those after the damage included; and *)
(* what it does not deliver it reports.  Only a damaged count, which is not *)
(* covered by a checksum, may take the batches after it along.              *)
(***************************************************************************)
DamageIsContained ==
    case.run = "segment" =>
        LET readable == case.file.header = IntactHeader /\ case.file.bytes >= UnitBytes * FirstBatch
            read     == result.result
        IN  IF ~readable
            THEN result.error # NoError /\ read = Nothing
            ELSE /\ result.error = NoError
                 /\ \E order \in [DOMAIN read.delivered -> DOMAIN case.sizes] :
                        LET kept == {order[i] : i \in DOMAIN order}
                            lost == {b \in DOMAIN case.sizes \ kept :
                                         UnitBytes * StartOf(case.sizes, b) < case.file.bytes}
                        IN  /\ \A i, j \in DOMAIN order : i < j => order[i] < order[j]
                            /\ \A i \in DOMAIN order :
                                   read.delivered[i] = Payloads(case.sizes)[order[i]]
                            /\ kept \subseteq Intact
                            /\ ~LengthIsLost => kept = Intact
                            /\ \A b \in Intact : b \in kept \/ \E d \in DamagedBatches : d < b
                            /\ lost # {} => read.corrupt > 0 \/ read.truncated

-----------------------------------------------------------------------------
\* What the other parts of the program assume of a sensor's settings.
UsableDetector(d) ==
    /\ d.window >= 2 /\ d.alpha \in 1..10
    /\ d.stddev > 0 /\ d.slack >= 0 /\ d.threshold > 0

UsableSensor(s) ==
    /\ s.address >= 0 /\ s.address + RegisterCount(s.data_type) - 1 <= 65535
    /\ s.low # Absent /\ s.high # Absent => s.low.int < s.high.int
    /\ LET detectors == s.detection.detectors
           voters    == IF detectors = <<>> THEN 1 ELSE Len(detectors)
       IN  /\ s.detection.votes_required \in 1..voters
           /\ \A i \in DOMAIN detectors : UsableDetector(detectors[i])
    /\ s.detection.cooldown_seconds >= 0

\* A document and an environment in which nothing is configured.
NoExport == [enabled |-> Absent, directory |-> Absent, queue_capacity |-> Absent,
             batch_size |-> Absent, flush_interval_ms |-> Absent,
             segment_max_mb |-> Absent, max_total_mb |-> Absent]

EmptyDocument ==
    [log_level |-> Absent, http_port |-> Absent, ws_port |-> Absent,
     worker_threads |-> Absent, retention_hours |-> Absent, devices |-> <<>>,
     language |-> Absent, min_severity |-> Absent, channels |-> <<>>, export |-> NoExport]

EmptyEnvironment ==
    [http_port |-> Absent, ws_port |-> Absent, log_level |-> Absent,
     worker_threads |-> Absent, retention_hours |-> Absent, language |-> Absent,
     bot_token |-> Absent, chat_id |-> Absent, slack_url |-> Absent,
     webhook_url |-> Absent, export_dir |-> Absent, export_enabled |-> Absent,
     export_max_mb |-> Absent, export_segment_mb |-> Absent]

\* Nothing is configured but channels, each of a type there is.
OnlyChannels ==
    /\ [case.document EXCEPT !.channels = <<>>] = EmptyDocument
    /\ \A i \in DOMAIN case.document.channels : ~BadChannel(case.document.channels[i])
    /\ [case.env EXCEPT !.bot_token = Absent, !.chat_id = Absent,
                        !.slack_url = Absent] = EmptyEnvironment

\* The values the other parts of the program take from a configuration.
UsableExport(export) ==
    /\ \E k \in 4..24 : export.queue_capacity = 2^k
    /\ export.batch_size \in 1..export.queue_capacity
    /\ export.segment_max_mb >= 1
    /\ export.max_total_mb = 0 \/ export.max_total_mb \div export.segment_max_mb >= 2
    /\ export.enabled = 1 => export.directory # NoText

UsableDevices(devices) ==
    LET sensors == FlattenSeq([i \in DOMAIN devices |-> devices[i].sensors])
    IN  /\ \A i, j \in DOMAIN devices : devices[i].id = devices[j].id => i = j
        /\ \A i, j \in DOMAIN sensors : sensors[i].id = sensors[j].id => i = j
        /\ \A i \in DOMAIN devices : devices[i].sensors # <<>>
        /\ \A i \in DOMAIN sensors : UsableSensor(sensors[i])

UsableChannel(channel) ==
    IF channel.type = "telegram" THEN NoText \notin {channel.bot_token, channel.chat_id}
                                 ELSE channel.url # NoText

(***************************************************************************)
(* A configuration that is accepted is one the program can run with,       *)
(* wherever its values come from - the overrides from the environment are   *)
(* not checked where they are read: the queue of readings is a power of two *)
(* and holds a batch; the export limit has room for the open segment and a  *)
(* finished one; the two servers have ports of their own; no sensor of any  *)
(* device shares its id, every one lies within the registers and its quorum *)
(* can be reached; and every channel left has its credentials.  The program *)
(* starts with nothing configured, and no channel that lacks its            *)
(* credentials keeps it from starting.                                      *)
(***************************************************************************)
AcceptedConfigIsUsable ==
    case.run = "config" =>
        /\ OnlyChannels => result.accepted
        /\ result.accepted =>
            LET cfg == result.config
            IN  /\ UsableExport(cfg.export)
                /\ cfg.http_port \in 1..U16 /\ cfg.ws_port \in (1..U16) \ {cfg.http_port}
                /\ cfg.worker_threads \in 1..256 /\ cfg.retention_hours >= 1
                /\ UsableDevices(cfg.devices)
                /\ \A i \in DOMAIN cfg.channels : UsableChannel(cfg.channels[i])

=============================================================================
