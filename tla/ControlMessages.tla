--------------------------- MODULE ControlMessages ---------------------------
(***************************************************************************)
(* The control messages of the system (protocol/NodeControlMessage,        *)
(* AuthenticationControl, ExperimentControl, MonitorControl, MetricControl *)
(* and the metric records of metrics/): which fields each message has, of  *)
(* which kind, and what its constructor demands of them.                   *)
(*                                                                         *)
(* A message is a function from PATHS to naturals.  A path is the sequence *)
(* of JSON keys that leads to a field ("round", "groupSize"); the natural  *)
(* is a number's value, a text's length, an enumerator's position, 0 or 1  *)
(* for a boolean or for one of two binary blocks.  The elements of an      *)
(* array are alike: the path to the array carries its length and the paths *)
(* below it the fields of every element.                                   *)
(*                                                                         *)
(* Lengths and limits are small here: TextLimit stands for 1024 bytes,     *)
(* MonitorTextLimit for 2048, BlockSize for the 32 bytes of a block,       *)
(* BatchLimit for 64 records, DelayLimit for 10000 ms and Percent for 100. *)
(***************************************************************************)
EXTENDS Naturals, Sequences, TLC

CONSTANTS TextLimit, MonitorTextLimit, BlockSize, BatchLimit, DelayLimit, Percent

(* What is assumed of them. *)
LimitsAssumption ==
    /\ {TextLimit, MonitorTextLimit, BlockSize, BatchLimit, DelayLimit, Percent} \subseteq Nat
    /\ 0 < BlockSize /\ BlockSize < TextLimit /\ TextLimit < MonitorTextLimit
    /\ 0 < BatchLimit

(* The fields of one object, by key, as paths. *)
Fields(kinds) == [p \in {<<k>> : k \in DOMAIN kinds} |-> kinds[p[1]]]

(* The same fields below the key `key`. *)
Within(key, fields) == [p \in {<<key>> \o q : q \in DOMAIN fields} |-> fields[Tail(p)]]

NoFields == [p \in {} |-> "text"]

(* The value of the enumeration-like field at `path`, if the message has it. *)
Is(m, path, position) == path \in DOMAIN m /\ m[path] = position

Has(m, path) == path \in DOMAIN m

----------------------------------------------------------------------------
(* The names the encoder gives to the enumerators: of a client and of a     *)
(* configuration,                                                           *)
ConfigurationNameOf == [
    role      |-> <<"MANAGER", "MONITOR">>,
    algorithm |-> <<"SHA256", "SM3", "SHA3_256">>,
    mode      |-> <<"NATIVE", "IMPROVED">>,
    target    |-> <<"SENDER", "RECEIVER", "TEXT_PAYLOAD", "FILE_PAYLOAD">>,
    payload   |-> <<"TEXT", "FILE">>]

(* of a round's commands and results,                                       *)
RoundNameOf == [
    command   |-> <<"START", "PAUSE", "RESUME", "STOP">>,
    side      |-> <<"SENDER", "RECEIVER">>,
    outcome   |-> <<"COMPLETED", "AUTHENTICATION_FAILED", "VERIFICATION_TIMEOUT",
                    "INVALID_SCHEDULING_OVERRUN", "STOPPED", "PROTOCOL_INCOMPLETE",
                    "TIME_UNSYNCHRONIZED">>]

(* and of an observed packet.                                               *)
PacketNameOf == [
    direction |-> <<"TX", "RX">>,
    source    |-> <<"NORMAL_SENDER", "Attack_TEST", "UNKNOWN_SOURCE">>,
    status    |-> <<"GENERATED", "PENDING", "PASS", "FAIL">>]

(* The names of the kinds of failure, their severities and the ways a group *)
(* is verified.                                                             *)
EventNameOf == [
    failure   |-> <<"MAC_FAILED", "MESSAGE_CONFLICT", "FAST_GROUP_FAILED",
                    "GROUP_TAU_FAILED", "DETECTION_THRESHOLD_EXCEEDED",
                    "DUPLICATE_DATAGRAM", "ARRIVAL_WINDOW_EXPIRED",
                    "EXPIRED_CHAIN_DATAGRAM", "MISSING_PACKET", "INCOMPLETE_GROUP_TAGS",
                    "UNVERIFIABLE_MISSING_BASELINE", "UNKNOWN_CONTEXT", "PROTOCOL_ERROR",
                    "INVALID_SCHEDULING_OVERRUN", "ABNORMAL_RECORD_LIMIT_REACHED">>,
    severity  |-> <<"INFO", "WARNING", "ERROR">>,
    groupPath |-> <<"FAST_GROUP_PASS", "KS_RS_FALLBACK", "INCOMPLETE_GROUP_TAGS">>]

(* The names of the hardware counters' states and of the measured paths. *)
MetricNameOf == [
    counters   |-> <<"SUPPORTED", "NOT_SUPPORTED", "PERMISSION_DENIED", "READ_FAILED">>,
    metricPath |-> <<"NATIVE_PACKET_VERIFY", "FAST_GROUP_PASS", "KS_RS_FALLBACK",
                     "INCOMPLETE_GROUP_TAGS">>]

(* The tags that say which alternative of a variant an object holds. *)
TagOf == [
    faultType     |-> <<"PACKET_LOSS", "LOGICAL_DISCONNECT", "FIXED_DELAY">>,
    action        |-> <<"INSTALL", "CLEAR">>,
    packetKind    |-> <<"DATA", "DISCLOSE">>,
    receiverKind  |-> <<"TEXT", "FILE">>,
    resultKind    |-> <<"TEXT", "FILE_SENDER", "FILE_RECEIVER">>,
    recordKind    |-> <<"VERIFICATION_SAMPLE", "ESTIMATED_ENERGY_SUMMARY",
                        "ROUND_ARCHIVE_SUMMARY", "COMMUNICATION_COST_SUMMARY">>,
    archiveSide   |-> <<"SENDER", "RECEIVER">>]

Names == ConfigurationNameOf @@ RoundNameOf @@ PacketNameOf @@ EventNameOf @@ MetricNameOf @@ TagOf

IsName(kind) == kind \in DOMAIN Names

(* What a constructor demands of one field of each kind: the least and the *)
(* greatest value, Unlimited when it sets no upper bound.                  *)
Unlimited == MonitorTextLimit + 2

Demands == [
    id       |-> <<1, TextLimit>>,        note  |-> <<0, TextLimit>>,
    brief    |-> <<1, BlockSize>>,        mid   |-> <<1, MonitorTextLimit>>,
    mnote    |-> <<0, MonitorTextLimit>>, some  |-> <<1, Unlimited>>,
    text     |-> <<0, Unlimited>>,        bytes |-> <<1, Unlimited>>,
    u32      |-> <<0, Unlimited>>,        pos32 |-> <<1, Unlimited>>,
    two32    |-> <<2, Unlimited>>,        delay |-> <<0, DelayLimit>>,
    u64      |-> <<0, Unlimited>>,        pos64 |-> <<1, Unlimited>>,
    double   |-> <<0, Unlimited>>,        rate  |-> <<0, Percent>>,
    bool     |-> <<0, 1>>,                block |-> <<0, 1>>,
    chain    |-> <<0, 1>>,                link  |-> <<1, 1>>,
    list     |-> <<0, Unlimited>>,        some1 |-> <<1, Unlimited>>,
    batch    |-> <<0, BatchLimit>>,       batch1 |-> <<1, BatchLimit>>]

Least(kind) == IF IsName(kind) THEN 1 ELSE Demands[kind][1]
Greatest(kind) == IF IsName(kind) THEN Len(Names[kind]) ELSE Demands[kind][2]

InRange(kind, v) == Least(kind) <= v /\ v <= Greatest(kind)

(* The values a field is given when a message is composed: its least one,   *)
(* the ones next to its limits and those beyond them.                       *)
TrialsOf(kind) ==
    IF IsName(kind) THEN 1..Len(Names[kind])
    ELSE IF kind \in {"bool", "block", "chain", "link"} THEN 0..1
    ELSE {0, 1, 2, Greatest(kind)} \union
         (IF Greatest(kind) = Unlimited THEN {} ELSE {Greatest(kind) + 1})

(* The part of a message below a key. *)
Below(m, key) ==
    [p \in {Tail(q) : q \in {r \in DOMAIN m : Len(r) > 1 /\ r[1] = key}} |->
        m[<<key>> \o p]]

If(condition, fields) == IF condition THEN fields ELSE NoFields

(* The fields of the elements of the array at `key`, when it has any. *)
Elements(m, key, fields) == If(~Is(m, <<key>>, 0), Within(key, fields))

----------------------------------------------------------------------------
(* WHAT IS WRITTEN.  The fields of each object under the keys the encoder   *)
(* gives them; m supplies the tags and the optional fields.                 *)

RoundFields(m) ==
    Fields([cryptoAlgorithm |-> "algorithm", authMode |-> "mode", totalPacketCount |-> "pos32",
            packetsPerInterval |-> "pos32", disclosureDelay |-> "pos32", intervalMs |-> "pos32",
            startTimestampMs |-> "u64", chainLength |-> "two32", payloadMode |-> "payload"])
    @@ If(Has(m, <<"improvedTesla", "groupSize">>),
          Within("improvedTesla", Fields([groupSize |-> "pos32", detectionThreshold |-> "pos32"])))

(* What the Receiver may know of the payload: its repetitions or its size.  *)
ReceiverPayloadFields(m) ==
    Fields([type |-> "receiverKind"])
    @@ If(Is(m, <<"type">>, 1), Fields([repeatCount |-> "pos32"]))
    @@ If(Is(m, <<"type">>, 2), Fields([originalByteCount |-> "pos64"]))

ResultFields(m) ==
    Fields([type |-> "resultKind"])
    @@ If(Is(m, <<"type">>, 1), Fields([recoveredText |-> "note"]))
    @@ If(Is(m, <<"type">>, 2), Fields([originalByteCount |-> "pos64"]))
    @@ If(Is(m, <<"type">>, 3), Fields([originalByteCount |-> "pos64", recoveredByteCount |-> "u64"]))
    @@ If(Has(m, <<"recoveredSha256">>), Fields([recoveredSha256 |-> "block"]))

ModeFields(m) ==
    Fields([type |-> "mode"])
    @@ If(Is(m, <<"type">>, 1), Fields([packetMac |-> "block"]))
    @@ If(Is(m, <<"type">>, 2), Fields([samdTau |-> "list"]))
    @@ If(Has(m, <<"fastGroupTag">>), Fields([fastGroupTag |-> "block"]))

PacketFields(m) ==
    Fields([type |-> "packetKind"])
    @@ If(Is(m, <<"type">>, 1),
          Fields([message |-> "block"]) @@ Within("modeDetails", ModeFields(Below(m, "modeDetails"))))
    @@ If(Is(m, <<"type">>, 2) \/ Has(m, <<"disclosedKey">>), Fields([disclosedKey |-> "block"]))

ObservedFields(m) ==
    Fields([eventId |-> "pos64", timestampMs |-> "pos64", roundId |-> "mid", senderId |-> "mid",
            senderIp |-> "mnote", actualSourceIp |-> "mnote", peer |-> "mid",
            direction |-> "direction", sourceType |-> "source", chainId |-> "link",
            intervalIndex |-> "pos32", packetIndex |-> "u32", packetsPerInterval |-> "pos32",
            disclosureDelay |-> "pos32", cryptoAlgorithm |-> "algorithm", authMode |-> "mode",
            status |-> "status", candidateHash |-> "mid", duplicateCount |-> "pos32",
            reason |-> "mnote", rawDatagram |-> "bytes"])
    @@ Within("payloadDetails", PacketFields(Below(m, "payloadDetails")))

FailureFields(m) ==
    Fields([eventId |-> "pos64", packetEventId |-> "u64", timestampMs |-> "pos64",
            severity |-> "severity", failureType |-> "failure", roundId |-> "mnote",
            senderId |-> "mnote", senderIp |-> "mnote", actualSourceIp |-> "mnote",
            chainId |-> "chain", intervalIndex |-> "u32", packetIndex |-> "u32",
            candidateHash |-> "mnote", reason |-> "mid", receivedTagDigest |-> "mnote",
            calculatedTagDigest |-> "mnote", locatedPacketIndexes |-> "list",
            duplicateCount |-> "pos32"])
    @@ If(Has(m, <<"groupIndex">>), Fields([groupIndex |-> "u32"]))

CounterFields == Fields([status |-> "counters", cpuCycles |-> "u64",
                         cacheReferences |-> "u64", cacheMisses |-> "u64"])

(* A verification sample and an energy summary. *)
MeasuredFields(m) ==
    LET native == Is(m, <<"details", "type">>, 1)
        shared == Fields([timestampMs |-> "pos64", roundId |-> "some", senderId |-> "some",
                          chainId |-> "chain", packetCount |-> "pos32"])
    IN  CASE Is(m, <<"recordType">>, 1) ->
                shared @@ Fields([eventId |-> "pos64", durationNs |-> "u64"])
                @@ Within("hardware", CounterFields)
                @@ Within("details",
                     IF native THEN Fields([intervalIndex |-> "pos32", packetIndex |-> "pos32"])
                     ELSE Fields([groupIndex |-> "pos32", firstPacketIndex |-> "pos32",
                                  lastPacketIndex |-> "u32", verificationPath |-> "metricPath"]))
          [] Is(m, <<"recordType">>, 2) ->
                shared @@ Fields([verifyTimeNs |-> "u64", receivedAuthBytes |-> "u64",
                                  estimatedEnergyMicroJoule |-> "double",
                                  normalComparisonEligible |-> "bool"])
                @@ Within("details",
                     IF native THEN Fields([verifiedPacketCount |-> "u32"])
                     ELSE Fields([fastGroupCount |-> "u32", fallbackGroupCount |-> "u32",
                                  incompleteGroupCount |-> "u32"]))
          [] OTHER -> NoFields

(* The archive of a round and the summary of what it cost to communicate. *)
ArchivedFields(m) ==
    LET native == Is(m, <<"details", "type">>, 1)
    IN  CASE Is(m, <<"recordType">>, 3) ->
                Fields([timestampMs |-> "pos64", experimentId |-> "some", runId |-> "some",
                        gitCommit |-> "some", nodeId |-> "some", senderId |-> "some",
                        chainId |-> "chain", roundStatus |-> "some", validSample |-> "bool",
                        invalidReason |-> "text"])
                @@ Within("configuration",
                     Fields([mode |-> "mode", cryptoAlgorithm |-> "some", payloadHash |-> "text",
                             packetCount |-> "pos32", packetsPerInterval |-> "pos32",
                             intervalMs |-> "pos32", disclosureDelay |-> "pos32",
                             groupSize |-> "u32", detectionThreshold |-> "u32"]))
                @@ Within("details",
                     IF native THEN Fields([sentPackets |-> "u32", configuredFault |-> "some",
                                            configuredFaultValue |-> "text",
                                            randomSeed |-> "u64", fileSize |-> "u64"])
                     ELSE Fields([receivedPackets |-> "u32", authenticatedPackets |-> "u32",
                                  failedPackets |-> "u32", missingPackets |-> "u32",
                                  fallbackGroupCount |-> "u32", verifyTimeNs |-> "u64",
                                  receivedAuthBytes |-> "u64",
                                  estimatedEnergyMicroJoule |-> "double", fileSize |-> "u64",
                                  recoveredFileSize |-> "u64", recoveredFileHash |-> "text"]))
          [] Is(m, <<"recordType">>, 4) ->
                Fields([timestampMs |-> "pos64", roundId |-> "some", senderId |-> "some",
                        chainId |-> "chain"])
                @@ Within("details",
                     IF native THEN Fields([messageBytes |-> "u64", keyBytes |-> "u64",
                                            macBytes |-> "u64"])
                     ELSE Fields([messageBytes |-> "u64", keyBytes |-> "u64",
                                  tauBytes |-> "u64", fastGroupTagBytes |-> "u64"]))
          [] OTHER -> NoFields

RecordFields(m) ==
    Fields([recordType |-> "recordKind"])
    @@ Within("details", Fields([type |-> IF Is(m, <<"recordType">>, 3) THEN "archiveSide"
                                                                      ELSE "mode"]))
    @@ MeasuredFields(m) @@ ArchivedFields(m)

----------------------------------------------------------------------------
RequestTypes == {"PING", "PONG", "STATUS_REQUEST", "ABNORMAL_EVENT_SNAPSHOT_REQUEST",
                 "METRIC_SNAPSHOT_REQUEST"}
LinkTypes == RequestTypes \union {"CLIENT_HELLO", "STATUS_RESPONSE"}
ConfigurationTypes == {"SENDER_AUTH_CONFIG", "RECEIVER_AUTH_CONTEXTS"}
PayloadTypes == {"TEXT_PAYLOAD", "FILE_UPLOAD_BEGIN", "FILE_UPLOAD_END", "AUTH_CONFIG_ACK"}
ExperimentTypes == {"FAULT_INJECTION_CONFIG", "ATTACK_SOURCE_MAPPING", "EXPERIMENT_CONTROL_ACK"}
CommandTypes == {"ROUND_START", "ROUND_PAUSE", "ROUND_RESUME", "ROUND_STOP"}
RoundTypes == CommandTypes \union {"ROUND_COMMAND_ACK", "ROUND_RESULT", "ROUND_DRAIN_ACK",
                                   "OBSERVATION_DISPLAY_RESET_EVENT"}
EventTypes == {"PACKET_OBSERVATION_EVENT", "PACKET_FAILURE_EVENT",
               "IMPROVED_GROUP_OBSERVATION_EVENT", "DOS_SUMMARY_EVENT"}
BatchTypes == {"METRIC_EVENT", "ABNORMAL_EVENT_SNAPSHOT", "METRIC_SNAPSHOT", "ERROR"}
Types == UNION {LinkTypes, ConfigurationTypes, PayloadTypes, ExperimentTypes, RoundTypes,
                EventTypes, BatchTypes}

Request == Fields([requestId |-> "id"])

WrittenLink(t) ==
    CASE t = "CLIENT_HELLO" -> Fields([role |-> "role"])
      [] t \in RequestTypes -> Request
      [] t = "STATUS_RESPONSE" ->
            Request @@ Fields([nodeName |-> "id", senderRunning |-> "bool",
                               receiverRunning |-> "bool", timestampMs |-> "u64"])

WrittenConfiguration(t, m) ==
    CASE t = "SENDER_AUTH_CONFIG" ->
            Request @@ Fields([senderId |-> "id", chainId |-> "link", chainSeed |-> "block",
                               commitmentKey |-> "block"])
            @@ Within("round", RoundFields(Below(m, "round")))
      [] t = "RECEIVER_AUTH_CONTEXTS" ->
            LET context == Below(m, "contexts")
            IN  Request @@ Fields([contexts |-> "some1"])
                @@ Elements(m, "contexts",
                     Fields([senderId |-> "id", senderIp |-> "id", chainId |-> "link",
                             commitmentKey |-> "block"])
                     @@ Within("round", RoundFields(Below(context, "round")))
                     @@ Within("payloadDetails",
                               ReceiverPayloadFields(Below(context, "payloadDetails"))))

WrittenPayload(t) ==
    CASE t = "TEXT_PAYLOAD" -> Request @@ Fields([chainId |-> "link", text |-> "brief"])
      [] t = "FILE_UPLOAD_BEGIN" ->
            Request @@ Fields([chainId |-> "link", originalByteCount |-> "pos64"])
      [] t = "FILE_UPLOAD_END" ->
            Request @@ Fields([chainId |-> "link", chunkCount |-> "pos32",
                               transferredByteCount |-> "pos64"])
      [] t = "AUTH_CONFIG_ACK" ->
            Request @@ Fields([target |-> "target", accepted |-> "bool", errorCode |-> "note",
                               message |-> "id"])

WrittenExperiment(t, m) ==
    CASE t = "FAULT_INJECTION_CONFIG" ->
            Request @@ Fields([roundId |-> "id", targetSenderId |-> "id",
                               chainId |-> "link", faultType |-> "faultType"])
            @@ If(Is(m, <<"faultType">>, 1),
                  Fields([lossRatePercent |-> "rate", randomSeed |-> "pos64",
                          protectedGroupSize |-> "pos32"]))
            @@ If(Is(m, <<"faultType">>, 2),
                  Fields([startPacketIndex |-> "pos32", durationMs |-> "pos32",
                          protectedGroupSize |-> "pos32"]))
            @@ If(Is(m, <<"faultType">>, 3), Fields([delayMs |-> "delay"]))
      [] t = "ATTACK_SOURCE_MAPPING" ->
            Request @@ Fields([roundId |-> "id", action |-> "action", targetSenderId |-> "id",
                               targetSenderIp |-> "id", attackSourceIp |-> "id",
                               chainId |-> "link", expiresAtMs |-> "u64"])
      [] t = "EXPERIMENT_CONTROL_ACK" ->
            Request @@ Fields([roundId |-> "id", accepted |-> "bool", errorCode |-> "text",
                               message |-> "id"])

WrittenRound(t, m) ==
    CASE t \in CommandTypes ->
            Request @@ Fields([roundId |-> "id"])
            @@ If(t # "ROUND_STOP", Fields([executionTimestampMs |-> "pos64",
                                            logicalIntervalIndex |-> "pos32"]))
      [] t = "ROUND_COMMAND_ACK" ->
            Request @@ Fields([roundId |-> "id", command |-> "command", accepted |-> "bool",
                               errorCode |-> "note", message |-> "id"])
      [] t = "ROUND_RESULT" ->
            Fields([roundId |-> "id", senderId |-> "id", chainId |-> "link", role |-> "side",
                    status |-> "outcome", expectedPacketCount |-> "pos32",
                    receivedPacketCount |-> "u32", authenticatedPacketCount |-> "u32",
                    failedPacketCount |-> "u32", missingPacketCount |-> "u32",
                    message |-> "id"])
            @@ Within("payloadDetails", ResultFields(Below(m, "payloadDetails")))
      [] t = "ROUND_DRAIN_ACK" -> Fields([roundId |-> "some", nodeName |-> "some"])
      [] t = "OBSERVATION_DISPLAY_RESET_EVENT" -> Fields([requestId |-> "mid"])

WrittenEvent(t, m) ==
    CASE t = "PACKET_OBSERVATION_EVENT" -> ObservedFields(m)
      [] t = "PACKET_FAILURE_EVENT" -> FailureFields(m)
      [] t = "IMPROVED_GROUP_OBSERVATION_EVENT" ->
            Fields([eventId |-> "pos64", timestampMs |-> "pos64", roundId |-> "mid",
                    senderId |-> "mid", chainId |-> "link", groupIndex |-> "pos32",
                    firstPacketIndex |-> "pos32", lastPacketIndex |-> "u32",
                    detectionThreshold |-> "pos32", verificationPath |-> "groupPath",
                    fastGroupTagMatched |-> "bool", detectionThresholdExceeded |-> "bool",
                    locatedPacketIndexes |-> "list", locationSteps |-> "list"])
            @@ Elements(m, "locationSteps",
                 Fields([stepIndex |-> "u32", operation |-> "mid",
                         newGoodPacketIndexes |-> "list",
                         remainingCandidateIndexes |-> "list"]))
      [] t = "DOS_SUMMARY_EVENT" ->
            Fields([timestampMs |-> "pos64", windowMs |-> "pos32", invalidPacketCount |-> "u64",
                    rateLimitedDropCount |-> "u64", legitimatePacketCount |-> "u64",
                    receiveQueueOverflowCount |-> "u64"])

WrittenBatch(t, m) ==
    CASE t = "METRIC_EVENT" ->
            Fields([records |-> "batch1"]) @@ Elements(m, "records", RecordFields(Below(m, "records")))
      [] t = "ABNORMAL_EVENT_SNAPSHOT" ->
            Fields([requestId |-> "mid", sequence |-> "pos32", finalBatch |-> "bool",
                    packetEvents |-> "batch", failureEvents |-> "batch"])
            @@ Elements(m, "packetEvents", ObservedFields(Below(m, "packetEvents")))
            @@ Elements(m, "failureEvents", FailureFields(Below(m, "failureEvents")))
      [] t = "METRIC_SNAPSHOT" ->
            Fields([requestId |-> "some", sequence |-> "pos32", finalBatch |-> "bool",
                    records |-> "batch"])
            @@ Elements(m, "records", RecordFields(Below(m, "records")))
      [] t = "ERROR" -> Fields([requestId |-> "note", errorCode |-> "id", message |-> "id"])

Written(t, m) ==
    CASE t \in LinkTypes -> WrittenLink(t)
      [] t \in ConfigurationTypes -> WrittenConfiguration(t, m)
      [] t \in PayloadTypes -> WrittenPayload(t)
      [] t \in ExperimentTypes -> WrittenExperiment(t, m)
      [] t \in RoundTypes -> WrittenRound(t, m)
      [] t \in EventTypes -> WrittenEvent(t, m)
      [] t \in BatchTypes -> WrittenBatch(t, m)

----------------------------------------------------------------------------
(* WHAT IS DEMANDED.  The conditions between fields that the constructors   *)
(* check besides the range of each one.                                     *)

ConsistentRound(r) == (r[<<"authMode">>] = 2) <=> Has(r, <<"improvedTesla", "groupSize">>)

(* The packets of the round are the repetitions of the text, or the blocks *)
(* of the file.                                                            *)
ConsistentContext(c) ==
    /\ ConsistentRound(Below(c, "round"))
    /\ c[<<"round", "payloadMode">>] = c[<<"payloadDetails", "type">>]
    /\ c[<<"round", "totalPacketCount">>] =
          IF Has(c, <<"payloadDetails", "repeatCount">>)
          THEN c[<<"payloadDetails", "repeatCount">>]
          ELSE (c[<<"payloadDetails", "originalByteCount">>] + BlockSize - 1) \div BlockSize

ConsistentAnswer(m) == (m[<<"accepted">>] = 1) <=> (m[<<"errorCode">>] = 0)

ConsistentMapping(m) ==
    /\ m[<<"targetSenderIp">>] # m[<<"attackSourceIp">>]
    /\ Is(m, <<"action">>, 1) => m[<<"expiresAtMs">>] > 0

(* A Receiver has the digest of a file exactly when it recovered some of it. *)
ConsistentFile(details) ==
    details[<<"recoveredByteCount">>] > 0 <=> Has(details, <<"recoveredSha256">>)

ConsistentResult(m) ==
    LET details == Below(m, "payloadDetails")
    IN  /\ m[<<"receivedPacketCount">>] <= m[<<"expectedPacketCount">>]
        /\ m[<<"authenticatedPacketCount">>] <= m[<<"receivedPacketCount">>]
        /\ m[<<"failedPacketCount">>] <= m[<<"receivedPacketCount">>]
        /\ m[<<"missingPacketCount">>] <= m[<<"expectedPacketCount">>]
        /\ Is(m, <<"role">>, 1) => ~Is(details, <<"type">>, 3)
        /\ Is(m, <<"role">>, 2) => ~Is(details, <<"type">>, 2)
        /\ Is(details, <<"type">>, 3) => ConsistentFile(details)

ConsistentCommand(t, m) == t = "ROUND_START" => m[<<"logicalIntervalIndex">>] = 1

(* The tags of an improved packet come together or not at all. *)
ConsistentMode(mode) == mode[<<"samdTau">>] > 0 <=> Has(mode, <<"fastGroupTag">>)

(* Data has a packet number and a disclosed key alone has none. *)
ConsistentObservation(m) ==
    LET payload == Below(m, "payloadDetails")
    IN  /\ Is(payload, <<"type">>, 1) <=> m[<<"packetIndex">>] > 0
        /\ Has(payload, <<"modeDetails", "samdTau">>) =>
              ConsistentMode(Below(payload, "modeDetails"))

ConsistentGroup(m) ==
    /\ m[<<"lastPacketIndex">>] >= m[<<"firstPacketIndex">>]
    /\ Is(m, <<"verificationPath">>, 1) =>
          m[<<"locatedPacketIndexes">>] = 0 /\ m[<<"locationSteps">>] = 0

ConsistentArchive(r) ==
    LET configuration == Below(r, "configuration")
        grouping == {configuration[<<"groupSize">>], configuration[<<"detectionThreshold">>]}
    IN  /\ IF Is(configuration, <<"mode">>, 1) THEN grouping = {0} ELSE 0 \notin grouping
        /\ (r[<<"validSample">>] = 1) <=> (r[<<"invalidReason">>] = 0)
        /\ Has(r, <<"details", "recoveredFileSize">>) =>
              r[<<"details", "recoveredFileSize">>] <= r[<<"details", "fileSize">>]

ConsistentSample(r) ==
    LET details == Below(r, "details")
    IN  Has(details, <<"verificationPath">>) =>
          /\ details[<<"lastPacketIndex">>] >= details[<<"firstPacketIndex">>]
          /\ details[<<"verificationPath">>] # 1

ConsistentRecord(r) ==
    /\ Is(r, <<"recordType">>, 1) => ConsistentSample(r)
    /\ Is(r, <<"recordType">>, 3) => ConsistentArchive(r)

ConsistentElements(m) ==
    /\ Has(m, <<"packetEvents">>) /\ ~Is(m, <<"packetEvents">>, 0) =>
          ConsistentObservation(Below(m, "packetEvents"))
    /\ Has(m, <<"records">>) /\ ~Is(m, <<"records">>, 0) =>
          ConsistentRecord(Below(m, "records"))

Consistent(t, m) ==
    /\ t = "SENDER_AUTH_CONFIG" => ConsistentRound(Below(m, "round"))
    /\ t = "RECEIVER_AUTH_CONTEXTS" => ConsistentContext(Below(m, "contexts"))
    /\ t \in {"AUTH_CONFIG_ACK", "EXPERIMENT_CONTROL_ACK", "ROUND_COMMAND_ACK"} =>
          ConsistentAnswer(m)
    /\ t = "ATTACK_SOURCE_MAPPING" => ConsistentMapping(m)
    /\ t \in CommandTypes => ConsistentCommand(t, m)
    /\ t = "ROUND_RESULT" => ConsistentResult(m)
    /\ t = "PACKET_OBSERVATION_EVENT" => ConsistentObservation(m)
    /\ t = "IMPROVED_GROUP_OBSERVATION_EVENT" => ConsistentGroup(m)
    /\ ConsistentElements(m)

(* A message its constructors accept. *)
Valid(t, m) ==
    LET written == Written(t, m)
    IN  /\ DOMAIN m = DOMAIN written
        /\ \A p \in DOMAIN m : InRange(written[p], m[p])
        /\ Consistent(t, m)

=============================================================================
