----------------------------- MODULE ControlCodec -----------------------------
(***************************************************************************)
(* protocol/NodeControlJsonCodec: a control message is constructed, written *)
(* as JSON, may lose a field or have one of another JSON type when it comes *)
(* from another build of the program, and is read by resDecode.             *)
(*                                                                         *)
(* ControlMessages says what each message holds and what strEncode writes.  *)
(* Here are the keys the reader asks for, one table for each function of    *)
(* the reader: MUST (json.at, an error without it), MAY (only if contained) *)
(* and ELSE (json.value with a default).  A JSON value is a pair: the JSON  *)
(* type and the natural of ControlMessages; "garbled" is a string that is   *)
(* no name, no hexadecimal of the right length.                             *)
(***************************************************************************)
EXTENDS ControlMessages

CONSTANT MaxChanges
MaxChangesAssumption == MaxChanges \in Nat

VARIABLES
    type,       \* the type of the message
    message,    \* its fields, as the program that composes it set them
    wire,       \* its JSON, NotSent before
    disturbed,  \* "no", "dropped" or "retyped"
    changes     \* bound: fields set and disturbances so far

vars == <<type, message, wire, disturbed, changes>>

----------------------------------------------------------------------------
(* WHAT IS READ.  An entry is <<how, getter, default>>. *)

Entry(how, getters, default) ==
    [p \in {<<k>> : k \in DOMAIN getters} |-> <<how, getters[p[1]], default>>]
Must(getters) == Entry("must", getters, 0)
May(getters) == Entry("may", getters, 0)
Else(getters, default) == Entry("else", getters, default)

(* The tag at `path` of the JSON object, and the length of its array there. *)
Tag(j, path, position) == Has(j, path) /\ j[path] = <<"string", position>>
NotEmpty(j, key) == Has(j, <<key>>) /\ j[<<key>>][1] = "array" /\ j[<<key>>][2] > 0
ReadElements(j, key, table) == If(NotEmpty(j, key), Within(key, table))

ReadRound(j) ==
    Must([cryptoAlgorithm |-> "algorithm", authMode |-> "mode", totalPacketCount |-> "u32",
          packetsPerInterval |-> "u32", disclosureDelay |-> "u32", intervalMs |-> "u32",
          startTimestampMs |-> "u64", chainLength |-> "u32"])
    @@ Else([payloadMode |-> "payload"], 1)
    @@ If(Tag(j, <<"authMode">>, 2),
          Within("improvedTesla", Must([groupSize |-> "u32", detectionThreshold |-> "u32"])))

ReadReceiverPayload(j) ==
    Must([type |-> "receiverKind"])
    @@ If(Tag(j, <<"type">>, 1), Must([repeatCount |-> "u32"]))
    @@ If(Tag(j, <<"type">>, 2), Must([originalByteCount |-> "u64"]))

ReadResult(j) ==
    Must([type |-> "resultKind"])
    @@ If(Tag(j, <<"type">>, 1), Else([recoveredText |-> "text"], 0))
    @@ If(Tag(j, <<"type">>, 2), Must([originalByteCount |-> "u64"]))
    @@ If(Tag(j, <<"type">>, 3),
          Must([originalByteCount |-> "u64", recoveredByteCount |-> "u64"])
          @@ May([recoveredSha256 |-> "block"]))

\* Defect: the fast group tag of an improved packet is required.
ReadModeTagged(j) ==
    Must([type |-> "mode"])
    @@ If(Tag(j, <<"type">>, 1), Must([packetMac |-> "block"]))
    @@ If(Tag(j, <<"type">>, 2), Must([samdTau |-> "elements", fastGroupTag |-> "block"]))

ReadMode(j) ==
    Must([type |-> "mode"])
    @@ If(Tag(j, <<"type">>, 1), Must([packetMac |-> "block"]))
    @@ If(Tag(j, <<"type">>, 2),
          Must([samdTau |-> "elements"]) @@ May([fastGroupTag |-> "block"]))

ReadPacket(j) ==
    Must([type |-> "packetKind"])
    @@ If(Tag(j, <<"type">>, 2), Must([disclosedKey |-> "block"]))
    @@ If(Tag(j, <<"type">>, 1),
          Must([message |-> "block"]) @@ May([disclosedKey |-> "block"])
          @@ Within("modeDetails", ReadMode(Below(j, "modeDetails"))))

ReadObserved(j) ==
    Must([eventId |-> "u64", timestampMs |-> "u64", roundId |-> "text", senderId |-> "text",
          peer |-> "text", direction |-> "direction", sourceType |-> "source",
          chainId |-> "chain", intervalIndex |-> "u32", packetIndex |-> "u32",
          packetsPerInterval |-> "u32", disclosureDelay |-> "u32",
          cryptoAlgorithm |-> "algorithm", authMode |-> "mode", status |-> "status",
          candidateHash |-> "text", duplicateCount |-> "u32", rawDatagram |-> "bytes"])
    @@ Else([senderIp |-> "text", actualSourceIp |-> "text", reason |-> "text"], 0)
    @@ Within("payloadDetails", ReadPacket(Below(j, "payloadDetails")))

ReadFailure ==
    Must([eventId |-> "u64", timestampMs |-> "u64", severity |-> "severity",
          failureType |-> "failure", reason |-> "text"])
    @@ May([groupIndex |-> "u32"])
    @@ Else([packetEventId |-> "u64", roundId |-> "text", senderId |-> "text",
             senderIp |-> "text", actualSourceIp |-> "text", chainId |-> "chain",
             intervalIndex |-> "u32", packetIndex |-> "u32", candidateHash |-> "text",
             receivedTagDigest |-> "text", calculatedTagDigest |-> "text",
             locatedPacketIndexes |-> "array"], 0)
    @@ Else([duplicateCount |-> "u32"], 1)

ReadCounters ==
    Must([status |-> "counters"])
    @@ Else([cpuCycles |-> "u64", cacheReferences |-> "u64", cacheMisses |-> "u64"], 0)

(* The details of a native round, or of a Sender's archive, are tagged 1.   *)
First(j) == Tag(j, <<"details", "type">>, 1)

ReadSample(j) ==
    Must([eventId |-> "u64", timestampMs |-> "u64", roundId |-> "text", senderId |-> "text",
          packetCount |-> "u32", durationNs |-> "u64"])
    @@ Within("hardware", ReadCounters)
    @@ Within("details",
         IF First(j) THEN Must([intervalIndex |-> "u32", packetIndex |-> "u32"])
         ELSE Must([groupIndex |-> "u32", firstPacketIndex |-> "u32",
                    lastPacketIndex |-> "u32", verificationPath |-> "metricPath"]))

ReadEnergy(j) ==
    Must([timestampMs |-> "u64", roundId |-> "text", senderId |-> "text",
          packetCount |-> "u32", verifyTimeNs |-> "u64", receivedAuthBytes |-> "u64",
          estimatedEnergyMicroJoule |-> "double", normalComparisonEligible |-> "bool"])
    @@ Within("details",
         IF First(j) THEN Must([verifiedPacketCount |-> "u32"])
         ELSE Must([fastGroupCount |-> "u32", fallbackGroupCount |-> "u32",
                    incompleteGroupCount |-> "u32"]))

ReadArchive(j) ==
    Must([timestampMs |-> "u64", experimentId |-> "text", runId |-> "text",
          gitCommit |-> "text", nodeId |-> "text", senderId |-> "text",
          roundStatus |-> "text", validSample |-> "bool", invalidReason |-> "text"])
    @@ Within("configuration",
         Must([mode |-> "mode", cryptoAlgorithm |-> "text", payloadHash |-> "text",
               packetCount |-> "u32", packetsPerInterval |-> "u32", intervalMs |-> "u32",
               disclosureDelay |-> "u32", groupSize |-> "u32", detectionThreshold |-> "u32"]))
    @@ Within("details",
         IF First(j)
         THEN Must([sentPackets |-> "u32", configuredFault |-> "text",
                    configuredFaultValue |-> "text", randomSeed |-> "u64",
                    fileSize |-> "u64"])
         ELSE Must([receivedPackets |-> "u32", authenticatedPackets |-> "u32",
                    failedPackets |-> "u32", missingPackets |-> "u32",
                    fallbackGroupCount |-> "u32", verifyTimeNs |-> "u64",
                    receivedAuthBytes |-> "u64", estimatedEnergyMicroJoule |-> "double",
                    fileSize |-> "u64", recoveredFileSize |-> "u64",
                    recoveredFileHash |-> "text"]))

ReadCosts(j) ==
    Must([timestampMs |-> "u64", roundId |-> "text", senderId |-> "text"])
    @@ Within("details",
         Must([messageBytes |-> "u64", keyBytes |-> "u64"])
         @@ IF First(j) THEN Must([macBytes |-> "u64"])
            ELSE Must([tauBytes |-> "u64", fastGroupTagBytes |-> "u64"]))

ReadRecord(j) ==
    Must([recordType |-> "recordKind", chainId |-> "chain"])
    @@ Within("details",
              Must([type |-> IF Tag(j, <<"recordType">>, 3) THEN "archiveSide" ELSE "mode"]))
    @@ If(Tag(j, <<"recordType">>, 1), ReadSample(j))
    @@ If(Tag(j, <<"recordType">>, 2), ReadEnergy(j))
    @@ If(Tag(j, <<"recordType">>, 3), ReadArchive(j))
    @@ If(Tag(j, <<"recordType">>, 4), ReadCosts(j))

----------------------------------------------------------------------------
ReadRequest == Must([requestId |-> "text"])

ReadLink(t) ==
    CASE t = "CLIENT_HELLO" -> Must([role |-> "role"])
      [] t \in RequestTypes -> ReadRequest
      [] t = "STATUS_RESPONSE" ->
            ReadRequest @@ Must([nodeName |-> "text", senderRunning |-> "bool",
                                 receiverRunning |-> "bool", timestampMs |-> "u64"])

ReadConfiguration(t, j) ==
    CASE t = "SENDER_AUTH_CONFIG" ->
            ReadRequest @@ Must([senderId |-> "text", chainId |-> "chain",
                                 chainSeed |-> "block", commitmentKey |-> "block"])
            @@ Within("round", ReadRound(Below(j, "round")))
      [] t = "RECEIVER_AUTH_CONTEXTS" ->
            LET context == Below(j, "contexts")
            IN  ReadRequest @@ Must([contexts |-> "array"])
                @@ ReadElements(j, "contexts",
                     Must([senderId |-> "text", senderIp |-> "text", chainId |-> "chain",
                           commitmentKey |-> "block"])
                     @@ Within("round", ReadRound(Below(context, "round")))
                     @@ Within("payloadDetails",
                               ReadReceiverPayload(Below(context, "payloadDetails"))))

ReadPayload(t) ==
    ReadRequest
    @@ CASE t = "TEXT_PAYLOAD" -> Must([chainId |-> "chain", text |-> "text"])
         [] t = "FILE_UPLOAD_BEGIN" -> Must([chainId |-> "chain", originalByteCount |-> "u64"])
         [] t = "FILE_UPLOAD_END" -> Must([chainId |-> "chain", chunkCount |-> "u32",
                                           transferredByteCount |-> "u64"])
         [] t = "AUTH_CONFIG_ACK" -> Must([target |-> "target", accepted |-> "bool",
                                           errorCode |-> "text", message |-> "text"])

ReadExperiment(t, j) ==
    CASE t = "FAULT_INJECTION_CONFIG" ->
            ReadRequest @@ Must([roundId |-> "text", targetSenderId |-> "text",
                                 chainId |-> "chain", faultType |-> "faultType"])
            @@ If(Tag(j, <<"faultType">>, 1),
                  Must([lossRatePercent |-> "double", randomSeed |-> "u64",
                        protectedGroupSize |-> "u32"]))
            @@ If(Tag(j, <<"faultType">>, 2),
                  Must([startPacketIndex |-> "u32", durationMs |-> "u32",
                        protectedGroupSize |-> "u32"]))
            @@ If(Tag(j, <<"faultType">>, 3), Must([delayMs |-> "u32"]))
      [] t = "ATTACK_SOURCE_MAPPING" ->
            ReadRequest @@ Must([roundId |-> "text", action |-> "action",
                                 targetSenderId |-> "text", targetSenderIp |-> "text",
                                 attackSourceIp |-> "text", chainId |-> "chain",
                                 expiresAtMs |-> "u64"])
      [] t = "EXPERIMENT_CONTROL_ACK" ->
            ReadRequest @@ Must([roundId |-> "text", accepted |-> "bool",
                                 errorCode |-> "text", message |-> "text"])

\* Defect: a command without a logical interval is taken for interval one.
ReadRoundMessageLenient(t, j) ==
    ReadRequest @@ Must([roundId |-> "text"])
    @@ If(t # "ROUND_STOP", Must([executionTimestampMs |-> "u64"])
                            @@ Else([logicalIntervalIndex |-> "u32"], 1))

ReadRoundMessage(t, j) ==
    CASE t \in CommandTypes ->
            ReadRequest @@ Must([roundId |-> "text"])
            @@ If(t # "ROUND_STOP", Must([executionTimestampMs |-> "u64",
                                          logicalIntervalIndex |-> "u32"]))
      [] t = "ROUND_COMMAND_ACK" ->
            ReadRequest @@ Must([roundId |-> "text", command |-> "command",
                                 accepted |-> "bool", errorCode |-> "text",
                                 message |-> "text"])
      [] t = "ROUND_RESULT" ->
            Must([roundId |-> "text", senderId |-> "text", chainId |-> "chain",
                  role |-> "side", status |-> "outcome", expectedPacketCount |-> "u32",
                  receivedPacketCount |-> "u32", authenticatedPacketCount |-> "u32",
                  failedPacketCount |-> "u32", missingPacketCount |-> "u32",
                  message |-> "text"])
            @@ Within("payloadDetails", ReadResult(Below(j, "payloadDetails")))
      [] t = "ROUND_DRAIN_ACK" -> Must([roundId |-> "text", nodeName |-> "text"])
      [] t = "OBSERVATION_DISPLAY_RESET_EVENT" -> ReadRequest

ReadEvent(t, j) ==
    CASE t = "PACKET_OBSERVATION_EVENT" -> ReadObserved(j)
      [] t = "PACKET_FAILURE_EVENT" -> ReadFailure
      [] t = "IMPROVED_GROUP_OBSERVATION_EVENT" ->
            Must([eventId |-> "u64", timestampMs |-> "u64", roundId |-> "text",
                  senderId |-> "text", chainId |-> "chain", groupIndex |-> "u32",
                  firstPacketIndex |-> "u32", lastPacketIndex |-> "u32",
                  detectionThreshold |-> "u32", verificationPath |-> "groupPath",
                  fastGroupTagMatched |-> "bool", detectionThresholdExceeded |-> "bool",
                  locationSteps |-> "elements"])
            @@ Else([locatedPacketIndexes |-> "array"], 0)
            @@ ReadElements(j, "locationSteps",
                 Must([stepIndex |-> "u32", operation |-> "text"])
                 @@ Else([newGoodPacketIndexes |-> "array",
                          remainingCandidateIndexes |-> "array"], 0))
      [] t = "DOS_SUMMARY_EVENT" ->
            Must([timestampMs |-> "u64", windowMs |-> "u32", invalidPacketCount |-> "u64",
                  rateLimitedDropCount |-> "u64", legitimatePacketCount |-> "u64",
                  receiveQueueOverflowCount |-> "u64"])

ReadBatch(t, j) ==
    CASE t = "METRIC_EVENT" ->
            Must([records |-> "array"])
            @@ ReadElements(j, "records", ReadRecord(Below(j, "records")))
      [] t = "ABNORMAL_EVENT_SNAPSHOT" ->
            ReadRequest @@ Must([sequence |-> "u32", finalBatch |-> "bool",
                                 packetEvents |-> "array", failureEvents |-> "array"])
            @@ ReadElements(j, "packetEvents", ReadObserved(Below(j, "packetEvents")))
            @@ ReadElements(j, "failureEvents", ReadFailure)
      [] t = "METRIC_SNAPSHOT" ->
            ReadRequest @@ Must([sequence |-> "u32", finalBatch |-> "bool",
                                 records |-> "array"])
            @@ ReadElements(j, "records", ReadRecord(Below(j, "records")))
      [] t = "ERROR" ->
            Else([requestId |-> "text"], 0) @@ Must([errorCode |-> "text", message |-> "text"])

Read(t, j) ==
    CASE t \in LinkTypes -> ReadLink(t)
      [] t \in ConfigurationTypes -> ReadConfiguration(t, j)
      [] t \in PayloadTypes -> ReadPayload(t)
      [] t \in ExperimentTypes -> ReadExperiment(t, j)
      [] t \in RoundTypes -> ReadRoundMessage(t, j)
      [] t \in EventTypes -> ReadEvent(t, j)
      [] t \in BatchTypes -> ReadBatch(t, j)

(* The keys whose presence alone is an error: the parameters of the         *)
(* improved mode in a native round.                                         *)
Refused(t, j) ==
    LET RoundRefused(round) ==
            Tag(round, <<"authMode">>, 1) /\ Below(round, "improvedTesla") # NoFields
    IN  \/ t = "SENDER_AUTH_CONFIG" /\ RoundRefused(Below(j, "round"))
        \/ t = "RECEIVER_AUTH_CONTEXTS" /\ RoundRefused(Below(Below(j, "contexts"), "round"))

----------------------------------------------------------------------------
(* JSON *)

(* The JSON type the writer gives to a field of each kind. *)
JsonOf(kind) ==
    CASE kind = "bool" -> "bool"
      [] kind \in {"list", "some1", "batch", "batch1"} -> "array"
      [] kind \in {"u32", "pos32", "two32", "delay", "u64", "pos64", "double", "rate"} -> "number"
      [] OTHER -> "string"

(* The JSON types each getter takes.  The library converts any number and   *)
(* even a boolean to a 32-bit integer, and a loop over a value that is no   *)
(* array runs over nothing when it is null.                                 *)
Takes == [u32 |-> {"number", "fraction", "bool"}, u64 |-> {"number", "fraction"},
          double |-> {"number", "fraction"}, bool |-> {"bool"}, array |-> {"array"},
          elements |-> {"array", "null"}, text |-> {"string", "garbled"}]

TakenBy(getter) == IF getter \in DOMAIN Takes THEN Takes[getter] ELSE {"string"}

Encoded(t, m) ==
    LET written == Written(t, m) IN [p \in DOMAIN m |-> <<JsonOf(written[p]), m[p]>>]

(* resDecode: the fields as they were read, and whether they were accepted. *)
Decoded(t, j) ==
    LET table == Read(t, j)
        present == {p \in DOMAIN table : Has(j, p)}
        given == {p \in DOMAIN table : table[p][1] = "else"}
        fields == [p \in present \union given |->
                     IF p \in present THEN j[p][2] ELSE table[p][3]]
    IN  [accepted |-> /\ \A p \in DOMAIN table : table[p][1] = "must" => p \in present
                      /\ \A p \in present : j[p][1] \in TakenBy(table[p][2])
                      /\ ~Refused(t, j)
                      /\ Valid(t, fields),
         message  |-> fields]

----------------------------------------------------------------------------
(* The shapes a message of each type is composed in: its alternatives and   *)
(* optional fields.  The other fields start at their least value.           *)
At(path, value) == [p \in {path} |-> value]
RoundShapes == {At(<<"authMode">>, 1),
                At(<<"authMode">>, 2) @@ At(<<"improvedTesla", "groupSize">>, 1)}

PacketShapes ==
    LET Data(mode) == At(<<"packetIndex">>, 1)
                      @@ Within("payloadDetails",
                                At(<<"type">>, 1) @@ Within("modeDetails", mode))
    IN  {At(<<"payloadDetails", "type">>, 2), Data(At(<<"type">>, 1)), Data(At(<<"type">>, 2)),
         Data(At(<<"type">>, 2) @@ At(<<"fastGroupTag">>, 0) @@ At(<<"samdTau">>, 1)),
         Data(At(<<"type">>, 1)) @@ At(<<"payloadDetails", "disclosedKey">>, 0)}

FailureShapes == {At(<<"severity">>, 1), At(<<"groupIndex">>, 0)}

RecordShapes ==
    LET Kind(record, details) == At(<<"recordType">>, record) @@ At(<<"details", "type">>, details)
    IN  {Kind(record, details) : record \in {2, 4}, details \in 1..2}
        \union {Kind(1, 1), Kind(1, 2) @@ At(<<"details", "verificationPath">>, 2)
                                       @@ At(<<"details", "lastPacketIndex">>, 1)}
        \union {Kind(3, 1) @@ At(<<"validSample">>, 1),
                Kind(3, 2) @@ At(<<"validSample">>, 1)
                @@ Within("configuration", At(<<"mode">>, 2) @@ At(<<"groupSize">>, 1)
                                           @@ At(<<"detectionThreshold">>, 1))}

ResultShapes ==
    {At(<<"role">>, side) @@ Within("payloadDetails", details) :
        side \in 1..2,
        details \in {At(<<"type">>, 1), At(<<"type">>, 2), At(<<"type">>, 3),
                     At(<<"type">>, 3) @@ At(<<"recoveredByteCount">>, 1)
                                       @@ At(<<"recoveredSha256">>, 0)}}

Below1(key, shapes) == {At(<<key>>, 1) @@ Within(key, s) : s \in shapes}

Shapes(t) ==
    CASE t = "SENDER_AUTH_CONFIG" ->
            {Within("round", At(<<"payloadMode">>, kind) @@ r) : r \in RoundShapes, kind \in 1..2}
      [] t = "RECEIVER_AUTH_CONTEXTS" ->
            Below1("contexts",
                {Within("round", At(<<"totalPacketCount">>, 1) @@ At(<<"payloadMode">>, kind) @@ r)
                 @@ At(<<"payloadDetails", "type">>, kind) : r \in RoundShapes, kind \in 1..2})
      [] t \in {"AUTH_CONFIG_ACK", "EXPERIMENT_CONTROL_ACK", "ROUND_COMMAND_ACK"} ->
            {At(<<"accepted">>, 1), At(<<"errorCode">>, 1)}
      [] t = "FAULT_INJECTION_CONFIG" -> {At(<<"faultType">>, f) : f \in 1..3}
      [] t = "ATTACK_SOURCE_MAPPING" ->
            {At(<<"attackSourceIp">>, 2) @@ At(<<"expiresAtMs">>, 1) @@ At(<<"action">>, a) :
                a \in 1..2}
      [] t \in {"ROUND_PAUSE", "ROUND_RESUME"} -> {At(<<"logicalIntervalIndex">>, 2)}
      [] t = "ROUND_RESULT" -> ResultShapes
      [] t = "PACKET_OBSERVATION_EVENT" -> PacketShapes
      [] t = "PACKET_FAILURE_EVENT" -> FailureShapes
      [] t = "IMPROVED_GROUP_OBSERVATION_EVENT" ->
            {At(<<"lastPacketIndex">>, 1) @@ At(<<"verificationPath">>, path)
             @@ At(<<"locationSteps">>, path - 1) : path \in 1..2}
      [] t = "METRIC_EVENT" -> Below1("records", RecordShapes)
      [] t = "METRIC_SNAPSHOT" -> Below1("records", RecordShapes) \union {At(<<"records">>, 0)}
      [] t = "ABNORMAL_EVENT_SNAPSHOT" ->
            {s @@ At(<<"failureEvents">>, 0) : s \in Below1("packetEvents", PacketShapes)}
            \union {s @@ At(<<"packetEvents">>, 0) : s \in Below1("failureEvents", FailureShapes)}
      [] OTHER -> {At(<<"requestId">>, 1)}

(* The message of type t with that shape. *)
Filled(t, shape) ==
    LET written == Written(t, shape)
    IN  [p \in DOMAIN written |-> IF p \in DOMAIN shape THEN shape[p] ELSE Least(written[p])]

----------------------------------------------------------------------------
NotSent == [p \in {} |-> <<"null", 0>>]

Init ==
    /\ type \in Types
    /\ message \in {Filled(type, shape) : shape \in Shapes(type)}
    /\ wire = NotSent
    /\ disturbed = "no"
    /\ changes = 0

IsTag(path, kind) == path[Len(path)] = "type" \/ kind \in {"recordKind", "faultType"}

(* The program sets a field to another value; the elements of an emptied    *)
(* array go with it.                                                        *)
Compose(path, value) ==
    /\ wire = NotSent
    /\ changes < MaxChanges
    /\ ~IsTag(path, Written(type, message)[path])
    /\ value # message[path]
    /\ LET edited == [message EXCEPT ![path] = value]
           kept == DOMAIN Written(type, edited)
       IN  /\ kept \subseteq DOMAIN edited
           /\ message' = [p \in kept |-> edited[p]]
    /\ changes' = changes + 1
    /\ UNCHANGED <<type, wire, disturbed>>

(* The constructors accept the message and strEncode writes it. *)
Send ==
    /\ wire = NotSent
    /\ Valid(type, message)
    /\ wire' = Encoded(type, message)
    /\ UNCHANGED <<type, message, disturbed, changes>>

Arrives == wire # NotSent /\ disturbed = "no" /\ changes < MaxChanges

(* A key is missing, with everything below it. *)
DropKey(path) ==
    /\ Arrives
    /\ LET below == {p \in DOMAIN wire : Len(p) >= Len(path) /\ SubSeq(p, 1, Len(path)) = path}
       IN  wire' = [p \in DOMAIN wire \ below |-> wire[p]]
    /\ disturbed' = "dropped"
    /\ changes' = changes + 1
    /\ UNCHANGED <<type, message>>

(* The JSON types a value of a kind may be mistaken for; a real number may  *)
(* well have a fraction, and any text is a text.                            *)
Texts == {"id", "note", "brief", "mid", "mnote", "some", "text"}
MistakenFor(kind) ==
    CASE kind \in Texts -> {"bool", "fraction", "null", "array"}
      [] kind \in {"double", "rate"} -> {"bool", "null", "garbled", "array"}
      [] OTHER -> {"bool", "fraction", "null", "garbled", "array"} \ {JsonOf(kind)}

(* A value is of another JSON type. *)
RetypeKey(path, json) ==
    /\ Arrives
    /\ LET v == wire[path][2]
           converted == CASE json = "bool" -> IF v = 0 THEN 0 ELSE 1
                          [] json = "null" -> 0
                          [] OTHER -> v
       IN  wire' = [wire EXCEPT ![path] = <<json, converted>>]
    /\ disturbed' = "retyped"
    /\ changes' = changes + 1
    /\ UNCHANGED <<type, message>>

Next ==
    \/ \E path \in DOMAIN message :
          \E value \in TrialsOf(Written(type, message)[path]) : Compose(path, value)
    \/ Send
    \/ \E path \in DOMAIN wire : DropKey(path)
    \/ \E path \in DOMAIN wire :
          \E json \in MistakenFor(Written(type, message)[path]) : RetypeKey(path, json)

Spec == Init /\ [][Next]_vars

----------------------------------------------------------------------------
Received == Decoded(type, wire)
WasSent == wire # NotSent

(* What strEncode writes of a message its constructors accept, resDecode    *)
(* reads back as the same message: no limit, required key, name or optional *)
(* field differs between the two.                                           *)
RoundTrip ==
    WasSent /\ disturbed = "no" => Received = [accepted |-> TRUE, message |-> message]

(* The library makes a number of a boolean. *)
TakenForNumber(p) ==
    Has(wire, p) /\ wire[p][1] = "bool" /\ Written(type, message)[p] # "bool"

(* A configuration, a payload, an experiment or a command of the round that *)
(* lost a key, or has a value of another JSON type, is refused or read as  *)
(* it was meant; it is never acted on with another value.  The exceptions  *)
(* are the payloadMode of a Sender, which has a default, and a boolean in  *)
(* the place of a number.                                                  *)
LostFieldIsNoticed ==
    disturbed # "no" /\ Received.accepted
    /\ type \in ConfigurationTypes \union PayloadTypes \union ExperimentTypes
                \union CommandTypes \union {"ROUND_COMMAND_ACK", "ROUND_DRAIN_ACK"} =>
        \A p \in DOMAIN message :
            \/ Has(Received.message, p) /\ Received.message[p] = message[p]
            \/ type = "SENDER_AUTH_CONFIG" /\ p = <<"round", "payloadMode">>
            \/ TakenForNumber(p)

(* The messages that repeat the identities of each request: its answer, and *)
(* what the node later reports of the round it configures or starts.        *)
Reports == {"ROUND_RESULT", "PACKET_OBSERVATION_EVENT", "PACKET_FAILURE_EVENT",
            "IMPROVED_GROUP_OBSERVATION_EVENT", "METRIC_EVENT"}
RepeatedBy(t) ==
    CASE t = "PING" -> {"PONG"}
      [] t = "STATUS_REQUEST" -> {"STATUS_RESPONSE"}
      [] t = "ABNORMAL_EVENT_SNAPSHOT_REQUEST" -> {"ABNORMAL_EVENT_SNAPSHOT", "ERROR"}
      [] t = "METRIC_SNAPSHOT_REQUEST" -> {"METRIC_SNAPSHOT", "ERROR"}
      [] t \in {"TEXT_PAYLOAD", "FILE_UPLOAD_BEGIN", "FILE_UPLOAD_END"} -> {"AUTH_CONFIG_ACK"}
      [] t \in ConfigurationTypes -> {"AUTH_CONFIG_ACK"} \union Reports
      [] t \in {"FAULT_INJECTION_CONFIG", "ATTACK_SOURCE_MAPPING"} -> {"EXPERIMENT_CONTROL_ACK"}
      [] t \in CommandTypes -> {"ROUND_COMMAND_ACK", "ROUND_DRAIN_ACK"} \union Reports
      [] OTHER -> {}

Identities == {"requestId", "roundId", "senderId", "senderIp", "chainId"}

(* The kind of the identity `key` in a message of type t, wherever it is. *)
KindsOf(t, key) ==
    UNION {LET written == Written(t, shape)
           IN  {written[p] : p \in {q \in DOMAIN written : q[Len(q)] = key}} :
           shape \in Shapes(t)}

(* Whatever identity a request was accepted with, every answer and report   *)
(* that repeats it can be constructed: a node is never left unable to       *)
(* answer what it took.                                                     *)
AnswersFit ==
    WasSent /\ Received.accepted =>
        \A t \in RepeatedBy(type) : \A p \in DOMAIN Received.message :
            p[Len(p)] \in Identities =>
                \A kind \in KindsOf(t, p[Len(p)]) : InRange(kind, Received.message[p])
=============================================================================
