--------------------------- MODULE VersionChoice ----------------------------
(***************************************************************************)
(* Which version of a request the client uses.  Wherever it builds a       *)
(* request it compares Config.Version with the Kafka versions it knows;    *)
(* sendInternal then refuses a request whose requiredVersion is above      *)
(* Config.Version; and an operator may raise Config.Version.  The two      *)
(* tables are kept in different files and have to agree.                   *)
(***************************************************************************)
EXTENDS Messages

CONSTANT Apis   \* the APIs called

VARIABLES conf,   \* Config.Version
          api,    \* the call being made
          ver,    \* the version of the request last built
          stage   \* "new", "built", "sent" or "refused"

vars == <<conf, api, ver, stage>>

KafkaVersions ==
  {V0_8_2_0, V0_9_0_0, V0_10_0_0, V0_10_1_0, V0_10_2_0, V0_11_0_0, V1_0_0_0, V1_1_0_0, V2_0_0_0,
   V2_1_0_0, V2_2_0_0, V2_3_0_0, V2_4_0_0, V2_5_0_0, V2_6_0_0, V2_7_0_0, V2_8_0_0}

IsAtLeast(c, v) == c >= v

\* A chain of comparisons: the version of the last entry that Config.Version reaches,
\* or else start.
Chain(c, start, entries) ==
  LET reached == {i \in 1..Len(entries) : IsAtLeast(c, entries[i][1])}
  IN  IF reached = {} THEN start
      ELSE entries[CHOOSE i \in reached : \A j \in reached : j <= i][2]

NewMetadataRequest(c) ==
  Chain(c, 0, << <<V0_10_0_0, 1>>, <<V0_10_1_0, 2>>, <<V0_11_0_0, 4>>, <<V1_0_0_0, 5>>,
                 <<V2_0_0_0, 6>>, <<V2_1_0_0, 7>>, <<V2_4_0_0, 8>>, <<V2_4_0_0, 9>>,
                 <<V2_8_0_0, 10>> >>)

NewOffsetFetchRequest(c) ==
  Chain(c, 0, << <<V0_8_2_0, 1>>, <<V0_10_2_0, 2>>, <<V0_11_0_0, 3>>, <<V2_0_0_0, 4>>,
                 <<V2_1_0_0, 5>>, <<V2_4_0_0, 6>>, <<V2_5_0_0, 7>> >>)

OffsetCommitVersion(c) ==
  Chain(c, 1, << <<V0_9_0_0, 2>>, <<V0_11_0_0, 3>>, <<V2_0_0_0, 4>>, <<V2_1_0_0, 6>>,
                 <<V2_3_0_0, 7>> >>)

FetchVersion(c) ==
  Chain(c, 0, << <<V0_9_0_0, 1>>, <<V0_10_0_0, 2>>, <<V0_10_1_0, 3>>, <<V0_11_0_0, 5>>,
                 <<V1_0_0_0, 6>>, <<V1_1_0_0, 7>>, <<V2_0_0_0, 8>>, <<V2_1_0_0, 10>>,
                 <<V2_3_0_0, 11>> >>)

ProduceVersion(c) ==
  Chain(c, 0, << <<V0_10_0_0, 2>>, <<V0_11_0_0, 3>>, <<V1_0_0_0, 5>>, <<V2_0_0_0, 6>>,
                 <<V2_1_0_0, 7>> >>)

\* GetOffset, findCoordinator and InitProducerID of the client.
GetOffsetVersion(c) ==
  Chain(c, 0, << <<V0_10_1_0, 1>>, <<V0_11_0_0, 2>>, <<V2_0_0_0, 3>>, <<V2_1_0_0, 4>> >>)
FindCoordinatorVersion(c) == Chain(c, 0, << <<V0_11_0_0, 1>>, <<V2_0_0_0, 2>> >>)
InitProducerIDVersion(c) ==
  Chain(c, 0, << <<V2_0_0_0, 1>>, <<V2_4_0_0, 2>>, <<V2_5_0_0, 3>>, <<V2_7_0_0, 4>> >>)

JoinGroupVersion(c) ==
  Chain(c, 0, << <<V0_10_1_0, 1>>, <<V0_11_0_0, 2>>, <<V2_0_0_0, 3>>, <<V2_2_0_0, 4>>,
                 <<V2_3_0_0, 5>> >>)
SyncGroupVersion(c) == Chain(c, 0, << <<V0_11_0_0, 1>>, <<V2_0_0_0, 2>>, <<V2_3_0_0, 3>> >>)
HeartbeatVersion(c) == Chain(c, 0, << <<V0_11_0_0, 1>>, <<V2_0_0_0, 2>>, <<V2_3_0_0, 3>> >>)
LeaveGroupVersion(c) == Chain(c, 0, << <<V0_11_0_0, 1>>, <<V2_0_0_0, 2>>, <<V2_4_0_0, 3>> >>)

AddOffsetsToTxnVersion(c) == Chain(c, 0, << <<V2_0_0_0, 1>>, <<V2_7_0_0, 2>> >>)
TxnOffsetCommitVersion(c) == Chain(c, 0, << <<V2_0_0_0, 1>>, <<V2_1_0_0, 2>> >>)
EndTxnVersion(c) == Chain(c, 0, << <<V2_0_0_0, 1>>, <<V2_7_0_0, 2>> >>)
AddPartitionsToTxnVersion(c) == Chain(c, 0, << <<V2_0_0_0, 1>>, <<V2_7_0_0, 2>> >>)

CreateTopicVersion(c) == Chain(c, 0, << <<V0_10_2_0, 1>>, <<V0_11_0_0, 2>>, <<V2_0_0_0, 3>> >>)
DeleteTopicVersion(c) == Chain(c, 0, << <<V0_11_0_0, 1>>, <<V2_0_0_0, 2>>, <<V2_1_0_0, 3>> >>)
DescribeConfigVersion(c) == Chain(c, 0, << <<V1_1_0_0, 1>>, <<V2_0_0_0, 2>> >>)
DescribeGroupsVersion(c) ==
  Chain(c, 0, << <<V1_1_0_0, 1>>, <<V2_0_0_0, 2>>, <<V2_3_0_0, 3>>, <<V2_4_0_0, 4>> >>)
ListGroupsVersion(c) ==
  Chain(c, 0, << <<V0_11_0_0, 1>>, <<V2_0_0_0, 2>>, <<V2_4_0_0, 3>>, <<V2_6_0_0, 4>> >>)

\* The administration requests with a second version since Kafka 2.0, and
\* SaslAuthenticate with one since 2.2.
SecondVersion(c) == Chain(c, 0, << <<V2_0_0_0, 1>> >>)
SaslAuthenticateVersion(c) == Chain(c, 0, << <<V2_2_0_0, 1>> >>)

\* Open asks for the API versions in version 3, from Kafka 2.4 on only.
ChosenVersion(a, c) ==
  CASE a = "Metadata" -> NewMetadataRequest(c)
    [] a = "OffsetFetch" -> NewOffsetFetchRequest(c)
    [] a = "OffsetCommit" -> OffsetCommitVersion(c)
    [] a = "Fetch" -> FetchVersion(c)
    [] a = "Produce" -> ProduceVersion(c)
    [] a = "ListOffsets" -> GetOffsetVersion(c)
    [] a = "FindCoordinator" -> FindCoordinatorVersion(c)
    [] a = "InitProducerID" -> InitProducerIDVersion(c)
    [] a = "JoinGroup" -> JoinGroupVersion(c)
    [] a = "SyncGroup" -> SyncGroupVersion(c)
    [] a = "Heartbeat" -> HeartbeatVersion(c)
    [] a = "LeaveGroup" -> LeaveGroupVersion(c)
    [] a = "AddOffsetsToTxn" -> AddOffsetsToTxnVersion(c)
    [] a = "TxnOffsetCommit" -> TxnOffsetCommitVersion(c)
    [] a = "EndTxn" -> EndTxnVersion(c)
    [] a = "AddPartitionsToTxn" -> AddPartitionsToTxnVersion(c)
    [] a = "CreateTopics" -> CreateTopicVersion(c)
    [] a = "DeleteTopics" -> DeleteTopicVersion(c)
    [] a = "DescribeConfigs" -> DescribeConfigVersion(c)
    [] a = "DescribeGroups" -> DescribeGroupsVersion(c)
    [] a = "ListGroups" -> ListGroupsVersion(c)
    [] a \in {"CreatePartitions", "DeleteRecords", "AlterConfigs", "CreateAcls", "DescribeAcls",
              "DeleteAcls", "DeleteGroups", "DescribeLogDirs"} -> SecondVersion(c)
    [] a = "SaslAuthenticate" -> SaslAuthenticateVersion(c)
    [] a = "ApiVersions" -> 3
    [] OTHER -> 0

Init ==
  /\ conf \in KafkaVersions /\ api \in Apis
  /\ ver = 0 /\ stage = "new"

\* The code that wants the call builds its request.
Build ==
  /\ stage = "new"
  /\ api = "ApiVersions" => IsAtLeast(conf, V2_4_0_0)
  /\ ver' = ChosenVersion(api, conf)
  /\ stage' = "built"
  /\ UNCHANGED <<conf, api>>

\* sendInternal: ErrUnsupportedVersion, or the request goes out.
SendInternal ==
  /\ stage = "built"
  /\ stage' = IF IsAtLeast(conf, Request(api, ver).required) THEN "sent" ELSE "refused"
  /\ UNCHANGED <<conf, api, ver>>

\* The client is restarted with a higher Config.Version.
Upgrade ==
  /\ conf' \in {c \in KafkaVersions : c > conf}
  /\ stage' = "new"
  /\ UNCHANGED <<api, ver>>

Next == Build \/ SendInternal \/ Upgrade

Spec == Init /\ [][Next]_vars

-----------------------------------------------------------------------------
\* The client never builds a request in a version that the request type itself calls
\* invalid.
VersionsExist == ver \in 0..Request(api, 0).last

\* The version check of sendInternal never stops a call for the version the client chose:
\* it refuses only what Config.Version does not allow in any version of the request.
RefusedOnlyIfUnsupported ==
  stage = "refused" => \A v \in 0..Request(api, 0).last : ~IsAtLeast(conf, Request(api, v).required)

=============================================================================
