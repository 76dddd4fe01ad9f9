------------------------------ MODULE Messages ------------------------------
(***************************************************************************)
(* All messages of the client: which request type belongs to an API, which *)
(* type the mock broker allocates for it, and which response type the      *)
(* methods of Broker decode the answer into.                               *)
(***************************************************************************)
EXTENDS CoreMessages, GroupMessages, AdminMessages, FiniteSets

CoreApis == {"Produce", "Fetch", "ListOffsets", "Metadata", "FindCoordinator",
             "ConsumerMetadata", "ApiVersions"}
GroupApis == {"OffsetCommit", "OffsetFetch", "JoinGroup", "SyncGroup", "LeaveGroup", "Heartbeat",
              "ListGroups", "DescribeGroups", "DeleteGroups", "DeleteOffsets"}
TxnApis == {"InitProducerID", "AddPartitionsToTxn", "AddOffsetsToTxn", "EndTxn", "TxnOffsetCommit"}
TopicApis == {"CreateTopics", "DeleteTopics", "CreatePartitions", "AlterPartitionReassignments",
              "ListPartitionReassignments", "DeleteRecords", "DescribeAcls", "CreateAcls", "DeleteAcls"}
ConfigApis == {"DescribeConfigs", "AlterConfigs", "IncrementalAlterConfigs", "DescribeLogDirs",
               "DescribeUserScramCredentials", "AlterUserScramCredentials", "DescribeClientQuotas",
               "AlterClientQuotas"}
SaslApis == {"SaslHandshake", "SaslAuthenticate"}
AllApis == CoreApis \cup GroupApis \cup TxnApis \cup TopicApis \cup ConfigApis \cup SaslApis

CoreRequest(api, v) ==
  CASE api = "Produce" -> ProduceRequest(v)
    [] api = "Fetch" -> FetchRequest(v)
    [] api = "ListOffsets" -> OffsetRequest(v)
    [] api = "Metadata" -> MetadataRequest(v)
    [] api = "FindCoordinator" -> FindCoordinatorRequest(v)
    [] api = "ConsumerMetadata" -> ConsumerMetadataRequest(v)
    [] api = "ApiVersions" -> ApiVersionsRequest(v)
GroupRequest(api, v) ==
  CASE api = "OffsetCommit" -> OffsetCommitRequest(v)
    [] api = "OffsetFetch" -> OffsetFetchRequest(v)
    [] api = "JoinGroup" -> JoinGroupRequest(v)
    [] api = "SyncGroup" -> SyncGroupRequest(v)
    [] api = "LeaveGroup" -> LeaveGroupRequest(v)
    [] api = "Heartbeat" -> HeartbeatRequest(v)
    [] api = "ListGroups" -> ListGroupsRequest(v)
    [] api = "DescribeGroups" -> DescribeGroupsRequest(v)
    [] api = "DeleteGroups" -> DeleteGroupsRequest(v)
    [] api = "DeleteOffsets" -> DeleteOffsetsRequest(v)
TxnRequest(api, v) ==
  CASE api = "InitProducerID" -> InitProducerIDRequest(v)
    [] api = "AddPartitionsToTxn" -> AddPartitionsToTxnRequest(v)
    [] api = "AddOffsetsToTxn" -> AddOffsetsToTxnRequest(v)
    [] api = "EndTxn" -> EndTxnRequest(v)
    [] api = "TxnOffsetCommit" -> TxnOffsetCommitRequest(v)
TopicRequest(api, v) ==
  CASE api = "CreateTopics" -> CreateTopicsRequest(v)
    [] api = "DeleteTopics" -> DeleteTopicsRequest(v)
    [] api = "CreatePartitions" -> CreatePartitionsRequest(v)
    [] api = "AlterPartitionReassignments" -> AlterPartitionReassignmentsRequest(v)
    [] api = "ListPartitionReassignments" -> ListPartitionReassignmentsRequest(v)
    [] api = "DeleteRecords" -> DeleteRecordsRequest(v)
    [] api = "DescribeAcls" -> DescribeAclsRequest(v)
    [] api = "CreateAcls" -> CreateAclsRequest(v)
    [] api = "DeleteAcls" -> DeleteAclsRequest(v)
ConfigRequest(api, v) ==
  CASE api = "DescribeConfigs" -> DescribeConfigsRequest(v)
    [] api = "AlterConfigs" -> AlterConfigsRequest(v)
    [] api = "IncrementalAlterConfigs" -> IncrementalAlterConfigsRequest(v)
    [] api = "DescribeLogDirs" -> DescribeLogDirsRequest(v)
    [] api = "DescribeUserScramCredentials" -> DescribeUserScramCredentialsRequest(v)
    [] api = "AlterUserScramCredentials" -> AlterUserScramCredentialsRequest(v)
    [] api = "DescribeClientQuotas" -> DescribeClientQuotasRequest(v)
    [] api = "AlterClientQuotas" -> AlterClientQuotasRequest(v)
    [] api = "SaslHandshake" -> SaslHandshakeRequest(v)
    [] api = "SaslAuthenticate" -> SaslAuthenticateRequest(v)

Request(api, v) ==
  CASE api \in CoreApis -> CoreRequest(api, v)
    [] api \in GroupApis -> GroupRequest(api, v)
    [] api \in TxnApis -> TxnRequest(api, v)
    [] api \in TopicApis -> TopicRequest(api, v)
    [] OTHER -> ConfigRequest(api, v)

\* allocateBody goes by the key alone: a ConsumerMetadata request is decoded as the
\* FindCoordinator request whose key it shares.
AllocateBody(key, v) ==
  Request(CHOOSE api \in AllApis \ {"ConsumerMetadata"} : Request(api, v).key = key, v)

\* The response type of the Broker method, at the version given.
CoreResponse(api, v) ==
  CASE api = "Metadata" -> MetadataResponse(v)
    [] api = "ConsumerMetadata" -> ConsumerMetadataResponse(v)
    [] api = "FindCoordinator" -> FindCoordinatorResponse(v)
    [] api = "ListOffsets" -> OffsetResponse(v)
    [] api = "Produce" -> ProduceResponse(v)
    [] api = "Fetch" -> FetchResponse(v)
    [] api = "ApiVersions" -> ApiVersionsResponse(v)
GroupResponse(api, v) ==
  CASE api = "OffsetCommit" -> OffsetCommitResponse(v)
    [] api = "OffsetFetch" -> OffsetFetchResponse(v)
    [] api = "JoinGroup" -> JoinGroupResponse(v)
    [] api = "SyncGroup" -> SyncGroupResponse(v)
    [] api = "LeaveGroup" -> LeaveGroupResponse(v)
    [] api = "Heartbeat" -> HeartbeatResponse(v)
    [] api = "ListGroups" -> ListGroupsResponse(v)
    [] api = "DescribeGroups" -> DescribeGroupsResponse(v)
    [] api = "DeleteGroups" -> DeleteGroupsResponse(v)
    [] api = "DeleteOffsets" -> DeleteOffsetsResponse(v)
TxnResponse(api, v) ==
  CASE api = "InitProducerID" -> InitProducerIDResponse(v)
    [] api = "AddPartitionsToTxn" -> AddPartitionsToTxnResponse(v)
    [] api = "AddOffsetsToTxn" -> AddOffsetsToTxnResponse(v)
    [] api = "EndTxn" -> EndTxnResponse(v)
    [] api = "TxnOffsetCommit" -> TxnOffsetCommitResponse(v)
TopicResponse(api, v) ==
  CASE api = "CreateTopics" -> CreateTopicsResponse(v)
    [] api = "DeleteTopics" -> DeleteTopicsResponse(v)
    [] api = "CreatePartitions" -> CreatePartitionsResponse(v)
    [] api = "AlterPartitionReassignments" -> AlterPartitionReassignmentsResponse(v)
    [] api = "ListPartitionReassignments" -> ListPartitionReassignmentsResponse(v)
    [] api = "DeleteRecords" -> DeleteRecordsResponse(v)
    [] api = "DescribeAcls" -> DescribeAclsResponse(v)
    [] api = "CreateAcls" -> CreateAclsResponse(v)
    [] api = "DeleteAcls" -> DeleteAclsResponse(v)
ConfigResponse(api, v) ==
  CASE api = "DescribeConfigs" -> DescribeConfigsResponse(v)
    [] api = "AlterConfigs" -> AlterConfigsResponse(v)
    [] api = "IncrementalAlterConfigs" -> IncrementalAlterConfigsResponse(v)
    [] api = "DescribeLogDirs" -> DescribeLogDirsResponse(v)
    [] api = "DescribeUserScramCredentials" -> DescribeUserScramCredentialsResponse(v)
    [] api = "AlterUserScramCredentials" -> AlterUserScramCredentialsResponse(v)
    [] api = "DescribeClientQuotas" -> DescribeClientQuotasResponse(v)
    [] api = "AlterClientQuotas" -> AlterClientQuotasResponse(v)
    [] api = "SaslHandshake" -> SaslHandshakeResponse(v)
    [] api = "SaslAuthenticate" -> SaslAuthenticateResponse(v)

Response(api, v) ==
  CASE api \in CoreApis -> CoreResponse(api, v)
    [] api \in GroupApis -> GroupResponse(api, v)
    [] api \in TxnApis -> TxnResponse(api, v)
    [] api \in TopicApis -> TopicResponse(api, v)
    [] OTHER -> ConfigResponse(api, v)
=============================================================================
