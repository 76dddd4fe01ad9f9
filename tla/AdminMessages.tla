--------------------------- MODULE AdminMessages ----------------------------
(***************************************************************************)
(* The messages of the cluster administration: topics, partitions,         *)
(* records, access control lists, configurations, quotas, credentials,     *)
(* reassignments and log directories; and the two of SASL.                 *)
(***************************************************************************)
EXTENDS Wire

SaslHandshakeRequestEncode(v) == Str("Mechanism")
SaslHandshakeRequestDecode(v) == Str("Mechanism")
SaslHandshakeRequest(v) ==
  Message(17, 1, 1, Required(v, <<V0_10_0_0, V1_0_0_0>>, V0_10_0_0),
          SaslHandshakeRequestEncode(v), SaslHandshakeRequestDecode(v))

SaslHandshakeResponseEncode(v) == I16("Err") \o Arr("EnabledMechanisms", Str("EnabledMechanisms"))
SaslHandshakeResponseDecode(v) == I16("Err") \o Arr("EnabledMechanisms", Str("EnabledMechanisms"))
SaslHandshakeResponse(v) ==
  Message(17, 1, 0, Required(v, <<V0_10_0_0, V1_0_0_0>>, V0_10_0_0),
          SaslHandshakeResponseEncode(v), SaslHandshakeResponseDecode(v))

SaslAuthenticateRequestEncode(v) == Bytes("SaslAuthBytes")
SaslAuthenticateRequestDecode(v) == Bytes("SaslAuthBytes")
SaslAuthenticateRequest(v) ==
  Message(36, 1, 1, Required(v, <<V1_0_0_0, V2_2_0_0>>, V1_0_0_0),
          SaslAuthenticateRequestEncode(v), SaslAuthenticateRequestDecode(v))

SaslAuthenticateResponseEncode(v) ==
  I16("Err") \o NStr("ErrorMessage") \o Bytes("SaslAuthBytes") \o When(v > 0, I64("SessionLifetimeMs"))
SaslAuthenticateResponseDecode(v) ==
  I16("Err") \o NStr("ErrorMessage") \o Bytes("SaslAuthBytes") \o When(v > 0, I64("SessionLifetimeMs"))
SaslAuthenticateResponse(v) ==
  Message(36, 1, 0, Required(v, <<V1_0_0_0, V2_2_0_0>>, V1_0_0_0),
          SaslAuthenticateResponseEncode(v), SaslAuthenticateResponseDecode(v))

-----------------------------------------------------------------------------
TopicDetailEncode ==
  I32("NumPartitions") \o I16("ReplicationFactor")
  \o Arr("ReplicaAssignment", I32("partition") \o Arr("assignment", I32("assignment")))
  \o Arr("ConfigEntries", Str("configKey") \o NStr("configValue"))
TopicDetailDecode ==
  I32("NumPartitions") \o I16("ReplicationFactor")
  \o NArr("ReplicaAssignment", I32("partition") \o NArr("assignment", I32("assignment")))
  \o NArr("ConfigEntries", Str("configKey") \o NStr("configValue"))

CreateTopicsRequestEncode(v) ==
  Arr("TopicDetails", Str("topic") \o TopicDetailEncode) \o I32("Timeout")
  \o When(v >= 1, Bool("ValidateOnly"))
CreateTopicsRequestDecode(v) ==
  Arr("TopicDetails", Str("topic") \o TopicDetailDecode) \o I32("Timeout")
  \o When(v >= 1, Bool("ValidateOnly"))
CreateTopicsRequest(v) ==
  Message(19, 3, 1, Required(v, <<V0_10_1_0, V0_10_2_0, V0_11_0_0, V2_0_0_0>>, V2_8_0_0),
          CreateTopicsRequestEncode(v), CreateTopicsRequestDecode(v))

TopicErrorEncode(v) == I16("Err") \o When(v >= 1, NStr("ErrMsg"))
TopicErrorDecode(v) == I16("Err") \o When(v >= 1, NStr("ErrMsg"))

CreateTopicsResponseEncode(v) ==
  When(v >= 2, I32("ThrottleTime")) \o Arr("TopicErrors", Str("topic") \o TopicErrorEncode(v))
CreateTopicsResponseDecode(v) ==
  When(v >= 2, I32("ThrottleTime")) \o Arr("TopicErrors", Str("topic") \o TopicErrorDecode(v))
CreateTopicsResponse(v) ==
  Message(19, 3, 0, Required(v, <<V0_10_1_0, V0_10_2_0, V0_11_0_0, V2_0_0_0>>, V2_8_0_0),
          CreateTopicsResponseEncode(v), CreateTopicsResponseDecode(v))

DeleteTopicsRequestEncode(v) == Arr("Topics", Str("Topics")) \o I32("Timeout")
DeleteTopicsRequestDecode(v) == Arr("Topics", Str("Topics")) \o I32("Timeout")
DeleteTopicsRequest(v) ==
  Message(20, 3, 1, Required(v, <<V0_10_1_0, V0_11_0_0, V2_0_0_0, V2_1_0_0>>, V2_2_0_0),
          DeleteTopicsRequestEncode(v), DeleteTopicsRequestDecode(v))

DeleteTopicsResponseEncode(v) ==
  When(v >= 1, I32("ThrottleTime")) \o Arr("TopicErrorCodes", Str("topic") \o I16("errorCode"))
DeleteTopicsResponseDecode(v) ==
  When(v >= 1, I32("ThrottleTime")) \o Arr("TopicErrorCodes", Str("topic") \o I16("errorCode"))
DeleteTopicsResponse(v) ==
  Message(20, 3, 0, Required(v, <<V0_10_1_0, V0_11_0_0, V2_0_0_0, V2_1_0_0>>, V2_2_0_0),
          DeleteTopicsResponseEncode(v), DeleteTopicsResponseDecode(v))

TopicPartitionEncode ==
  I32("Count") \o EArr("Assignment", Arr("assign", I32("assign")))
TopicPartitionDecode ==
  I32("Count") \o NArr("Assignment", NArr("assign", I32("assign")))

CreatePartitionsRequestEncode(v) ==
  Arr("TopicPartitions", Str("topic") \o TopicPartitionEncode) \o I32("Timeout") \o Bool("ValidateOnly")
CreatePartitionsRequestDecode(v) ==
  Arr("TopicPartitions", Str("topic") \o TopicPartitionDecode) \o I32("Timeout") \o Bool("ValidateOnly")
CreatePartitionsRequest(v) ==
  Message(37, 1, 1, Required(v, <<V1_0_0_0, V2_0_0_0>>, V2_0_0_0),
          CreatePartitionsRequestEncode(v), CreatePartitionsRequestDecode(v))

TopicPartitionErrorEncode == I16("Err") \o NStr("ErrMsg")
TopicPartitionErrorDecode == I16("Err") \o NStr("ErrMsg")

CreatePartitionsResponseEncode(v) ==
  I32("ThrottleTime") \o Arr("TopicPartitionErrors", Str("topic") \o TopicPartitionErrorEncode)
CreatePartitionsResponseDecode(v) ==
  I32("ThrottleTime") \o Arr("TopicPartitionErrors", Str("topic") \o TopicPartitionErrorDecode)
CreatePartitionsResponse(v) ==
  Message(37, 1, 0, Required(v, <<V1_0_0_0, V2_0_0_0>>, V2_0_0_0),
          CreatePartitionsResponseEncode(v), CreatePartitionsResponseDecode(v))

DeleteRecordsRequestTopicEncode == Arr("PartitionOffsets", I32("partition") \o I64("offset"))
DeleteRecordsRequestTopicDecode == NArr("PartitionOffsets", I32("partition") \o I64("offset"))

DeleteRecordsRequestEncode(v) ==
  Arr("Topics", Str("topic") \o DeleteRecordsRequestTopicEncode) \o I32("Timeout")
DeleteRecordsRequestDecode(v) ==
  NArr("Topics", Str("topic") \o DeleteRecordsRequestTopicDecode) \o I32("Timeout")
DeleteRecordsRequest(v) ==
  Message(21, 1, 1, Required(v, <<V0_11_0_0, V2_0_0_0>>, V0_11_0_0),
          DeleteRecordsRequestEncode(v), DeleteRecordsRequestDecode(v))

DeleteRecordsResponsePartitionEncode == I64("LowWatermark") \o I16("Err")
DeleteRecordsResponsePartitionDecode == I64("LowWatermark") \o I16("Err")

DeleteRecordsResponseTopicEncode ==
  Arr("Partitions", I32("partition") \o DeleteRecordsResponsePartitionEncode)
DeleteRecordsResponseTopicDecode ==
  NArr("Partitions", I32("partition") \o DeleteRecordsResponsePartitionDecode)

DeleteRecordsResponseEncode(v) ==
  I32("ThrottleTime") \o Arr("Topics", Str("topic") \o DeleteRecordsResponseTopicEncode)
DeleteRecordsResponseDecode(v) ==
  I32("ThrottleTime") \o NArr("Topics", Str("topic") \o DeleteRecordsResponseTopicDecode)
DeleteRecordsResponse(v) ==
  Message(21, 1, 0, Required(v, <<V0_11_0_0, V2_0_0_0>>, V0_11_0_0),
          DeleteRecordsResponseEncode(v), DeleteRecordsResponseDecode(v))

-----------------------------------------------------------------------------
ResourceEncode(v) ==
  I8("ResourceType") \o Str("ResourceName") \o When(v = 1, I8("ResourcePatternType"))
ResourceDecode(v) ==
  I8("ResourceType") \o Str("ResourceName") \o When(v = 1, I8("ResourcePatternType"))

AclEncode == Str("Principal") \o Str("Host") \o I8("Operation") \o I8("PermissionType")
AclDecode == Str("Principal") \o Str("Host") \o I8("Operation") \o I8("PermissionType")

ResourceAclsEncode(v) == ResourceEncode(v) \o Arr("Acls", AclEncode)
ResourceAclsDecode(v) == ResourceDecode(v) \o Arr("Acls", AclDecode)

\* The filter carries its own Version, which the request's encode and decode set first.
AclFilterEncode(v) ==
  I8("ResourceType") \o NStr("ResourceName") \o When(v = 1, I8("ResourcePatternTypeFilter"))
  \o NStr("Principal") \o NStr("Host") \o I8("Operation") \o I8("PermissionType")
AclFilterDecode(v) ==
  I8("ResourceType") \o NStr("ResourceName") \o When(v = 1, I8("ResourcePatternTypeFilter"))
  \o NStr("Principal") \o NStr("Host") \o I8("Operation") \o I8("PermissionType")

AclCreationEncode(v) == ResourceEncode(v) \o AclEncode
AclCreationDecode(v) == ResourceDecode(v) \o AclDecode

CreateAclsRequestEncode(v) == Arr("AclCreations", AclCreationEncode(v))
CreateAclsRequestDecode(v) == Arr("AclCreations", AclCreationDecode(v))
CreateAclsRequest(v) ==
  Message(30, 1, 1, Required(v, <<V0_11_0_0, V2_0_0_0>>, V0_11_0_0),
          CreateAclsRequestEncode(v), CreateAclsRequestDecode(v))

AclCreationResponseEncode == I16("Err") \o NStr("ErrMsg")
AclCreationResponseDecode == I16("Err") \o NStr("ErrMsg")

CreateAclsResponseEncode(v) ==
  I32("ThrottleTime") \o Arr("AclCreationResponses", AclCreationResponseEncode)
CreateAclsResponseDecode(v) ==
  I32("ThrottleTime") \o Arr("AclCreationResponses", AclCreationResponseDecode)
CreateAclsResponse(v) ==
  Message(30, 1, 0, Required(v, <<V0_11_0_0, V2_0_0_0>>, V0_11_0_0),
          CreateAclsResponseEncode(v), CreateAclsResponseDecode(v))

DescribeAclsRequestEncode(v) == AclFilterEncode(v)
DescribeAclsRequestDecode(v) == AclFilterDecode(v)
DescribeAclsRequest(v) ==
  Message(29, 1, 1, Required(v, <<V0_11_0_0, V2_0_0_0>>, V0_11_0_0),
          DescribeAclsRequestEncode(v), DescribeAclsRequestDecode(v))

\* decode reads the error message with getString, for which null is the empty string.
DescribeAclsResponseEncode(v) ==
  I32("ThrottleTime") \o I16("Err") \o NStr("ErrMsg") \o Arr("ResourceAcls", ResourceAclsEncode(v))
DescribeAclsResponseDecode(v) ==
  I32("ThrottleTime") \o I16("Err") \o NStr("ErrMsg") \o Arr("ResourceAcls", ResourceAclsDecode(v))
DescribeAclsResponse(v) ==
  Message(29, 1, 0, Required(v, <<V0_11_0_0, V2_0_0_0>>, V0_11_0_0),
          DescribeAclsResponseEncode(v), DescribeAclsResponseDecode(v))

DeleteAclsRequestEncode(v) == Arr("Filters", AclFilterEncode(v))
DeleteAclsRequestDecode(v) == Arr("Filters", AclFilterDecode(v))
DeleteAclsRequest(v) ==
  Message(31, 1, 1, Required(v, <<V0_11_0_0, V2_0_0_0>>, V0_11_0_0),
          DeleteAclsRequestEncode(v), DeleteAclsRequestDecode(v))

MatchingAclEncode(v) == I16("Err") \o NStr("ErrMsg") \o ResourceEncode(v) \o AclEncode
MatchingAclDecode(v) == I16("Err") \o NStr("ErrMsg") \o ResourceDecode(v) \o AclDecode

FilterResponseEncode(v) ==
  I16("Err") \o NStr("ErrMsg") \o Arr("MatchingAcls", MatchingAclEncode(v))
FilterResponseDecode(v) ==
  I16("Err") \o NStr("ErrMsg") \o Arr("MatchingAcls", MatchingAclDecode(v))

DeleteAclsResponseEncode(v) == I32("ThrottleTime") \o Arr("FilterResponses", FilterResponseEncode(v))
DeleteAclsResponseDecode(v) == I32("ThrottleTime") \o Arr("FilterResponses", FilterResponseDecode(v))
DeleteAclsResponse(v) ==
  Message(31, 1, 0, Required(v, <<V0_11_0_0, V2_0_0_0>>, V0_11_0_0),
          DeleteAclsResponseEncode(v), DeleteAclsResponseDecode(v))

-----------------------------------------------------------------------------
\* No configuration names means all of them and is written as null.
DescribeConfigsRequestEncode(v) ==
  Arr("Resources", I8("Type") \o Str("Name") \o EArr("ConfigNames", Str("ConfigNames")))
  \o When(v >= 1, Bool("IncludeSynonyms"))
DescribeConfigsRequestDecode(v) ==
  Arr("Resources", I8("Type") \o Str("Name") \o NArr("ConfigNames", Str("ConfigNames")))
  \o When(v >= 1, Bool("IncludeSynonyms"))
DescribeConfigsRequest(v) ==
  Message(32, 2, 1, Required(v, <<V0_11_0_0, V1_1_0_0, V2_0_0_0>>, V2_0_0_0),
          DescribeConfigsRequestEncode(v), DescribeConfigsRequestDecode(v))

ConfigSynonymEncode == Str("ConfigName") \o Str("ConfigValue") \o I8("Source")
ConfigSynonymDecode == Str("ConfigName") \o Str("ConfigValue") \o I8("Source")

ConfigEntryEncode(v) ==
  Str("Name") \o Str("Value") \o Bool("ReadOnly")
  \o (IF v <= 0 THEN Bool("Default") \o Bool("Sensitive")
      ELSE I8("Source") \o Bool("Sensitive") \o Arr("Synonyms", ConfigSynonymEncode))
ConfigEntryDecode(v) ==
  Str("Name") \o Str("Value") \o Bool("ReadOnly")
  \o (IF v = 0 THEN Bool("Default") ELSE I8("Source")) \o Bool("Sensitive")
  \o When(v > 0, Arr("Synonyms", ConfigSynonymDecode))

ResourceResponseEncode(v) ==
  I16("ErrorCode") \o Str("ErrorMsg") \o I8("Type") \o Str("Name")
  \o Arr("Configs", ConfigEntryEncode(v))
ResourceResponseDecode(v) ==
  I16("ErrorCode") \o Str("ErrorMsg") \o I8("Type") \o Str("Name")
  \o Arr("Configs", ConfigEntryDecode(v))

DescribeConfigsResponseEncode(v) ==
  I32("ThrottleTime") \o Arr("Resources", ResourceResponseEncode(v))
DescribeConfigsResponseDecode(v) ==
  I32("ThrottleTime") \o Arr("Resources", ResourceResponseDecode(v))
DescribeConfigsResponse(v) ==
  Message(32, 2, 0, Required(v, <<V0_11_0_0, V1_1_0_0, V2_0_0_0>>, V2_0_0_0),
          DescribeConfigsResponseEncode(v), DescribeConfigsResponseDecode(v))

AlterConfigsResourceEncode ==
  I8("Type") \o Str("Name") \o Arr("ConfigEntries", Str("configKey") \o NStr("configValue"))
AlterConfigsResourceDecode ==
  I8("Type") \o Str("Name") \o NArr("ConfigEntries", Str("configKey") \o NStr("configValue"))

AlterConfigsRequestEncode(v) ==
  Arr("Resources", AlterConfigsResourceEncode) \o Bool("ValidateOnly")
AlterConfigsRequestDecode(v) ==
  Arr("Resources", AlterConfigsResourceDecode) \o Bool("ValidateOnly")
AlterConfigsRequest(v) ==
  Message(33, 1, 1, Required(v, <<V0_11_0_0, V2_0_0_0>>, V2_0_0_0),
          AlterConfigsRequestEncode(v), AlterConfigsRequestDecode(v))

AlterConfigsResourceResponseEncode == I16("ErrorCode") \o Str("ErrorMsg") \o I8("Type") \o Str("Name")
AlterConfigsResourceResponseDecode == I16("ErrorCode") \o Str("ErrorMsg") \o I8("Type") \o Str("Name")

AlterConfigsResponseEncode(v) ==
  I32("ThrottleTime") \o Arr("Resources", AlterConfigsResourceResponseEncode)
AlterConfigsResponseDecode(v) ==
  I32("ThrottleTime") \o Arr("Resources", AlterConfigsResourceResponseDecode)
AlterConfigsResponse(v) ==
  Message(33, 1, 0, Required(v, <<V0_11_0_0, V2_0_0_0>>, V2_0_0_0),
          AlterConfigsResponseEncode(v), AlterConfigsResponseDecode(v))

IncrementalAlterConfigsEntryEncode == I8("Operation") \o NStr("Value")
IncrementalAlterConfigsEntryDecode == I8("Operation") \o NStr("Value")

IncrementalAlterConfigsResourceEncode ==
  I8("Type") \o Str("Name") \o Arr("ConfigEntries", Str("name") \o IncrementalAlterConfigsEntryEncode)
IncrementalAlterConfigsResourceDecode ==
  I8("Type") \o Str("Name") \o NArr("ConfigEntries", Str("name") \o IncrementalAlterConfigsEntryDecode)

IncrementalAlterConfigsRequestEncode(v) ==
  Arr("Resources", IncrementalAlterConfigsResourceEncode) \o Bool("ValidateOnly")
IncrementalAlterConfigsRequestDecode(v) ==
  Arr("Resources", IncrementalAlterConfigsResourceDecode) \o Bool("ValidateOnly")
IncrementalAlterConfigsRequest(v) ==
  Message(44, 0, 1, V2_3_0_0,
          IncrementalAlterConfigsRequestEncode(v), IncrementalAlterConfigsRequestDecode(v))

IncrementalAlterConfigsResponseEncode(v) ==
  I32("ThrottleTime") \o Arr("Resources", AlterConfigsResourceResponseEncode)
IncrementalAlterConfigsResponseDecode(v) ==
  I32("ThrottleTime") \o Arr("Resources", AlterConfigsResourceResponseDecode)
IncrementalAlterConfigsResponse(v) ==
  Message(44, 0, 0, V2_3_0_0,
          IncrementalAlterConfigsResponseEncode(v), IncrementalAlterConfigsResponseDecode(v))

-----------------------------------------------------------------------------
\* Any name at all is matched by null, the default by the empty string.
QuotaFilterComponentEncode == Str("EntityType") \o I8("MatchType") \o NStr("Match")
QuotaFilterComponentDecode == Str("EntityType") \o I8("MatchType") \o NStr("Match")

DescribeClientQuotasRequestEncode(v) == Arr("Components", QuotaFilterComponentEncode) \o Bool("Strict")
DescribeClientQuotasRequestDecode(v) == NArr("Components", QuotaFilterComponentDecode) \o Bool("Strict")
DescribeClientQuotasRequest(v) ==
  Message(48, 0, 1, V2_6_0_0,
          DescribeClientQuotasRequestEncode(v), DescribeClientQuotasRequestDecode(v))

\* The default entity is written without a name.
QuotaEntityComponentEncode == Str("EntityType") \o NStr("Name")
QuotaEntityComponentDecode == Str("EntityType") \o NStr("Name")

DescribeClientQuotasEntryEncode ==
  Arr("Entity", QuotaEntityComponentEncode) \o Arr("Values", Str("key") \o F64("value"))
DescribeClientQuotasEntryDecode ==
  NArr("Entity", QuotaEntityComponentDecode) \o NArr("Values", Str("key") \o F64("value"))

DescribeClientQuotasResponseEncode(v) ==
  I32("ThrottleTime") \o I16("ErrorCode") \o NStr("ErrorMsg")
  \o Arr("Entries", DescribeClientQuotasEntryEncode)
DescribeClientQuotasResponseDecode(v) ==
  I32("ThrottleTime") \o I16("ErrorCode") \o NStr("ErrorMsg")
  \o NArr("Entries", DescribeClientQuotasEntryDecode)
DescribeClientQuotasResponse(v) ==
  Message(48, 0, 0, V2_6_0_0,
          DescribeClientQuotasResponseEncode(v), DescribeClientQuotasResponseDecode(v))

ClientQuotasOpEncode == Str("Key") \o F64("Value") \o Bool("Remove")
ClientQuotasOpDecode == Str("Key") \o F64("Value") \o Bool("Remove")

AlterClientQuotasEntryEncode ==
  Arr("Entity", QuotaEntityComponentEncode) \o Arr("Ops", ClientQuotasOpEncode)
AlterClientQuotasEntryDecode ==
  NArr("Entity", QuotaEntityComponentDecode) \o NArr("Ops", ClientQuotasOpDecode)

AlterClientQuotasRequestEncode(v) ==
  Arr("Entries", AlterClientQuotasEntryEncode) \o Bool("ValidateOnly")
AlterClientQuotasRequestDecode(v) ==
  NArr("Entries", AlterClientQuotasEntryDecode) \o Bool("ValidateOnly")
AlterClientQuotasRequest(v) ==
  Message(49, 0, 1, V2_6_0_0,
          AlterClientQuotasRequestEncode(v), AlterClientQuotasRequestDecode(v))

AlterClientQuotasEntryResponseEncode ==
  I16("ErrorCode") \o NStr("ErrorMsg") \o Arr("Entity", QuotaEntityComponentEncode)
AlterClientQuotasEntryResponseDecode ==
  I16("ErrorCode") \o NStr("ErrorMsg") \o NArr("Entity", QuotaEntityComponentDecode)

AlterClientQuotasResponseEncode(v) ==
  I32("ThrottleTime") \o Arr("Entries", AlterClientQuotasEntryResponseEncode)
AlterClientQuotasResponseDecode(v) ==
  I32("ThrottleTime") \o NArr("Entries", AlterClientQuotasEntryResponseDecode)
AlterClientQuotasResponse(v) ==
  Message(49, 0, 0, V2_6_0_0,
          AlterClientQuotasResponseEncode(v), AlterClientQuotasResponseDecode(v))

-----------------------------------------------------------------------------
DescribeUserScramCredentialsRequestEncode(v) ==
  CArr("DescribeUsers", CStr("Name") \o Tags) \o Tags
DescribeUserScramCredentialsRequestDecode(v) ==
  NCArr("DescribeUsers", CStr("Name") \o Tags) \o Tags
DescribeUserScramCredentialsRequest(v) ==
  Message(50, 0, 2, V2_7_0_0,
          DescribeUserScramCredentialsRequestEncode(v), DescribeUserScramCredentialsRequestDecode(v))

DescribeUserScramCredentialsResponseEncode(v) ==
  I32("ThrottleTime") \o I16("ErrorCode") \o NCStr("ErrorMessage")
  \o CArr("Results", CStr("User") \o I16("ErrorCode") \o NCStr("ErrorMessage")
                     \o CArr("CredentialInfos", I8("Mechanism") \o I32("Iterations") \o Tags) \o Tags)
  \o Tags
DescribeUserScramCredentialsResponseDecode(v) ==
  I32("ThrottleTime") \o I16("ErrorCode") \o NCStr("ErrorMessage")
  \o NCArr("Results", CStr("User") \o I16("ErrorCode") \o NCStr("ErrorMessage")
                      \o NCArr("CredentialInfos", I8("Mechanism") \o I32("Iterations") \o Tags) \o Tags)
  \o Tags
DescribeUserScramCredentialsResponse(v) ==
  Message(50, 0, 2, V2_7_0_0,
          DescribeUserScramCredentialsResponseEncode(v), DescribeUserScramCredentialsResponseDecode(v))

AlterUserScramCredentialsRequestEncode(v) ==
  CArr("Deletions", CStr("Name") \o I8("Mechanism") \o Tags)
  \o CArr("Upsertions", CStr("Name") \o I8("Mechanism") \o I32("Iterations") \o CBytes("Salt")
                        \o CBytes("saltedPassword") \o Tags)
  \o Tags
AlterUserScramCredentialsRequestDecode(v) ==
  NCArr("Deletions", CStr("Name") \o I8("Mechanism") \o Tags)
  \o NCArr("Upsertions", CStr("Name") \o I8("Mechanism") \o I32("Iterations") \o CBytes("Salt")
                         \o CBytes("saltedPassword") \o Tags)
  \o Tags
AlterUserScramCredentialsRequest(v) ==
  Message(51, 0, 2, V2_7_0_0,
          AlterUserScramCredentialsRequestEncode(v), AlterUserScramCredentialsRequestDecode(v))

AlterUserScramCredentialsResponseEncode(v) ==
  I32("ThrottleTime")
  \o CArr("Results", CStr("User") \o I16("ErrorCode") \o NCStr("ErrorMessage") \o Tags) \o Tags
AlterUserScramCredentialsResponseDecode(v) ==
  I32("ThrottleTime")
  \o NCArr("Results", CStr("User") \o I16("ErrorCode") \o NCStr("ErrorMessage") \o Tags) \o Tags
AlterUserScramCredentialsResponse(v) ==
  Message(51, 0, 2, V2_7_0_0,
          AlterUserScramCredentialsResponseEncode(v), AlterUserScramCredentialsResponseDecode(v))

-----------------------------------------------------------------------------
\* No replicas (nil) cancels a reassignment.  The tagged fields of a block are
\* written by the block and read by the request.
AlterPartitionReassignmentsBlockEncode == NCArr("replicas", I32("replicas")) \o Tags
AlterPartitionReassignmentsBlockDecode == NCArr("replicas", I32("replicas"))

AlterPartitionReassignmentsRequestEncode(v) ==
  I32("TimeoutMs")
  \o CArr("blocks", CStr("topic")
            \o CArr("partitions", I32("partition") \o AlterPartitionReassignmentsBlockEncode) \o Tags)
  \o Tags
AlterPartitionReassignmentsRequestDecode(v) ==
  I32("TimeoutMs")
  \o NCArr("blocks", CStr("topic")
             \o NCArr("partitions", I32("partition") \o AlterPartitionReassignmentsBlockDecode \o Tags)
             \o Tags)
  \o Tags
AlterPartitionReassignmentsRequest(v) ==
  Message(45, 0, 2, V2_4_0_0,
          AlterPartitionReassignmentsRequestEncode(v), AlterPartitionReassignmentsRequestDecode(v))

AlterPartitionReassignmentsErrorBlockEncode == I16("errorCode") \o NCStr("errorMessage") \o Tags
AlterPartitionReassignmentsErrorBlockDecode == I16("errorCode") \o NCStr("errorMessage") \o Tags

AlterPartitionReassignmentsResponseEncode(v) ==
  I32("ThrottleTimeMs") \o I16("ErrorCode") \o NCStr("ErrorMessage")
  \o CArr("Errors", CStr("topic")
            \o CArr("partitions", I32("partition") \o AlterPartitionReassignmentsErrorBlockEncode)
            \o Tags)
  \o Tags
AlterPartitionReassignmentsResponseDecode(v) ==
  I32("ThrottleTimeMs") \o I16("ErrorCode") \o NCStr("ErrorMessage")
  \o NCArr("Errors", CStr("topic")
             \o NCArr("partitions", I32("partition") \o AlterPartitionReassignmentsErrorBlockDecode)
             \o Tags)
  \o Tags
AlterPartitionReassignmentsResponse(v) ==
  Message(45, 0, 1, V2_4_0_0,
          AlterPartitionReassignmentsResponseEncode(v), AlterPartitionReassignmentsResponseDecode(v))

ListPartitionReassignmentsRequestEncode(v) ==
  I32("TimeoutMs")
  \o CArr("blocks", CStr("topic") \o CArr("partitions", I32("partition")) \o Tags) \o Tags
ListPartitionReassignmentsRequestDecode(v) ==
  I32("TimeoutMs")
  \o NCArr("blocks", CStr("topic") \o NCArr("partitions", I32("partition")) \o Tags) \o Tags
ListPartitionReassignmentsRequest(v) ==
  Message(46, 0, 2, V2_4_0_0,
          ListPartitionReassignmentsRequestEncode(v), ListPartitionReassignmentsRequestDecode(v))

PartitionReplicaReassignmentsStatusEncode ==
  CArr("Replicas", I32("Replicas")) \o CArr("AddingReplicas", I32("AddingReplicas"))
  \o CArr("RemovingReplicas", I32("RemovingReplicas")) \o Tags
PartitionReplicaReassignmentsStatusDecode ==
  NCArr("Replicas", I32("Replicas")) \o NCArr("AddingReplicas", I32("AddingReplicas"))
  \o NCArr("RemovingReplicas", I32("RemovingReplicas")) \o Tags

ListPartitionReassignmentsResponseEncode(v) ==
  I32("ThrottleTimeMs") \o I16("ErrorCode") \o NCStr("ErrorMessage")
  \o CArr("TopicStatus", CStr("topic")
            \o CArr("partitions", I32("partition") \o PartitionReplicaReassignmentsStatusEncode) \o Tags)
  \o Tags
ListPartitionReassignmentsResponseDecode(v) ==
  I32("ThrottleTimeMs") \o I16("ErrorCode") \o NCStr("ErrorMessage")
  \o NCArr("TopicStatus", CStr("topic")
             \o NCArr("partitions", I32("partition") \o PartitionReplicaReassignmentsStatusDecode) \o Tags)
  \o Tags
ListPartitionReassignmentsResponse(v) ==
  Message(46, 0, 1, V2_4_0_0,
          ListPartitionReassignmentsResponseEncode(v), ListPartitionReassignmentsResponseDecode(v))

-----------------------------------------------------------------------------
\* No topics means all topics and is written as null.
DescribeLogDirsRequestEncode(v) ==
  EArr("DescribeTopics", Str("Topic") \o Arr("PartitionIDs", I32("PartitionIDs")))
DescribeLogDirsRequestDecode(v) ==
  NArr("DescribeTopics", Str("Topic") \o NArr("PartitionIDs", I32("PartitionIDs")))
DescribeLogDirsRequest(v) ==
  Message(35, 1, 1, V1_0_0_0, DescribeLogDirsRequestEncode(v), DescribeLogDirsRequestDecode(v))

DescribeLogDirsResponsePartitionEncode ==
  I32("PartitionID") \o I64("Size") \o I64("OffsetLag") \o Bool("IsTemporary")
DescribeLogDirsResponsePartitionDecode ==
  I32("PartitionID") \o I64("Size") \o I64("OffsetLag") \o Bool("IsTemporary")

DescribeLogDirsResponseTopicEncode ==
  Str("Topic") \o Arr("Partitions", DescribeLogDirsResponsePartitionEncode)
DescribeLogDirsResponseTopicDecode ==
  Str("Topic") \o Arr("Partitions", DescribeLogDirsResponsePartitionDecode)

DescribeLogDirsResponseDirMetadataEncode ==
  I16("ErrorCode") \o Str("Path") \o Arr("Topics", DescribeLogDirsResponseTopicEncode)
DescribeLogDirsResponseDirMetadataDecode ==
  I16("ErrorCode") \o Str("Path") \o Arr("Topics", DescribeLogDirsResponseTopicDecode)

DescribeLogDirsResponseEncode(v) ==
  I32("ThrottleTime") \o Arr("LogDirs", DescribeLogDirsResponseDirMetadataEncode)
DescribeLogDirsResponseDecode(v) ==
  I32("ThrottleTime") \o Arr("LogDirs", DescribeLogDirsResponseDirMetadataDecode)
DescribeLogDirsResponse(v) ==
  Message(35, 1, 0, V1_0_0_0, DescribeLogDirsResponseEncode(v), DescribeLogDirsResponseDecode(v))
=============================================================================
