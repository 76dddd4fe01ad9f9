------------------------------ MODULE Protocol ------------------------------
(***************************************************************************)
(* One request and its answer on the wire.  Broker encodes the request     *)
(* with its header; a server built on decodeRequest (the mock broker)      *)
(* reads it field by field; it encodes a response of the same version; and *)
(* Broker reads that with the header it expects and with the response's    *)
(* decode.  A reader that meets another field than the next one it wants,  *)
(* runs out of fields or has fields left over has misread the message.     *)
(***************************************************************************)
EXTENDS Messages

CONSTANTS Apis,         \* the APIs called
          MaxLen,       \* the most elements an array is given
          KnownGaps     \* pairs of API and version whose response encoder is known to fall short

VARIABLES api, ver,   \* the call
          stage,      \* who is at work, or how the call ended
          todo,       \* the layout its encoder or decoder has still to go through
          wire        \* the fields written and not yet read

vars == <<api, ver, stage, todo, wire>>

RequestHeaderEncode(h) ==
  I16("key") \o I16("version") \o I32("correlationID") \o When(h >= 1, Str("clientID"))
  \o When(h >= 2, Tags)
RequestHeaderDecode(h) ==
  I16("key") \o I16("version") \o I32("correlationID") \o Str("clientID") \o When(h >= 2, Tags)

EncodeHeader(h) == I32("length") \o I32("correlationID") \o When(h >= 1, Tags)
ResponseHeaderDecode(h) == I32("length") \o I32("correlationID") \o When(h >= 1, Tags)

\* The methods of Broker that copy the request's version into the response they
\* decode into; in all others its Version is still 0 when the header is read.
PresetVersion == {"Metadata", "OffsetFetch", "ListGroups", "InitProducerID"}

ExpectedHeader(a, v) == Response(a, IF a \in PresetVersion THEN v ELSE 0).header

RequestLayout(a, v) == RequestHeaderEncode(Request(a, v).header) \o Request(a, v).encode
BodyLayout(a, v) ==
  LET body == AllocateBody(Request(a, v).key, v)
  IN  RequestHeaderDecode(body.header) \o body.decode
ResponseLayout(a, v) == EncodeHeader(Response(a, v).header) \o Response(a, v).encode
AnswerLayout(a, v) == ResponseHeaderDecode(ExpectedHeader(a, v)) \o Response(a, v).decode

Init ==
  /\ api \in Apis
  /\ ver \in 0..Request(api, 0).last
  /\ stage = "encode request"
  /\ todo = RequestLayout(api, ver)
  /\ wire = <<>>

-----------------------------------------------------------------------------
Encoding == stage \in {"encode request", "encode response"}
Decoding == stage \in {"decode request", "decode response"}

Tokens(fields) == [i \in 1..Len(fields) |-> Token(fields[i], 1)]

\* The fields an encoder has no choice about.
PutFixed ==
  /\ Encoding
  /\ LET k == FixedPrefix(todo)
     IN  /\ k > 0
         /\ wire' = wire \o Tokens(SubSeq(todo, 1, k))
         /\ todo' = SubSeq(todo, k + 1, Len(todo))
  /\ UNCHANGED <<api, ver, stage>>

\* A value that may be nil, or a collection.  A fetch request has topics: the consumer
\* sends none without (consumer.go:1131).
PutChoice ==
  /\ Encoding /\ todo # <<>> /\ ~Fixed(Head(todo))
  /\ LET f == Head(todo)
     IN  \E count \in Counts(f, MaxLen) :
           /\ (api = "Fetch" /\ f.n = "blocks") => count >= 1
           /\ wire' = Append(wire, Token(f, count))
           /\ todo' = Times(f.sub, count) \o Tail(todo)
  /\ UNCHANGED <<api, ver, stage>>

\* The encoder is done and the other side begins to read.
Deliver ==
  /\ Encoding /\ todo = <<>>
  /\ IF stage = "encode request"
     THEN stage' = "decode request" /\ todo' = BodyLayout(api, ver)
     ELSE stage' = "decode response" /\ todo' = AnswerLayout(api, ver)
  /\ UNCHANGED <<api, ver, wire>>

Misread == IF stage = "decode request" THEN "request misread" ELSE "response misread"

\* A reader can take a field for what it is when form and meaning agree and it
\* provides for null, should that have been written.
Takes(f, t) == f.w = t.w /\ f.n = t.n /\ (t.count = -1 => f.null # "never")

\* What is left to read after field f was read with that many elements.
After(f, count) == Times(f.sub, count) \o When(count > 0, f.rest)

\* The fields before the next array are read in one step.
GetField ==
  /\ Decoding /\ todo # <<>>
  /\ LET k == IF FixedPrefix(todo) > 0 THEN FixedPrefix(todo) ELSE 1
     IN  IF Len(wire) >= k /\ \A i \in 1..k : Takes(todo[i], wire[i])
         THEN /\ todo' = After(todo[k], wire[k].count) \o SubSeq(todo, k + 1, Len(todo))
              /\ wire' = SubSeq(wire, k + 1, Len(wire))
              /\ stage' = stage
         ELSE stage' = Misread /\ todo' = <<>> /\ wire' = <<>>
  /\ UNCHANGED <<api, ver>>

\* decode and versionedDecode insist that nothing is left over.
EndOfMessage ==
  /\ Decoding /\ todo = <<>>
  /\ wire' = <<>>
  /\ IF wire # <<>> THEN stage' = Misread /\ todo' = <<>>
     ELSE IF stage = "decode request"
          THEN stage' = "encode response" /\ todo' = ResponseLayout(api, ver)
          ELSE stage' = "answered" /\ todo' = <<>>
  /\ UNCHANGED <<api, ver>>

\* The next call on the connection.  A response that cannot be decoded is an error of
\* that one call.
NextCall ==
  /\ stage \in {"answered", "response misread"}
  /\ api' \in Apis
  /\ ver' \in 0..Request(api', 0).last
  /\ stage' = "encode request" /\ todo' = RequestLayout(api', ver')
  /\ UNCHANGED wire

Next == PutFixed \/ PutChoice \/ Deliver \/ GetField \/ EndOfMessage \/ NextCall

Spec == Init /\ [][Next]_vars

-----------------------------------------------------------------------------
Stages == {"encode request", "decode request", "encode response", "decode response",
           "request misread", "response misread", "answered"}

\* Every call is one of Apis in a version its request type accepts; the layouts are
\* sequences, and nothing is on the wire once a message was read or misread.
TypeOK ==
  /\ api \in Apis /\ ver \in 0..Request(api, 0).last /\ stage \in Stages
  /\ \A i \in 1..Len(todo) : DOMAIN todo[i] = {"w", "n", "null", "sub", "rest"}
  /\ stage \notin {"encode request", "decode request", "encode response", "decode response"}
     => wire = <<>>

\* A request written by encode, whatever is nil or empty in it, is read back by the
\* decode of the type that allocateBody finds for its key, in every version: no field
\* is missed, taken for another one or left over.
RequestsUnderstood == stage # "request misread"

\* A response of the request's version is read back by the Broker method that sent the
\* request: the header has the form the method expects and the body the form its
\* response type decodes, in every version.
ResponsesUnderstood == stage = "response misread" => <<api, ver>> \in KnownGaps
=============================================================================
