-------------------------------- MODULE Wire --------------------------------
(***************************************************************************)
(* The vocabulary in which the message modules state what an encode and a  *)
(* decode function of the Kafka protocol write and read.                   *)
(*                                                                         *)
(* A layout is a sequence of fields, in the order of the calls on the      *)
(* packetEncoder or packetDecoder.  A field has                            *)
(*   w     how it looks on the wire;                                       *)
(*   n     the Go field it comes from or goes to;                          *)
(*   null  "never", "maybe" (nil is written as null) or "empty" (an empty  *)
(*         collection is written as null); for a decoder, every value but  *)
(*         "never" means that the code provides for null;                  *)
(*   sub   for an array, the layout of one element;                        *)
(*   rest  for a decoder that returns when an array is empty, the layout   *)
(*         of what it reads only when the array is not empty.              *)
(* Contents are left out: what can go wrong between an encoder and a       *)
(* decoder is the order, the form and the number of the fields.            *)
(***************************************************************************)
EXTENDS Integers, Sequences

Field(w, n, null, sub, rest) ==
  << [w |-> w, n |-> n, null |-> null, sub |-> sub, rest |-> rest] >>

Plain(w, n) == Field(w, n, "never", <<>>, <<>>)

\* Fixed-size values.  A bool is written as one byte holding 0 or 1.
I8(n) == Plain("int8", n)
Bool(n) == I8(n)
I16(n) == Plain("int16", n)
I32(n) == Plain("int32", n)
I64(n) == Plain("int64", n)
F64(n) == Plain("float64", n)
Raw(n) == Plain("raw", n)

\* The uvarint 0 that closes a structure without tagged fields.
Tags == Plain("uvarint", "tags")

\* Strings and byte slices, with a fixed or with a compact length.
Str(n) == Plain("string", n)
CStr(n) == Plain("compact string", n)
NStr(n) == Field("string", n, "maybe", <<>>, <<>>)
NCStr(n) == Field("compact string", n, "maybe", <<>>, <<>>)
Bytes(n) == Plain("bytes", n)
CBytes(n) == Plain("compact bytes", n)

\* Arrays, with an int32 or with a compact length.
Arr(n, sub) == Field("array", n, "never", sub, <<>>)
CArr(n, sub) == Field("compact array", n, "never", sub, <<>>)
NArr(n, sub) == Field("array", n, "maybe", sub, <<>>)
NCArr(n, sub) == Field("compact array", n, "maybe", sub, <<>>)
EArr(n, sub) == Field("array", n, "empty", sub, <<>>)
ECArr(n, sub) == Field("compact array", n, "empty", sub, <<>>)

\* A decoder that reads an array and returns at once when it is empty.
ArrThen(n, sub, rest) == Field("array", n, "maybe", sub, rest)

When(c, layout) == IF c THEN layout ELSE <<>>

Arrays == {"array", "compact array"}

\* What an encoder may write for field f: -1 stands for null, any other number
\* for the number of elements (1 for what is not a collection).
Counts(f, maxLen) ==
  LET some == IF f.w \in Arrays THEN IF f.null = "empty" THEN 1..maxLen ELSE 0..maxLen
                                ELSE {1}
  IN  IF f.null = "never" THEN some ELSE some \cup {-1}

Times(layout, count) ==
  LET T[k \in 0..count] == IF k = 0 THEN <<>> ELSE T[k-1] \o layout
  IN  IF count > 0 THEN T[count] ELSE <<>>

\* A field is fixed when the encoder has no choice about it.
Fixed(f) == f.w \notin Arrays /\ f.null = "never"

\* The number of fixed fields a layout begins with.
FixedPrefix(layout) ==
  LET P[k \in 0..Len(layout)] ==
        IF k = Len(layout) \/ ~Fixed(layout[k+1]) THEN k ELSE P[k+1]
  IN  P[0]

\* What is on the wire for field f.
Token(f, count) == [w |-> f.w, n |-> f.n, count |-> count]

-----------------------------------------------------------------------------
(***************************************************************************)
(* Kafka versions, ordered as IsAtLeast orders them, and the descriptor of *)
(* a message: its API key, the highest version isValidVersion accepts, the *)
(* version of the header, the Kafka version it requires and the layouts of *)
(* encode and decode.                                                      *)
(***************************************************************************)
KafkaVersion(a, b, c) == (a * 100 + b) * 100 + c

V0_8_2_0 == KafkaVersion(0, 8, 2)
V0_9_0_0 == KafkaVersion(0, 9, 0)
V0_10_0_0 == KafkaVersion(0, 10, 0)
V0_10_1_0 == KafkaVersion(0, 10, 1)
V0_10_2_0 == KafkaVersion(0, 10, 2)
V0_11_0_0 == KafkaVersion(0, 11, 0)
V1_0_0_0 == KafkaVersion(1, 0, 0)
V1_1_0_0 == KafkaVersion(1, 1, 0)
V2_0_0_0 == KafkaVersion(2, 0, 0)
V2_1_0_0 == KafkaVersion(2, 1, 0)
V2_2_0_0 == KafkaVersion(2, 2, 0)
V2_3_0_0 == KafkaVersion(2, 3, 0)
V2_4_0_0 == KafkaVersion(2, 4, 0)
V2_5_0_0 == KafkaVersion(2, 5, 0)
V2_6_0_0 == KafkaVersion(2, 6, 0)
V2_7_0_0 == KafkaVersion(2, 7, 0)
V2_8_0_0 == KafkaVersion(2, 8, 0)

\* requiredVersion: one Kafka version for each message version from 0, then
\* the answer for any other version.
Required(v, list, default) == IF v \in 0..Len(list)-1 THEN list[v+1] ELSE default

Message(key, last, header, required, enc, dec) ==
  [key |-> key, last |-> last, header |-> header, required |-> required,
   encode |-> enc, decode |-> dec]
=============================================================================
