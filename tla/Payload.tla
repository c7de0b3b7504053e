------------------------------ MODULE Payload ------------------------------
(***************************************************************************)
(* The payload of one message on its way from a publisher to subscribers:  *)
(* how JSON and msgpack frames are decoded into the stored form, what a    *)
(* store that encodes it reads back, how appends and updates merge it, and *)
(* how it leaves on either transport.  Presence members and annotations    *)
(* take the same way.                                                      *)
(*                                                                         *)
(* A value is what a frame holds: nil, a string, bytes, an object or a     *)
(* number, with its contents as a sequence of symbols.  An encoding is the *)
(* sequence of its parts, "utf-8/base64" being <<"utf-8", "base64">>.      *)
(* Clients encode and decode as the SDKs do: they never name an encoding   *)
(* without data, and append text to text and bytes to bytes.               *)
(***************************************************************************)
EXTENDS Sequences, Naturals

CONSTANTS
    Texts,          \* contents of strings and of binary payloads
    Numbers,        \* numbers that are published bare
    LargeNumbers,   \* those of at least 10^6
    MaxOps          \* bound on the operations

PayloadAssumption == LargeNumbers \subseteq Numbers /\ MaxOps \in Nat

VARIABLES
    msg,        \* the stored message: [data, encoding], a set of at most one
    meant,      \* the value its publishers meant
    before,     \* the value meant before the last operation
    delta,      \* the delta of the last operation, if it was an append
    ops         \* operations so far

vars == <<msg, meant, before, delta, ops>>

Transports == {"json", "msgpack"}

Nil == [type |-> "nil", text |-> <<>>]
Str(s) == [type |-> "string", text |-> s]
Bin(s) == [type |-> "bytes", text |-> s]
Object == [type |-> "object", text |-> <<"k">>]
Number(n) == [type |-> "number", text |-> <<n>>]

Framed(data, encoding) == [data |-> data, encoding |-> encoding]

\* The symbols that stand for the base64 form, a ciphertext and JSON text.
Base64(s) == IF s = <<>> THEN <<>> ELSE <<"b64">> \o s
Cipher(s) == <<"enc">> \o s
JSONText(s) == <<"{">> \o s

IsForm(symbol, s) == Len(s) > 0 /\ Head(s) = symbol
IsBase64(s) == s = <<>> \/ IsForm("b64", s)
FromBase64(s) == IF s = <<>> THEN <<>> ELSE Tail(s)

-----------------------------------------------------------------------------
\* The payloads clients publish, and what subscribers should make of them.
Payloads ==
    {[kind |-> "none", text |-> <<>>], [kind |-> "json", text |-> Object.text]}
    \cup [kind : {"text", "binary", "secret"}, text : Texts]
    \cup {[kind |-> "number", text |-> <<n>>] : n \in Numbers}

Meant(v) ==
    CASE v.kind = "none" -> Nil
      [] v.kind = "json" -> Object
      [] v.kind = "binary" -> Bin(v.text)
      [] OTHER -> Str(v.text)

\* The frames a client may put a payload in. JSON has no bytes; an object or a number may
\* be sent bare.
ClientEncode(v, transport) ==
    CASE v.kind = "none" -> {Framed(Nil, <<>>)}
      [] v.kind = "text" -> {Framed(Str(v.text), <<>>)}
      [] v.kind = "json" -> {Framed(Str(JSONText(v.text)), <<"json">>), Framed(Object, <<>>),
                             Framed(Object, <<"json">>)}
      [] v.kind = "number" -> {Framed(Number(v.text[1]), <<>>)}
      [] v.kind = "binary" ->
            {Framed(Str(Base64(v.text)), <<"base64">>)}
            \cup {Framed(Bin(v.text), <<>>) : t \in {transport} \cap {"msgpack"}}
      [] v.kind = "secret" ->
            {Framed(Str(Base64(Cipher(v.text))), <<"utf-8", "cipher", "base64">>)}
            \cup {Framed(Bin(Cipher(v.text)), <<"utf-8", "cipher">>) : t \in {transport} \cap {"msgpack"}}

\* One layer of the encoding, undone.
Peel(m) ==
    IF m.encoding = <<>> THEN m ELSE
    LET outer == m.encoding[Len(m.encoding)]
        inner == SubSeq(m.encoding, 1, Len(m.encoding) - 1)
        s     == m.data.text
    IN  Framed(CASE outer = "base64" /\ m.data.type = "string" /\ IsBase64(s) -> Bin(FromBase64(s))
                 [] outer = "cipher" /\ m.data.type = "bytes" /\ IsForm("enc", s) -> Bin(Tail(s))
                 [] outer = "utf-8" /\ m.data.type = "bytes" -> Str(s)
                 [] outer = "json" /\ m.data.type = "string" /\ IsForm("{", s) -> Object
                 [] OTHER -> [type |-> "undecodable", text |-> s],
               inner)

\* Clients undo at most three layers.
ClientDecode(m) == Peel(Peel(Peel(m))).data

-----------------------------------------------------------------------------
\* getOuterEncoding: the last part, with everything before it.
GetOuterEncoding(encoding) ==
    IF encoding = <<>> THEN [outer |-> "", rest |-> <<>>]
    ELSE [outer |-> encoding[Len(encoding)], rest |-> SubSeq(encoding, 1, Len(encoding) - 1)]

\* "%v" of a number decoded from JSON, a float64: from 10^6 on with an exponent.
FormatV(n) == IF n \in LargeNumbers THEN <<n, "e+">> ELSE <<n>>

\* DataFromExternal: the stored form, or none if the base64 is malformed.
DataFromExternal(v, encoding) ==
    CASE v.type = "string" /\ GetOuterEncoding(encoding).outer = "base64" ->
            {Framed(Bin(FromBase64(s)), GetOuterEncoding(encoding).rest) : s \in {t \in {v.text} : IsBase64(t)}}
      [] v.type = "object" -> {Framed(Str(JSONText(v.text)), <<"json">>)}
      [] v.type = "number" -> {Framed(Str(FormatV(v.text[1])), encoding)}
      [] OTHER -> {Framed(v, encoding)}

\* msgpackData: whatever is not a string or bytes is transcoded to JSON text, a number to
\* its digits; only an object counts as encoded.
MsgpackData(v) ==
    CASE v.type = "object" -> [value |-> Str(JSONText(v.text)), jsonEncoded |-> TRUE]
      [] v.type = "number" -> [value |-> Str(v.text), jsonEncoded |-> FALSE]
      [] OTHER -> [value |-> v, jsonEncoded |-> FALSE]

\* normaliseInboundData.
NormaliseInboundData(v, encoding, jsonEncoded) ==
    {IF jsonEncoded THEN Framed(m.data, <<"json">>) ELSE m : m \in DataFromExternal(v, encoding)}

UnmarshalJSON(m) == NormaliseInboundData(m.data, m.encoding, FALSE)

\* DecodeMsgpack: an absent payload is left alone.
DecodeMsgpack(m) ==
    IF m.data = Nil THEN {m}
    ELSE LET d == MsgpackData(m.data) IN NormaliseInboundData(d.value, m.encoding, d.jsonEncoded)

Ingress(m, transport) == IF transport = "json" THEN UnmarshalJSON(m) ELSE DecodeMsgpack(m)

\* What a payload may arrive as.
Arrivals(v, transport) == UNION {Ingress(frame, transport) : frame \in ClientEncode(v, transport)}

\* jsonDataEncoding: bytes leave as base64.
JSONDataEncoding(encoding, data) == IF data.type = "bytes" THEN encoding \o <<"base64">> ELSE encoding

MarshalJSON(m) ==
    Framed(IF m.data.type = "bytes" THEN Str(Base64(m.data.text)) ELSE m.data,
           JSONDataEncoding(m.encoding, m.data))

\* EncodeMsgpack: data is left out only when it is nil.
EncodeMsgpack(m) == m

Egress(m, transport) == IF transport = "json" THEN MarshalJSON(m) ELSE EncodeMsgpack(m)

\* bbolt and Postgres keep the msgpack encoding: what they read back.
Loaded(m) == DecodeMsgpack(EncodeMsgpack(m))

-----------------------------------------------------------------------------
\* Faulty ConcatData: any two values are concatenated.
ConcatData_AnyTypes(current, add) ==
    IF add = Nil THEN {current} ELSE IF current = Nil THEN {add}
    ELSE {[current EXCEPT !.text = @ \o add.text]}

\* concatData: strings onto strings and bytes onto bytes, nothing else.
ConcatData(current, add) ==
    IF add = Nil THEN {current} ELSE IF current = Nil THEN {add}
    ELSE IF current.type = add.type THEN {[current EXCEPT !.text = @ \o add.text]} ELSE {}

Init == msg = {} /\ meant = Nil /\ before = Nil /\ delta = {} /\ ops = 0

Counted == ops < MaxOps /\ ops' = ops + 1

Publish(v, transport) ==
    /\ msg = {} /\ Counted
    /\ \E frame \in ClientEncode(v, transport) : msg' = Ingress(frame, transport)
    /\ meant' = Meant(v)
    /\ UNCHANGED <<before, delta>>

\* MergeVersion for an update or a delete: the data it supplies replaces data and encoding.
Update(v, transport) ==
    /\ Counted
    /\ \E m \in msg, mut \in Arrivals(v, transport) :
        \E current \in {m} \cup Loaded(m) :
            msg' = {IF mut.data = Nil THEN current ELSE mut}
    /\ meant' = IF v.kind = "none" THEN meant ELSE Meant(v)
    /\ before' = meant /\ delta' = {}

\* MergeVersion for an append, on a store that holds the message or reads it back. One that
\* does not fit is refused.
AppendData(v, transport) ==
    /\ Counted
    /\ v.kind \in {"none", "text", "binary"}
    /\ \E m \in msg, mut \in Arrivals(v, transport) :
        /\ m.encoding = <<>>
        /\ \E current \in {m} \cup Loaded(m) :
            LET sum == ConcatData(current.data, mut.data)
                enc == IF mut.encoding # <<>> THEN mut.encoding ELSE current.encoding
            IN  /\ msg' = IF sum = {} THEN msg ELSE {Framed(s, enc) : s \in sum}
                /\ delta' = IF sum = {} THEN {} ELSE {mut}
    /\ meant' = CASE v.kind = "none" -> meant
                  [] meant = Nil -> Meant(v)
                  [] meant.type = Meant(v).type -> [meant EXCEPT !.text = @ \o v.text]
                  [] OTHER -> meant
    /\ before' = meant

Next ==
    \E v \in Payloads, transport \in Transports :
        Publish(v, transport) \/ Update(v, transport) \/ AppendData(v, transport)

Spec == Init /\ [][Next]_vars

-----------------------------------------------------------------------------
\* The stored form is nil, a string or bytes, and never a string that is still base64.
TypeOK ==
    /\ \A m \in msg \cup delta :
        /\ m.data.type \in {"nil", "string", "bytes"}
        /\ m.data.type = "string" => GetOuterEncoding(m.encoding).outer # "base64"
    /\ ops \in 0..MaxOps

\* Whatever transports publisher and subscriber use, and whether the message comes from
\* memory or is read back, the subscriber decodes what the publishers meant; absent, empty
\* text and empty bytes stay apart.
Delivered ==
    \A m \in msg, transport \in Transports :
        \A read \in {m} \cup Loaded(m) : ClientDecode(Egress(read, transport)) = meant

\* A message that was published is there, and the backends that encode it read back
\* exactly what the memory backend holds.
ReadsBack == ops > 0 => msg # {} /\ \A m \in msg : Loaded(m) = {m}

\* A subscriber that joins the delta to the value it has arrives at the aggregate, on
\* either transport.
DeltaAgrees ==
    \A d \in delta, transport \in Transports :
        ConcatData(before, ClientDecode(Egress(d, transport))) = {meant}
=============================================================================
