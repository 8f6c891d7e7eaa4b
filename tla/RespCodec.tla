------------------------------- MODULE RespCodec -------------------------------
(***************************************************************************)
(* The RESP encoder and decoder (src/pkg/proxy/redis) of the two ends of   *)
(* a connection, over the buffers of Bufio: what one end encodes, the      *)
(* other decodes, in whatever pieces the network delivers it, and whenever *)
(* it breaks.                                                              *)
(*                                                                         *)
(* A message is the sequence of its nodes, an array before its elements:   *)
(* the order in which the Encoder and the Decoder descend into it.         *)
(*                                                                         *)
(* The order in which the two ends run tells nothing: the decoder waits    *)
(* for bytes.  So the receiving end starts when the sending end is done.   *)
(***************************************************************************)
EXTENDS Bufio

CONSTANTS
    Requests, Replies, \* BOUND: what may be sent
    Foreign,         \* BOUND: what a peer may send that is not this Encoder
    MaxMessages,     \* BOUND: per connection
    Limits,          \* BOUND: after how many bytes the socket may fail
    Pieces,          \* BOUND: how many bytes a read of the socket may give
    minItoa, maxItoa,            \* -128 and 32768 in the code
    MaxBulkBytesLen, MaxArrayLen \* 512 MB and 1024 * 1024 in the code

VARIABLES
    kind,     \* what is on the connection: requests (multi) or replies (resp)
    encoder,  \* the Encoder's Writer
    failedE,  \* Encoder.Err
    sent,     \* what Encode was given and returned no error for
    flushed,  \* how many of these are flushed
    foreign,  \* NoBytes, or what a peer that is not this Encoder has sent
    receiving,\* the sending end is done
    decoder,  \* the Decoder's Reader
    failedD,  \* Decoder.Err
    got       \* the results of Decode: values, in the reader's memory

Sender == <<kind, encoder, failedE, sent, flushed>>
Receiver == <<foreign, receiving, decoder, failedD, got>>
vars == <<Sender, Receiver>>

Kinds == {"multi", "resp"}
NoBytes == <<"none">>
CRLF == <<"CR", "LF">>
Text == {"+", "-", ":"}
Types == Text \cup {"$", "*"}

(* A Resp: an array has a number of elements, any other type a value; or   *)
(* it is nil.                                                              *)
Nodes(Values) ==
    [type : Types, nil : BOOLEAN, value : Values, size : Nat]
Resp(type, value) ==
    [type |-> type, nil |-> FALSE, value |-> value, size |-> 0]
NilResp(type, none) ==
    [type |-> type, nil |-> TRUE, value |-> none, size |-> 0]
Array(size, none) ==
    [type |-> "*", nil |-> FALSE, value |-> none, size |-> size]

(* These nodes, and no fewer, are as many messages as are due.             *)
Completing == [due : Nat, nodes : Seq(Nodes(Bytes))]
Complete[t \in Completing] ==
    IF t.due = 0 \/ t.nodes = <<>> THEN t.due = 0 /\ t.nodes = <<>>
    ELSE Complete[[due |-> t.due - 1 + Head(t.nodes).size,
                   nodes |-> Tail(t.nodes)]]

-----------------------------------------------------------------------------
(* Numbers.                                                                *)

Digits == <<"0", "1", "2", "3", "4", "5", "6", "7", "8", "9">>
DigitSet == {Digits[i] : i \in 1..10}
DigitOf(c) == SelectInSeq(Digits, LAMBDA d : d = c) - 1

(* strconv.FormatInt.                                                      *)
Decimal[i \in Nat] ==
    IF i < 10 THEN <<Digits[i + 1]>>
    ELSE Append(Decimal[i \div 10], Digits[(i % 10) + 1])
FormatInt(i) == IF i < 0 THEN <<"-">> \o Decimal[0 - i] ELSE Decimal[i]

(* itoaBuffer holds the numbers from minItoa to maxItoa, one after the     *)
(* other; itoaOffset says where each begins.                               *)
Table[n \in Nat] ==
    IF n = 0 THEN <<>> ELSE Table[n - 1] \o FormatInt(n - 1 + minItoa)
itoaBuffer == Table[maxItoa - minItoa + 1]
itoaOffset(n) == Len(Table[n])

itoa(i) ==
    IF i \in minItoa..maxItoa
    THEN SubSeq(itoaBuffer, itoaOffset(i - minItoa) + 1, itoaOffset(i - minItoa + 1))
    ELSE FormatInt(i)

Number[s \in Bytes] ==
    IF s = <<>> THEN 0 ELSE Number[Front(s)] * 10 + DigitOf(Last(s))

(* A sign or none, and digits: the short cut for fewer than 10 bytes and   *)
(* strconv.ParseInt agree.  A number beyond 64 bits is an error there, and *)
(* beyond every limit here.                                                *)
Btoi64(s) ==
    LET signed == s # <<>> /\ s[1] \in {"+", "-"}
        digits == IF signed THEN Tail(s) ELSE s
    IN  IF digits = <<>> \/ ~(ToSet(digits) \subseteq DigitSet)
        THEN [ok |-> FALSE, v |-> 0]
        ELSE [ok |-> TRUE, v |-> IF signed /\ s[1] = "-" THEN 0 - Number[digits]
                                                         ELSE Number[digits]]

-----------------------------------------------------------------------------
(* Encoder.  An error ends a message: nothing more is written, for the     *)
(* Writer keeps its error, too.                                            *)

encodeTextBytes(w, s) == WriteString(Write(w, s), CRLF)
encodeInt(w, i) == WriteString(WriteString(w, itoa(i)), CRLF)

encodeBulkBytes(w, r) ==
    IF r.nil THEN encodeInt(w, -1)
    ELSE encodeTextBytes(encodeInt(w, Len(r.value)), r.value)

(* Of an array, what comes before its elements.                            *)
encodeArray(w, r) == encodeInt(w, IF r.nil THEN -1 ELSE r.size)

encodeNode(w0, r) ==
    LET w == WriteByte(w0, r.type)
    IN  CASE r.type \in Text -> encodeTextBytes(w, r.value)
          [] r.type = "$" -> encodeBulkBytes(w, r)
          [] r.type = "*" -> encodeArray(w, r)

EncodeStates == [w : Writer, nodes : Seq(Nodes(Bytes))]
encodeResp[t \in EncodeStates] ==
    IF t.nodes = <<>> THEN t.w
    ELSE encodeResp[[w |-> encodeNode(t.w, Head(t.nodes)), nodes |-> Tail(t.nodes)]]

-----------------------------------------------------------------------------
(* Decoder.  Results are as in Bufio; values are slices.                   *)

Slices == [of : {"mem", "buf"}, at : Nat, len : Nat]
NoSlice == Slice("mem", 0, 0)

(* The line without its end: the slice that was read, but two bytes.       *)
Ended(r) ==
    LET s == BytesOf(r.b, r.v)
        n == Len(s) - 2
    IN  IF ~r.ok \/ n < 0 \/ s[n + 1] # "CR" THEN Fail(r.b)
        ELSE Ok(r.b, [r.v EXCEPT !.len = n])

decodeTextBytes(b) == Ended(ReadBytes(b))

AsInt(r, n) ==
    IF r.ok /\ n.ok THEN Ok(r.b, n.v) ELSE Fail(r.b)
ParseInt(r) == AsInt(r, Btoi64(BytesOf(r.b, r.v)))
decodeInt(b) == ParseInt(Ended(ReadSlice[b]))

(* Of n + 2 bytes, the last two end the value.                             *)
Value(r, n) ==
    IF ~r.ok \/ SubSeq(BytesOf(r.b, r.v), n + 1, n + 2) # CRLF THEN Fail(r.b)
    ELSE Ok(r.b, [r.v EXCEPT !.len = n])

BulkOf(i) ==
    CASE ~i.ok -> i
      [] i.ok /\ i.v = -1 -> OkNil(i.b)
      [] i.ok /\ i.v \notin -1..MaxBulkBytesLen -> Fail(i.b)
      [] OTHER -> Value(ReadFull(i.b, i.v + 2), i.v)

decodeBulkBytes(b) == BulkOf(decodeInt(b))

(* Of an array, what comes before its elements.                            *)
ArrayOf(i) ==
    CASE ~i.ok -> i
      [] i.ok /\ i.v = -1 -> OkNil(i.b)
      [] i.ok /\ i.v \notin -1..MaxArrayLen -> Fail(i.b)
      [] OTHER -> i

decodeArray(b) == ArrayOf(decodeInt(b))

Typed(r, type) ==
    CASE ~r.ok -> Fail(r.b)
      [] r.ok /\ r.nil -> Ok(r.b, NilResp(type, NoSlice))
      [] r.ok /\ ~r.nil /\ type = "*" -> Ok(r.b, Array(r.v, NoSlice))
      [] OTHER -> Ok(r.b, Resp(type, r.v))

ByType(t) ==
    CASE t.ok /\ t.v \in Text -> Typed(decodeTextBytes(t.b), t.v)
      [] t.ok /\ t.v = "$" -> Typed(decodeBulkBytes(t.b), t.v)
      [] t.ok /\ t.v = "*" -> Typed(decodeArray(t.b), t.v)
      [] OTHER -> Fail(t.b)

decodeNode(b) == ByType(ReadByte(b))

(* What is due, of these types, is decoded after nodes.                    *)
Decoding ==
    [b : Reader, ok : BOOLEAN, due : Nat, types : SUBSET Types,
     nodes : Seq(Nodes(Slices))]

(* A node of a type that is not due ends it.  An array in a request ends   *)
(* it at its header here; decodeMultiBulk (decoder.go 250-260) decodes its *)
(* elements before it fails with the same error, or with theirs.  Nothing  *)
(* is decoded after either.                                                *)
WithNode(t, r) ==
    IF ~r.ok \/ r.v.type \notin t.types THEN [t EXCEPT !.b = r.b, !.ok = FALSE]
    ELSE [t EXCEPT !.b = r.b, !.due = @ - 1 + r.v.size, !.nodes = Append(@, r.v)]

Elements[t \in Decoding] ==
    CASE ~t.ok -> Fail(t.b)
      [] t.ok /\ t.due = 0 -> Ok(t.b, t.nodes)
      [] OTHER -> Elements[WithNode(t, decodeNode(t.b))]

Descend(b, due, types, nodes) ==
    Elements[[b |-> b, ok |-> TRUE, due |-> due, types |-> types, nodes |-> nodes]]

decodeResp(b) == Descend(b, 1, Types, <<>>)

(* MUTANT, not the code: a word begins one byte early.                     *)
WordEarly(line, l, r) == Resp("$", Slice(line.of, line.at + l - 1, r - l + 1))

Word(line, l, r) == Resp("$", Slice(line.of, line.at + l, r - l))

(* A word of the line s ends before the byte r, where a gap or the end is; *)
(* l is the byte after the last gap.                                       *)
Splitting ==
    {t \in [s : Bytes, l : Nat, r : Nat, words : Seq(Nat \X Nat)] :
        t.l <= t.r /\ t.r <= Len(t.s) + 1}

AtByte(t) ==
    CASE t.r < Len(t.s) /\ t.s[t.r + 1] # " " -> [t EXCEPT !.r = @ + 1]
      [] OTHER -> [t EXCEPT !.l = t.r + 1, !.r = @ + 1,
                            !.words = IF t.l = t.r THEN @
                                      ELSE Append(@, <<t.l, t.r>>)]

Split[t \in Splitting] ==
    IF t.r > Len(t.s) THEN t.words ELSE Split[AtByte(t)]

(* The words of a line are slices of it.                                   *)
Words(r) ==
    LET words == Split[[s |-> BytesOf(r.b, r.v), l |-> 0, r |-> 0,
                        words |-> <<>>]]
    IN  IF ~r.ok \/ words = <<>> THEN Fail(r.b)
        ELSE Ok(r.b, <<Array(Len(words), NoSlice)>> \o
                     [i \in DOMAIN words |->
                         Word(r.v, words[i][1], words[i][2])])

decodeSingleLineMultiBulk(b) == Words(decodeTextBytes(b))

MultiOf(i) ==
    IF ~i.ok \/ i.v \notin 1..MaxArrayLen THEN Fail(i.b)
    ELSE Descend(i.b, i.v, {"$"}, <<Array(i.v, NoSlice)>>)

Multi(p) ==
    CASE ~p.ok -> p
      [] p.ok /\ p.v = "*" -> MultiOf(decodeInt(ReadByte(p.b).b))
      [] OTHER -> decodeSingleLineMultiBulk(p.b)

decodeMultiBulk(b) == Multi(PeekByte(b))

-----------------------------------------------------------------------------
Init ==
    /\ kind \in Kinds
    /\ \E limit \in Limits : encoder = NewWriter(limit)
    /\ failedE = FALSE /\ sent = <<>> /\ flushed = 0
    /\ foreign = NoBytes /\ receiving = FALSE
    /\ decoder = NewReader(<<>>, 1, 1) /\ failedD = FALSE /\ got = <<>>

(* Encode and EncodeMultiBulk, which begin a message with its type.        *)
Encoding(m) == encodeResp[[w |-> encoder, nodes |-> m]]

Encode(m, doFlush) ==
    /\ ~receiving /\ ~failedE /\ Len(sent) < MaxMessages
    /\ \E w \in {IF doFlush THEN flush(Encoding(m)) ELSE Encoding(m)} :
          /\ encoder' = w /\ failedE' = w.err
          /\ sent' = IF w.err THEN sent ELSE Append(sent, m)
          /\ flushed' = IF doFlush /\ ~w.err THEN Len(sent') ELSE flushed
    /\ UNCHANGED <<kind, Receiver>>

Flush ==
    LET w == flush(encoder)
    IN  /\ ~receiving /\ ~failedE /\ flushed < Len(sent)
        /\ encoder' = w /\ failedE' = w.err
        /\ flushed' = IF w.err THEN flushed ELSE Len(sent)
        /\ UNCHANGED <<kind, sent, Receiver>>

(* The sending end is done, or broken; the network delivers what it sent.  *)
Deliver(first, chunk) ==
    /\ ~receiving
    /\ receiving' = TRUE
    /\ decoder' = NewReader(encoder.wire, first, chunk)
    /\ UNCHANGED <<Sender, foreign, failedD, got>>

(* A peer that is no Encoder.                                              *)
DeliverForeign(bytes, first, chunk) ==
    /\ ~receiving /\ sent = <<>> /\ encoder.wire = <<>> /\ ~failedE
    /\ receiving' = TRUE
    /\ foreign' = bytes /\ decoder' = NewReader(bytes, first, chunk)
    /\ UNCHANGED <<Sender, failedD, got>>

(* Decode and DecodeMultiBulk; the decoder is not used after an error.     *)
Decoded(k, b) == IF k = "multi" THEN decodeMultiBulk(b) ELSE decodeResp(b)

Decode ==
    /\ receiving /\ ~failedD
    /\ \E r \in {Decoded(kind, decoder)} :
          /\ decoder' = r.b
          /\ failedD' = ~r.ok
          /\ got' = IF r.ok THEN Append(got, r.v) ELSE got
    /\ UNCHANGED <<Sender, foreign, receiving>>

Next ==
    \/ \E m \in (IF kind = "multi" THEN Requests ELSE Replies),
          doFlush \in BOOLEAN : Encode(m, doFlush)
    \/ Flush
    \/ \E first, chunk \in Pieces :
          \/ Deliver(first, chunk)
          \/ \E bytes \in Foreign : DeliverForeign(bytes, first, chunk)
    \/ Decode

Spec == Init /\ [][Next]_vars

-----------------------------------------------------------------------------
(* Assumptions.                                                            *)

(* What is sent are messages: their nodes are complete, no text has a line *)
(* end, and every number is within its limit and in the buffer at once.    *)
InBuffer(i) == Len(FormatInt(i)) + 2 <= ReaderSize

Sendable(r) ==
    /\ r.nil => r.type \notin Text /\ r.value = <<>> /\ r.size = 0 /\ InBuffer(-1)
    /\ r.type \in Text => "LF" \notin ToSet(r.value)
    /\ r.type # "*" => r.size = 0
    /\ r.type = "$" => Len(r.value) <= MaxBulkBytesLen /\ InBuffer(Len(r.value))
    /\ r.type = "*" => r.value = <<>> /\ r.size <= MaxArrayLen /\ InBuffer(r.size)

IsMessage(m) ==
    /\ m \in Seq(Nodes(Bytes))
    /\ \A i \in DOMAIN m : Sendable(m[i])
    /\ Complete[[due |-> 1, nodes |-> m]]

(* A request is an array of one bulk or more.                              *)
IsRequest(m) ==
    /\ IsMessage(m) /\ m[1].size = Len(m) - 1 /\ Len(m) > 1
    /\ \A i \in 2..Len(m) : m[i].type = "$"

ASSUME CodecAssumption ==
    /\ DigitSet \cup Types \cup {"CR", "LF", " "} \subseteq Byte
    /\ minItoa \in Int /\ maxItoa \in Int /\ minItoa <= maxItoa
    /\ Pieces \subseteq Nat \ {0} /\ Limits \subseteq Nat
    /\ {MaxBulkBytesLen, MaxArrayLen, MaxMessages} \subseteq Nat
    /\ \A m \in Requests : IsRequest(m)
    /\ \A m \in Replies : IsMessage(m)
    /\ Foreign \subseteq Bytes \ {NoBytes}

-----------------------------------------------------------------------------
(* Properties.                                                             *)

(* What a value is, looked at in the state of the reader b.                *)
Seen(b, v) == [i \in DOMAIN v |-> [v[i] EXCEPT !.value = BytesOf(b, @)]]
Values == [i \in DOMAIN got |-> Seen(decoder, got[i])]

TypeOK ==
    /\ kind \in Kinds /\ {failedE, failedD, receiving} \subseteq BOOLEAN
    /\ encoder \in Writer /\ decoder \in Reader
    /\ sent \in Seq(Requests \cup Replies) /\ flushed \in 0..Len(sent)
    /\ foreign \in Foreign \cup {NoBytes}
    /\ got \in Seq(Seq(Nodes(Slices)))

(* What is decoded is what was encoded, in its order, whatever the pieces, *)
(* the buffers' sizes and the place where the connection broke; and it is  *)
(* still that when the reader has gone on (slice.go 10-23, bufio.go        *)
(* 115-173).                                                               *)
DecodedIsEncoded ==
    foreign = NoBytes => IsPrefix(Values, sent)

(* What was flushed arrives: the decoder fails only after it (decoder.go   *)
(* 84-104, encoder.go 66-98).                                              *)
FlushedArrives ==
    foreign = NoBytes /\ failedD => Len(got) >= flushed

(* The values in these bytes, when they arrive all at once.                *)
AtOnceStates == [kind : Kinds, b : Reader, values : Seq(Seq(Nodes(Bytes)))]
AtOnce[t \in AtOnceStates] ==
    LET r == Decoded(t.kind, t.b)
    IN  IF ~r.ok THEN t.values
        ELSE AtOnce[[t EXCEPT !.b = r.b, !.values = Append(@, Seen(r.b, r.v))]]

(* Also what other peers send is decoded the same in whatever pieces it    *)
(* arrives, up to the same error (decoder.go 118-262, bufio.go 43-173).    *)
PiecesDoNotMatter ==
    foreign # NoBytes /\ failedD =>
        Values = AtOnce[[kind |-> kind, values |-> <<>>,
                         b |-> NewReader(foreign, Len(foreign) + 1, 1)]]
=============================================================================
