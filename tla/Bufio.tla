--------------------------------- MODULE Bufio ---------------------------------
(***************************************************************************)
(* The buffered reader and writer of a connection and the allocator of     *)
(* what the reader returns (src/pkg/utils/bufio2).                         *)
(*                                                                         *)
(* A reader or a writer is a record.  What the reader returns is a slice   *)
(* of its buffer or of the memory that it has allocated: which bytes are   *)
(* in it is known only when somebody looks.  A loop is a recursive         *)
(* function of the variables that it changes.                              *)
(***************************************************************************)
EXTENDS Integers, Sequences, SequencesExt

CONSTANTS
    Byte,                   \* a byte is a string that shows it
    ReaderSize, WriterSize, \* BOUND: of the buffers
    BlockSize,              \* BOUND: of an allocator's block, 8192
    OwnSize                 \* BOUND: what has memory of its own, 512

ASSUME BufioAssumption ==
    /\ {ReaderSize, WriterSize, BlockSize, OwnSize} \subseteq Nat \ {0}
    /\ OwnSize <= BlockSize
    /\ "0" \in Byte

Bytes == Seq(Byte)

LeastOf(a, b) == IF a < b THEN a ELSE b

Zeros(n) == [i \in 1..n |-> "0"]

-----------------------------------------------------------------------------
(* Positions stay in the buffers, which they index: outside them the       *)
(* program panics.                                                         *)

Reader ==
    {b \in [buf : Bytes, rpos : Nat, wpos : Nat, err : BOOLEAN,
            in : Bytes, first : Nat \ {0}, chunk : Nat \ {0},
            mem : Bytes, next : Nat, left : Nat] :
        /\ Len(b.buf) = ReaderSize
        /\ b.rpos <= b.wpos /\ b.wpos <= ReaderSize
        /\ b.next + b.left <= Len(b.mem)}

Writer ==
    {w \in [buf : Bytes, err : BOOLEAN, limit : Nat, wire : Bytes] :
        Len(w.buf) <= WriterSize /\ Len(w.wire) <= w.limit}

-----------------------------------------------------------------------------
(* A reader's call results in [b, ok, v, nil]: the reader afterwards,      *)
(* whether there was no error, and the value, or that it is nil.           *)

Ok(b, v) == [b |-> b, ok |-> TRUE, v |-> v, nil |-> FALSE]
OkNil(b) == [b |-> b, ok |-> TRUE, v |-> <<>>, nil |-> TRUE]
Fail(b)  == [b |-> b, ok |-> FALSE, v |-> <<>>, nil |-> TRUE]

(* sliceAlloc.  mem is all that was ever allocated; the block's rest, left *)
(* bytes, begins after position next.                                      *)

Slice(of, at, len) == [of |-> of, at |-> at, len |-> len]

BytesOf(b, s) == SubSeq(IF s.of = "mem" THEN b.mem ELSE b.buf,
                        s.at + 1, s.at + s.len)

Make(b, n) ==
    CASE n = 0 \/ n >= OwnSize ->
            [b |-> [b EXCEPT !.mem = @ \o Zeros(n)],
             slice |-> Slice("mem", Len(b.mem), n)]
      [] 0 < n /\ n < OwnSize /\ b.left < n ->
            [b |-> [b EXCEPT !.mem = @ \o Zeros(BlockSize),
                             !.next = Len(b.mem) + n, !.left = BlockSize - n],
             slice |-> Slice("mem", Len(b.mem), n)]
      [] OTHER -> [b |-> [b EXCEPT !.next = @ + n, !.left = @ - n],
                   slice |-> Slice("mem", b.next, n)]

(* Memory is made, and bytes copied there.                                 *)
Copy(b, bytes) ==
    LET m == Make(b, Len(bytes))
        in == m.slice.at + 1 .. m.slice.at + Len(bytes)
    IN  Ok([m.b EXCEPT !.mem = [i \in DOMAIN @ |->
               IF i \in in THEN bytes[i - m.slice.at] ELSE @[i]]], m.slice)

-----------------------------------------------------------------------------
(* Reader.                                                                 *)

(* in is what the peer has sent and the socket not yet given; a read gives *)
(* first bytes the first time and chunk bytes from then on, or less.  What *)
(* follows is an error: the end, a deadline (redis/conn.go).               *)
NewReader(in, first, chunk) ==
    [buf |-> Zeros(ReaderSize), rpos |-> 0, wpos |-> 0, err |-> FALSE,
     in |-> in, first |-> first, chunk |-> chunk,
     mem |-> <<>>, next |-> 0, left |-> 0]

FromSocket(b, space) ==
    LET n == LeastOf(space, LeastOf(b.first, Len(b.in)))
    IN  [Ok([b EXCEPT !.in = SubSeq(@, n + 1, Len(@)), !.first = b.chunk,
                      !.err = n = 0],
            SubSeq(b.in, 1, n)) EXCEPT !.ok = n > 0]

buffered(b) == b.wpos - b.rpos
Unread(b) == SubSeq(b.buf, b.rpos + 1, b.wpos)

(* What is unread moves to the front; the rest of the buffer is filled.    *)
fill(b) ==
    LET s == FromSocket(b, ReaderSize - buffered(b))
        bytes == Unread(b) \o s.v
    IN  IF b.err THEN b
        ELSE [s.b EXCEPT !.rpos = 0, !.wpos = Len(bytes),
                         !.buf = bytes \o SubSeq(@, Len(bytes) + 1, Len(@))]

Filled(b) == IF buffered(b) = 0 THEN fill(b) ELSE b

First(b) == IF b.err THEN Fail(b) ELSE Ok(b, b.buf[b.rpos + 1])
PeekByte(b) == First(Filled(b))

Passed(p) == IF p.ok THEN [p EXCEPT !.b.rpos = @ + 1] ELSE p
ReadByte(b) == Passed(PeekByte(b))

(* The position of the first line end, or 0.                               *)
LineEnd(s) == SelectInSeq(s, LAMBDA c : c = "LF")

(* A slice of the buffer, also when the buffer is full and has no line end *)
(* (ErrBufferFull, which is not kept).                                     *)
UpTo(b, lf) ==
    CASE b.err -> Fail(b)
      [] ~b.err /\ lf > 0 ->
            Ok([b EXCEPT !.rpos = @ + lf], Slice("buf", b.rpos, lf))
      [] OTHER -> [Fail([b EXCEPT !.rpos = b.wpos]) EXCEPT
                      !.v = Slice("buf", 0, ReaderSize)]

ReadSlice[b \in Reader] ==
    LET lf == LineEnd(Unread(b))
    IN  IF b.err \/ lf > 0 \/ buffered(b) = ReaderSize THEN UpTo(b, lf)
        ELSE ReadSlice[fill(b)]

(* MUTANT, not the code: a line in one piece is returned without a copy.   *)
LineUncopied(s, full) ==
    CASE s.b.err -> Fail(s.b)
      [] ~s.b.err /\ full = <<>> -> s
      [] OTHER -> Copy(s.b, full \o BytesOf(s.b, s.v))

(* What full buffers gave is copied, and in the end all of the line.       *)
WholeLine(s, full) ==
    IF s.b.err THEN Fail(s.b) ELSE Copy(s.b, full \o BytesOf(s.b, s.v))

LineStates == [b : Reader, full : Bytes]
Line[t \in LineStates] ==
    LET s == ReadSlice[t.b]
        piece == BytesOf(s.b, s.v)
    IN  IF s.ok \/ s.b.err THEN WholeLine(s, t.full)
        ELSE Line[[b |-> Copy(s.b, piece).b, full |-> t.full \o piece]]

ReadBytes(b) == Line[[b |-> b, full |-> <<>>]]

Taken(b, k) ==
    IF b.err THEN Fail(b)
    ELSE Ok([b EXCEPT !.rpos = @ + k], SubSeq(Unread(b), 1, k))

BufferedOf(b, n) == Taken(b, LeastOf(n, buffered(b)))

(* At most n bytes: from the socket when none are buffered and the buffer  *)
(* is no larger than n.                                                    *)
Read(b, n) ==
    IF buffered(b) = 0 /\ n >= ReaderSize THEN FromSocket(b, n)
                                          ELSE BufferedOf(Filled(b), n)

(* io.ReadFull reads until there are n bytes.                              *)
CollectStates ==
    {t \in [b : Reader, n : Nat, bytes : Bytes] : Len(t.bytes) <= t.n}
Collect[t \in CollectStates] ==
    LET r == Read(t.b, t.n - Len(t.bytes))
    IN  CASE Len(t.bytes) = t.n -> Copy(t.b, t.bytes)
          [] Len(t.bytes) < t.n /\ t.b.err -> Fail(t.b)
          [] OTHER -> Collect[[t EXCEPT !.b = r.b, !.bytes = @ \o r.v]]

(* MUTANT, not the code: what one Read gives is taken for all.             *)
ReadFullOnce(b, n) ==
    LET r == Read(b, n)
    IN  IF r.ok THEN Copy(r.b, r.v \o Zeros(n - Len(r.v))) ELSE Fail(r.b)

ReadFull(b, n) == Collect[[b |-> b, n |-> n, bytes |-> <<>>]]

-----------------------------------------------------------------------------
(* Writer.  The socket takes limit bytes before it fails; wire is what it  *)
(* has taken.                                                              *)

NewWriter(limit) ==
    [buf |-> <<>>, err |-> FALSE, limit |-> limit, wire |-> <<>>]

ToSocket(w, p) ==
    LET n == LeastOf(Len(p), w.limit - Len(w.wire))
    IN  [w EXCEPT !.wire = @ \o SubSeq(p, 1, n), !.err = n < Len(p)]

flush(w) ==
    IF w.err \/ w.buf = <<>> THEN w
    ELSE LET s == ToSocket(w, w.buf)
         IN  IF s.err THEN s ELSE [s EXCEPT !.buf = <<>>]

available(w) == WriterSize - Len(w.buf)

(* Writing p: the buffer is filled and flushed until the rest of p fits.   *)
Writing == [w : Writer, p : Bytes]
Fits(t) == t.w.err \/ Len(t.p) <= available(t.w)
Rest(t) == IF t.w.err THEN t.w ELSE [t.w EXCEPT !.buf = @ \o t.p]

Buffer(t) ==
    LET n == available(t.w)
    IN  [w |-> flush([t.w EXCEPT !.buf = @ \o SubSeq(t.p, 1, n)]),
         p |-> SubSeq(t.p, n + 1, Len(t.p))]

(* MUTANT, not the code: large data do not wait for what is buffered.      *)
BufferOver(t) == [w |-> ToSocket(t.w, t.p), p |-> <<>>]

(* Large data go to the socket from where they are, once the buffer is     *)
(* empty.                                                                  *)
BufferOrSend(t) ==
    IF t.w.buf = <<>> THEN [w |-> ToSocket(t.w, t.p), p |-> <<>>] ELSE Buffer(t)

Written[t \in Writing] == IF Fits(t) THEN Rest(t) ELSE Written[BufferOrSend(t)]
Write(w, p) == Written[[w |-> w, p |-> p]]

(* A string always goes through the buffer.                                *)
Strung[t \in Writing] == IF Fits(t) THEN Rest(t) ELSE Strung[Buffer(t)]
WriteString(w, s) == Strung[[w |-> w, p |-> s]]

WriteByte(w0, c) ==
    LET w == IF available(w0) = 0 THEN flush(w0) ELSE w0
    IN  IF w.err THEN w ELSE [w EXCEPT !.buf = Append(@, c)]

=============================================================================
