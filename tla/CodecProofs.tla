------------------------------ MODULE CodecProofs ------------------------------
(***************************************************************************)
(* Theorems about RespCodec over Bufio, for every size of the buffers, the *)
(* blocks and the itoa table, every limit, every set of messages and of    *)
(* bytes that a peer may send, all pieces and all breaks.                  *)
(*                                                                         *)
(* A Reader is told by its stream: the bytes that it has not given yet,    *)
(* wherever they are.  Of a stream, functions whose names end in At say    *)
(* what is decoded of it; the decoder's operations return that, whatever   *)
(* is buffered.  A Writer is told by what it takes: what is on the wire    *)
(* and in the buffer; Enc says what is written of a message.  Then the two *)
(* ends meet: what MessageAt says of Enc[m] is m.                          *)
(*                                                                         *)
(* A loop is a recursive function: Recursion says that it has a value and  *)
(* what is true of it.                                                     *)
(***************************************************************************)
EXTENDS RespCodec, SequenceTheorems, TLAPS

-----------------------------------------------------------------------------
(* Sequences and their parts.                                              *)

Take(s, n) == SubSeq(s, 1, n)
Drop(s, n) == SubSeq(s, n + 1, Len(s))

(* The elements of two sequences joined.                                   *)
LEMMA SeqJoined ==
    ASSUME NEW S, NEW s \in Seq(S), NEW t \in Seq(S)
    PROVE  /\ s \o t \in Seq(S) /\ Len(s) \in Nat /\ Len(t) \in Nat
           /\ Len(s \o t) = Len(s) + Len(t)
           /\ \A i \in 1..Len(s) : (s \o t)[i] = s[i]
           /\ \A i \in 1..Len(t) : (s \o t)[Len(s) + i] = t[i]
           /\ \A i \in Len(s) + 1..Len(s) + Len(t) : (s \o t)[i] = t[i - Len(s)]
<1>1. Len(s) \in Nat /\ Len(t) \in Nat
  BY LenProperties
<1>2. /\ s \o t \in Seq(S)
      /\ Len(s \o t) = Len(s) + Len(t)
      /\ \A i \in 1..Len(s) + Len(t) : (s \o t)[i] =
            IF i <= Len(s) THEN s[i] ELSE t[i - Len(s)]
  BY ConcatProperties
<1> QED
  BY <1>1, <1>2

(* Joining is associative.                                                 *)
LEMMA SeqRegroup ==
    ASSUME NEW S, NEW s \in Seq(S), NEW t \in Seq(S), NEW u \in Seq(S)
    PROVE  (s \o t) \o u = s \o (t \o u)
BY ConcatAssociative

(* A sequence is in two parts.                                             *)
LEMMA SeqParts ==
    ASSUME NEW S, NEW s \in Seq(S), NEW n \in 0..Len(s)
    PROVE  /\ Take(s, n) \in Seq(S) /\ Len(Take(s, n)) = n
           /\ Drop(s, n) \in Seq(S) /\ Len(Drop(s, n)) = Len(s) - n
           /\ \A i \in 1..n : Take(s, n)[i] = s[i]
           /\ \A i \in 1..Len(s) - n : Drop(s, n)[i] = s[n + i]
           /\ Take(s, n) \o Drop(s, n) = s
<1>0. Len(s) \in Nat /\ n \in Int /\ \A i \in 1..Len(s) : s[i] \in S
  BY LenProperties, ElementOfSeq
<1>1. /\ Take(s, n) \in Seq(S) /\ Len(Take(s, n)) = n
      /\ \A i \in 1..n : Take(s, n)[i] = s[i]
  BY <1>0, SubSeqProperties DEF Take
<1>2. /\ Drop(s, n) \in Seq(S) /\ Len(Drop(s, n)) = Len(s) - n
      /\ \A i \in 1..Len(s) - n : Drop(s, n)[i] = s[n + i]
  <2>1. \A i \in n + 1..Len(s) : s[i] \in S
    BY <1>0
  <2>2. /\ SubSeq(s, n + 1, Len(s)) \in Seq(S)
        /\ Len(SubSeq(s, n + 1, Len(s))) = IF n + 1 <= Len(s) THEN Len(s) - (n + 1) + 1 ELSE 0
        /\ \A i \in 1..Len(s) - (n + 1) + 1 : SubSeq(s, n + 1, Len(s))[i] = s[n + 1 + i - 1]
    BY <1>0, <2>1, SubSeqProperties
  <2> QED
    BY <1>0, <2>2 DEF Drop
<1>3. Take(s, n) \o Drop(s, n) = s
  <2> DEFINE t == Take(s, n)
             u == Drop(s, n)
  <2>1. /\ t \in Seq(S) /\ Len(t) = n /\ u \in Seq(S) /\ Len(u) = Len(s) - n
        /\ \A i \in 1..n : t[i] = s[i]
        /\ \A i \in 1..Len(s) - n : u[i] = s[n + i]
    BY <1>1, <1>2
  <2> HIDE DEF t, u
  <2>2. /\ t \o u \in Seq(S) /\ Len(t \o u) = Len(t) + Len(u)
        /\ \A i \in 1..Len(t) : (t \o u)[i] = t[i]
        /\ \A i \in Len(t) + 1..Len(t) + Len(u) : (t \o u)[i] = u[i - Len(t)]
    BY <2>1, SeqJoined
  <2>3. Len(t \o u) = Len(s)
    BY <1>0, <2>1, <2>2
  <2>4. ASSUME NEW i \in 1..Len(s) PROVE (t \o u)[i] = s[i]
    BY <1>0, <2>1, <2>2
  <2>5. t \o u = s
    BY <2>2, <2>3, <2>4, SeqEqual
  <2> QED
    BY <2>5 DEF t, u
<1> QED
  BY <1>1, <1>2, <1>3

(* Two sequences that begin with parts as long are in the same parts.      *)
LEMMA SeqSameParts ==
    ASSUME NEW S, NEW s \in Seq(S), NEW t \in Seq(S), NEW u \in Seq(S), NEW v \in Seq(S),
           s \o t = u \o v, Len(s) = Len(u)
    PROVE  s = u /\ t = v
<1>1. Len(s) \in Nat /\ Len(t) \in Nat /\ Len(u) \in Nat /\ Len(v) \in Nat
  BY LenProperties
<1>2. /\ \A i \in 1..Len(s) : (s \o t)[i] = s[i]
      /\ \A i \in 1..Len(u) : (u \o v)[i] = u[i]
  BY <1>1, ConcatProperties
<1>3. s = u
  BY <1>2, SeqEqual
<1> QED
  BY <1>3, ConcatSimplifications

(* Two sequences joined come apart again.                                  *)
LEMMA SeqPartsOfBoth ==
    ASSUME NEW S, NEW s \in Seq(S), NEW t \in Seq(S)
    PROVE  Take(s \o t, Len(s)) = s /\ Drop(s \o t, Len(s)) = t
<1>1. s \o t \in Seq(S) /\ Len(s) \in 0..Len(s \o t)
  BY SeqJoined
<1>2. /\ Take(s \o t, Len(s)) \in Seq(S) /\ Len(Take(s \o t, Len(s))) = Len(s)
      /\ Drop(s \o t, Len(s)) \in Seq(S)
      /\ Take(s \o t, Len(s)) \o Drop(s \o t, Len(s)) = s \o t
  BY <1>1, SeqParts
<1> QED
  BY <1>2, SeqSameParts

(* What is in the first part does not depend on what comes after.          *)
LEMMA SeqPartsOfMore ==
    ASSUME NEW S, NEW s \in Seq(S), NEW t \in Seq(S), NEW n \in 0..Len(s)
    PROVE  Take(s \o t, n) = Take(s, n) /\ Drop(s \o t, n) = Drop(s, n) \o t
<1>1. s \o t \in Seq(S) /\ n \in 0..Len(s \o t)
  BY SeqJoined
<1>2. /\ Take(s \o t, n) \in Seq(S) /\ Len(Take(s \o t, n)) = n
      /\ Drop(s \o t, n) \in Seq(S) /\ Take(s \o t, n) \o Drop(s \o t, n) = s \o t
  BY <1>1, SeqParts
<1>3. /\ Take(s, n) \in Seq(S) /\ Len(Take(s, n)) = n
      /\ Drop(s, n) \in Seq(S) /\ Take(s, n) \o Drop(s, n) = s
  BY SeqParts
<1>4. Take(s, n) \o (Drop(s, n) \o t) = s \o t /\ Drop(s, n) \o t \in Seq(S)
  <2>1. (Take(s, n) \o Drop(s, n)) \o t = Take(s, n) \o (Drop(s, n) \o t)
    <3>1. Take(s, n) \in Seq(S) /\ Drop(s, n) \in Seq(S)
      BY <1>3
    <3> QED
      BY <3>1, SeqRegroup
  <2> QED
    BY <1>3, <2>1, SeqJoined
<1> QED
  BY <1>2, <1>3, <1>4, SeqSameParts

(* A sequence in three parts is in two in two ways.                        *)
LEMMA SeqPartsOfParts ==
    ASSUME NEW S, NEW s \in Seq(S), NEW m \in Nat, NEW n \in Nat, m + n <= Len(s)
    PROVE  /\ Take(s, m) \o Take(Drop(s, m), n) = Take(s, m + n)
           /\ Drop(Drop(s, m), n) = Drop(s, m + n)
           /\ Take(Take(s, m + n), m) = Take(s, m)
<1>1. Len(s) \in Nat /\ m \in 0..Len(s) /\ m + n \in 0..Len(s) /\ n \in 0..Len(s) - m
  BY LenProperties
<1> DEFINE a == Take(s, m)
           d == Drop(s, m)
           b == Take(d, n)
           c == Drop(d, n)
<1>2. a \in Seq(S) /\ Len(a) = m /\ d \in Seq(S) /\ Len(d) = Len(s) - m /\ a \o d = s
  BY <1>1, SeqParts
<1> HIDE DEF a, d
<1>3. b \in Seq(S) /\ Len(b) = n /\ c \in Seq(S) /\ b \o c = d
  BY <1>1, <1>2, SeqParts
<1> HIDE DEF b, c
<1>4. /\ Take(s, m + n) \in Seq(S) /\ Len(Take(s, m + n)) = m + n
      /\ Drop(s, m + n) \in Seq(S) /\ Take(s, m + n) \o Drop(s, m + n) = s
  BY <1>1, SeqParts
<1>5. a \o b \in Seq(S) /\ Len(a \o b) = m + n
  BY <1>2, <1>3, SeqJoined
<1>6. (a \o b) \o c = s
  <2>1. (a \o b) \o c = a \o (b \o c)
    <3>1. a \in Seq(S) /\ b \in Seq(S) /\ c \in Seq(S)
      BY <1>2, <1>3
    <3> QED
      BY <3>1, SeqRegroup
  <2> QED
    BY <1>2, <1>3, <2>1
<1>7. a \o b = Take(s, m + n) /\ c = Drop(s, m + n)
  BY <1>3, <1>4, <1>5, <1>6, SeqSameParts
<1>8. Take(a \o b, m) = a
  BY <1>2, <1>3, SeqPartsOfBoth
<1> QED
  BY <1>7, <1>8 DEF a, b, c, d

(* Of none taken, all is left; of all taken, none.                         *)
LEMMA SeqPartsOfNone ==
    ASSUME NEW S, NEW s \in Seq(S)
    PROVE  /\ Take(s, 0) = <<>> /\ Drop(s, 0) = s
           /\ Take(s, Len(s)) = s /\ Drop(s, Len(s)) = <<>>
<1>1. Len(s) \in Nat
  BY LenProperties
<1> QED
  BY <1>1, SubSeqEmpty, SubSeqFull DEF Take, Drop

(* The same of bytes.                                                      *)
LEMMA Joined ==
    ASSUME NEW s \in Bytes, NEW t \in Bytes
    PROVE  /\ s \o t \in Bytes /\ Len(s) \in Nat /\ Len(t) \in Nat
           /\ Len(s \o t) = Len(s) + Len(t)
           /\ \A i \in 1..Len(s) : (s \o t)[i] = s[i]
           /\ \A i \in 1..Len(t) : (s \o t)[Len(s) + i] = t[i]
           /\ \A i \in Len(s) + 1..Len(s) + Len(t) : (s \o t)[i] = t[i - Len(s)]
BY SeqJoined DEF Bytes

(* Joining bytes is associative.                                           *)
LEMMA Regroup ==
    ASSUME NEW s \in Bytes, NEW t \in Bytes, NEW u \in Bytes
    PROVE  (s \o t) \o u = s \o (t \o u)
BY SeqRegroup DEF Bytes

(* The first n bytes and the others are the bytes.                         *)
LEMMA Parts ==
    ASSUME NEW s \in Bytes, NEW n \in 0..Len(s)
    PROVE  /\ Take(s, n) \in Bytes /\ Len(Take(s, n)) = n
           /\ Drop(s, n) \in Bytes /\ Len(Drop(s, n)) = Len(s) - n
           /\ \A i \in 1..n : Take(s, n)[i] = s[i]
           /\ \A i \in 1..Len(s) - n : Drop(s, n)[i] = s[n + i]
           /\ Take(s, n) \o Drop(s, n) = s
BY SeqParts DEF Bytes

(* Equal bytes have equal parts of equal length.                           *)
LEMMA SameParts ==
    ASSUME NEW s \in Bytes, NEW t \in Bytes, NEW u \in Bytes, NEW v \in Bytes,
           s \o t = u \o v, Len(s) = Len(u)
    PROVE  s = u /\ t = v
BY SeqSameParts DEF Bytes

(* Two pieces joined come apart again.                                     *)
LEMMA PartsOfBoth ==
    ASSUME NEW s \in Bytes, NEW t \in Bytes
    PROVE  Take(s \o t, Len(s)) = s /\ Drop(s \o t, Len(s)) = t
BY SeqPartsOfBoth DEF Bytes

(* More bytes after them change no part of the first.                      *)
LEMMA PartsOfMore ==
    ASSUME NEW s \in Bytes, NEW t \in Bytes, NEW n \in 0..Len(s)
    PROVE  Take(s \o t, n) = Take(s, n) /\ Drop(s \o t, n) = Drop(s, n) \o t
BY SeqPartsOfMore DEF Bytes

(* Taking m and then n bytes is taking m + n.                              *)
LEMMA PartsOfParts ==
    ASSUME NEW s \in Bytes, NEW m \in Nat, NEW n \in Nat, m + n <= Len(s)
    PROVE  /\ Take(s, m) \o Take(Drop(s, m), n) = Take(s, m + n)
           /\ Drop(Drop(s, m), n) = Drop(s, m + n)
           /\ Take(Take(s, m + n), m) = Take(s, m)
BY SeqPartsOfParts DEF Bytes

(* Of no bytes taken, all are left; of all taken, none.                    *)
LEMMA PartsOfNone ==
    ASSUME NEW s \in Bytes
    PROVE  /\ Take(s, 0) = <<>> /\ Drop(s, 0) = s
           /\ Take(s, Len(s)) = s /\ Drop(s, Len(s)) = <<>>
BY SeqPartsOfNone DEF Bytes

(* Bytes have a length, which is 0 of none only.                           *)
LEMMA Lens ==
    ASSUME NEW s \in Bytes
    PROVE  Len(s) \in Nat /\ (Len(s) = 0 <=> s = <<>>)
BY LenProperties, EmptySeq DEF Bytes

(* The piece of a sequence from m to n.                                    *)
LEMMA SeqPiece ==
    ASSUME NEW S, NEW s \in Seq(S), NEW m \in Nat, NEW n \in Nat, m <= n, n <= Len(s)
    PROVE  /\ SubSeq(s, m + 1, n) \in Seq(S) /\ Len(SubSeq(s, m + 1, n)) = n - m
           /\ \A i \in 1..n - m : SubSeq(s, m + 1, n)[i] = s[m + i]
<1>1. \A i \in m + 1..n : s[i] \in S
  <2>1. Len(s) \in Nat
    BY LenProperties
  <2> QED
    BY <2>1, ElementOfSeq
<1>2. /\ SubSeq(s, m + 1, n) \in Seq(S)
      /\ Len(SubSeq(s, m + 1, n)) = IF m + 1 <= n THEN n - (m + 1) + 1 ELSE 0
      /\ \A i \in 1..n - (m + 1) + 1 : SubSeq(s, m + 1, n)[i] = s[m + 1 + i - 1]
  BY <1>1, SubSeqProperties
<1> QED
  BY <1>2

(* The piece of bytes from m to n.                                         *)
LEMMA Piece ==
    ASSUME NEW s \in Bytes, NEW m \in Nat, NEW n \in Nat, m <= n, n <= Len(s)
    PROVE  /\ SubSeq(s, m + 1, n) \in Bytes /\ Len(SubSeq(s, m + 1, n)) = n - m
           /\ \A i \in 1..n - m : SubSeq(s, m + 1, n)[i] = s[m + i]
BY SeqPiece DEF Bytes

(* The parts of a piece are pieces.                                        *)
LEMMA SeqPartsOfPiece ==
    ASSUME NEW S, NEW s \in Seq(S), NEW m \in Nat, NEW n \in Nat, m <= n, n <= Len(s),
           NEW k \in 0..n - m
    PROVE  /\ Take(SubSeq(s, m + 1, n), k) = SubSeq(s, m + 1, m + k)
           /\ Drop(SubSeq(s, m + 1, n), k) = SubSeq(s, m + k + 1, n)
<1> DEFINE u == SubSeq(s, m + 1, n)
           v == SubSeq(s, m + 1, m + k)
           w == SubSeq(s, m + k + 1, n)
<1>0. Len(s) \in Nat
  BY LenProperties
<1>1. u \in Seq(S) /\ Len(u) = n - m /\ \A i \in 1..n - m : u[i] = s[m + i]
  BY SeqPiece
<1>2. v \in Seq(S) /\ Len(v) = k /\ \A i \in 1..k : v[i] = s[m + i]
  <2>1. m + k \in Nat /\ m <= m + k /\ m + k <= Len(s) /\ m + k - m = k
    BY <1>0
  <2> QED
    BY <2>1, SeqPiece
<1>3. w \in Seq(S) /\ Len(w) = n - m - k /\ \A i \in 1..n - m - k : w[i] = s[m + k + i]
  <2>1. m + k \in Nat /\ m + k <= n /\ n - (m + k) = n - m - k
    BY <1>0
  <2> QED
    BY <2>1, SeqPiece
<1> HIDE DEF u, v, w
<1>4. k \in 0..Len(u)
  BY <1>1
<1>5. /\ Take(u, k) \in Seq(S) /\ Len(Take(u, k)) = k
      /\ Drop(u, k) \in Seq(S) /\ Len(Drop(u, k)) = Len(u) - k
      /\ \A i \in 1..k : Take(u, k)[i] = u[i]
      /\ \A i \in 1..Len(u) - k : Drop(u, k)[i] = u[k + i]
  BY <1>1, <1>4, SeqParts
<1>6. Take(u, k) = v
  <2>1. ASSUME NEW i \in 1..k PROVE Take(u, k)[i] = v[i]
    <3>1. Take(u, k)[i] = u[i]
      BY <1>5
    <3>2. i \in 1..n - m
      OBVIOUS
    <3>3. u[i] = s[m + i] /\ v[i] = s[m + i]
      BY <1>1, <1>2, <3>2
    <3> QED
      BY <3>1, <3>3
  <2> QED
    BY <1>2, <1>5, <2>1, SeqEqual
<1>7. Drop(u, k) = w
  <2>1. ASSUME NEW i \in 1..n - m - k PROVE Drop(u, k)[i] = w[i]
    <3>1. i \in 1..Len(u) - k
      BY <1>1
    <3>2. Drop(u, k)[i] = u[k + i]
      BY <1>5, <3>1
    <3>3. k + i \in 1..n - m /\ m + (k + i) = m + k + i
      OBVIOUS
    <3>4. u[k + i] = s[m + (k + i)]
      BY <1>1, <3>3
    <3>5. w[i] = s[m + k + i]
      BY <1>3
    <3> QED
      BY <3>2, <3>3, <3>4, <3>5
  <2>2. Len(Drop(u, k)) = n - m - k
    BY <1>1, <1>5
  <2> QED
    BY <1>3, <1>5, <2>1, <2>2, SeqEqual
<1> QED
  BY <1>6, <1>7 DEF u, v, w

(* The parts of a piece of bytes are pieces.                               *)
LEMMA PartsOfPiece ==
    ASSUME NEW s \in Bytes, NEW m \in Nat, NEW n \in Nat, m <= n, n <= Len(s), NEW k \in 0..n - m
    PROVE  /\ Take(SubSeq(s, m + 1, n), k) = SubSeq(s, m + 1, m + k)
           /\ Drop(SubSeq(s, m + 1, n), k) = SubSeq(s, m + k + 1, n)
BY SeqPartsOfPiece DEF Bytes

(* The n bytes after the first a.                                          *)
LEMMA PieceAt ==
    ASSUME NEW s \in Bytes, NEW a \in Nat, NEW n \in Nat, a + n <= Len(s)
    PROVE  /\ SubSeq(s, a + 1, a + n) \in Bytes /\ Len(SubSeq(s, a + 1, a + n)) = n
           /\ \A i \in 1..n : SubSeq(s, a + 1, a + n)[i] = s[a + i]
<1>1. a + n \in Nat /\ a <= a + n /\ a + n - a = n
  OBVIOUS
<1>2. /\ SubSeq(s, a + 1, a + n) \in Bytes /\ Len(SubSeq(s, a + 1, a + n)) = a + n - a
      /\ \A i \in 1..a + n - a : SubSeq(s, a + 1, a + n)[i] = s[a + i]
  BY <1>1, Piece
<1> QED
  BY <1>1, <1>2

(* Bytes are equal that are equal at each position.                        *)
LEMMA SameBytes ==
    ASSUME NEW s \in Bytes, NEW t \in Bytes, Len(s) = Len(t), \A i \in 1..Len(s) : s[i] = t[i]
    PROVE  s = t
BY SeqEqual DEF Bytes

-----------------------------------------------------------------------------
(* The Reader.  Its stream is what it has not given yet: the unread bytes  *)
(* of                                                                      *)
(* the buffer, and what is still to come from the socket.  An operation is *)
(* told by what it takes of the stream, and keeps the memory in use.       *)

(* What is to be read.                                                     *)
Stream(b) == Unread(b) \o b.in

(* A slice of memory that is taken; it keeps its bytes.                    *)
Used(b, s) ==
    /\ s \in Slices /\ s.of = "mem" /\ s.at + s.len <= Len(b.mem)
    /\ s.at + s.len <= b.next \/ b.next + b.left <= s.at

Keeps(b, c) ==
    \A s \in Slices : Used(b, s) => Used(c, s) /\ BytesOf(c, s) = BytesOf(b, s)

SameMemory(b, c) == c.mem = b.mem /\ c.next = b.next /\ c.left = b.left

(* Memory in use is kept by a step that changes no memory, and by two      *)
(* steps that keep it.                                                     *)
LEMMA KeptIsKept ==
    ASSUME NEW b, NEW c, NEW d
    PROVE  /\ SameMemory(b, c) => Keeps(b, c)
           /\ Keeps(b, c) /\ Keeps(c, d) => Keeps(b, d)
<1>1. ASSUME SameMemory(b, c), NEW s \in Slices, Used(b, s)
      PROVE  Used(c, s) /\ BytesOf(c, s) = BytesOf(b, s)
  BY <1>1 DEF SameMemory, Used, BytesOf
<1> QED
  BY <1>1 DEF Keeps

(* The fields of a Reader, and how long its stream is.                     *)
LEMMA ReaderTyped ==
    ASSUME NEW b \in Reader
    PROVE  /\ b.buf \in Bytes /\ Len(b.buf) = ReaderSize /\ ReaderSize \in Nat \ {0}
           /\ b.rpos \in Nat /\ b.wpos \in Nat /\ b.rpos <= b.wpos /\ b.wpos <= ReaderSize
           /\ b.err \in BOOLEAN /\ b.in \in Bytes
           /\ b.first \in Nat \ {0} /\ b.chunk \in Nat \ {0}
           /\ b.mem \in Bytes /\ Len(b.mem) \in Nat
           /\ b.next \in Nat /\ b.left \in Nat /\ b.next + b.left <= Len(b.mem)
           /\ Unread(b) \in Bytes /\ Len(Unread(b)) = buffered(b)
           /\ buffered(b) \in 0..ReaderSize
           /\ Stream(b) \in Bytes /\ Len(b.in) \in Nat
           /\ Len(Stream(b)) = buffered(b) + Len(b.in)
<1>1. /\ b.buf \in Bytes /\ Len(b.buf) = ReaderSize /\ ReaderSize \in Nat \ {0}
      /\ b.rpos \in Nat /\ b.wpos \in Nat /\ b.rpos <= b.wpos /\ b.wpos <= ReaderSize
      /\ b.err \in BOOLEAN /\ b.in \in Bytes
      /\ b.first \in Nat \ {0} /\ b.chunk \in Nat \ {0}
      /\ b.mem \in Bytes
      /\ b.next \in Nat /\ b.left \in Nat /\ b.next + b.left <= Len(b.mem)
  BY BufioAssumption DEF Reader, Bytes, BufioAssumption
<1>2. Unread(b) \in Bytes /\ Len(Unread(b)) = buffered(b)
  <2>1. /\ SubSeq(b.buf, b.rpos + 1, b.wpos) \in Bytes
        /\ Len(SubSeq(b.buf, b.rpos + 1, b.wpos)) = b.wpos - b.rpos
    BY <1>1, Piece
  <2> QED
    BY <2>1 DEF Unread, buffered
<1>3. Len(b.mem) \in Nat /\ Len(b.in) \in Nat
  BY <1>1, Lens
<1>4. buffered(b) \in 0..ReaderSize
  BY <1>1 DEF buffered
<1>5. Stream(b) \in Bytes /\ Len(Stream(b)) = buffered(b) + Len(b.in)
  <2>1. Unread(b) \in Bytes /\ b.in \in Bytes
    BY <1>1, <1>2
  <2>2. Unread(b) \o b.in \in Bytes /\ Len(Unread(b) \o b.in) = Len(Unread(b)) + Len(b.in)
    BY <2>1, Joined
  <2> QED
    BY <1>2, <2>2 DEF Stream
<1> QED
  BY <1>1, <1>2, <1>3, <1>4, <1>5

(* A read of the socket.                                                   *)
LEMMA FromSocketReads ==
    ASSUME NEW b \in Reader, NEW space \in Nat
    PROVE  LET r == FromSocket(b, space)
           IN  /\ r.v \in Bytes /\ Len(r.v) <= space /\ r.v \o r.b.in = b.in
               /\ r.b.in \in Bytes
               /\ Len(r.v) = 0 <=> space = 0 \/ b.in = <<>>
               /\ r.ok \in BOOLEAN /\ (r.ok <=> Len(r.v) > 0)
               /\ r.b.err \in BOOLEAN /\ (r.b.err <=> Len(r.v) = 0)
               /\ r.b = [b EXCEPT !.in = r.b.in, !.first = b.chunk, !.err = r.b.err]
<1> DEFINE n == LeastOf(space, LeastOf(b.first, Len(b.in)))
<1>0. /\ b.in \in Bytes /\ Len(b.in) \in Nat /\ b.first \in Nat \ {0}
  BY ReaderTyped
<1>1. n \in 0..Len(b.in) /\ n <= space
  BY <1>0 DEF LeastOf
<1>2. n = 0 <=> space = 0 \/ b.in = <<>>
  <2>1. Len(b.in) = 0 <=> b.in = <<>>
    BY <1>0, EmptySeq
  <2> QED
    BY <1>0, <2>1 DEF LeastOf
<1>3. b = [b EXCEPT !.in = b.in]
  BY DEF Reader
<1> HIDE DEF n
<1>4. /\ Take(b.in, n) \in Bytes /\ Len(Take(b.in, n)) = n
      /\ Drop(b.in, n) \in Bytes /\ Take(b.in, n) \o Drop(b.in, n) = b.in
  BY <1>0, <1>1, Parts
<1>5. /\ FromSocket(b, space).v = Take(b.in, n)
      /\ FromSocket(b, space).b = [b EXCEPT !.in = Drop(b.in, n), !.first = b.chunk, !.err = n = 0]
      /\ FromSocket(b, space).ok = (n > 0)
  BY DEF FromSocket, Ok, Take, Drop, n
<1>6. /\ FromSocket(b, space).b.in = Drop(b.in, n)
      /\ FromSocket(b, space).b.err = (n = 0)
  BY <1>5 DEF Reader
<1> DEFINE r == FromSocket(b, space)
<1>7. r.v \in Bytes /\ Len(r.v) = n /\ r.v \o r.b.in = b.in /\ r.b.in \in Bytes
  BY <1>4, <1>5, <1>6
<1>8. r.ok \in BOOLEAN /\ (r.ok <=> n > 0)
  <2>1. FromSocket(b, space).ok \in BOOLEAN
    BY <1>0, <1>1, <1>5
  <2>2. FromSocket(b, space).ok <=> n > 0
    BY <1>0, <1>1, <1>5
  <2> QED
    BY <2>1, <2>2
<1>9. r.b.err \in BOOLEAN /\ (r.b.err <=> n = 0)
  BY <1>6
<1>10. r.b = [b EXCEPT !.in = r.b.in, !.first = b.chunk, !.err = r.b.err]
  BY <1>5, <1>6
<1> HIDE DEF r
<1>11. /\ r.v \in Bytes /\ Len(r.v) <= space /\ r.v \o r.b.in = b.in
       /\ r.b.in \in Bytes
       /\ Len(r.v) = 0 <=> space = 0 \/ b.in = <<>>
       /\ r.ok \in BOOLEAN /\ (r.ok <=> Len(r.v) > 0)
       /\ r.b.err \in BOOLEAN /\ (r.b.err <=> Len(r.v) = 0)
  BY <1>1, <1>2, <1>7, <1>8, <1>9
<1> QED
  BY <1>10, <1>11 DEF r

(* A Reader whose buffer and positions change stays a Reader.              *)
LEMMA SameBuffer ==
    ASSUME NEW b \in Reader, NEW c, SameMemory(b, c), c.err \in BOOLEAN,
           c = [b EXCEPT !.in = c.in, !.first = c.first, !.err = c.err, !.rpos = c.rpos,
                         !.wpos = c.wpos, !.buf = c.buf],
           c.in \in Bytes, c.first \in Nat \ {0},
           c.rpos \in Nat, c.wpos \in Nat, c.rpos <= c.wpos, c.wpos <= ReaderSize,
           c.buf \in Bytes, Len(c.buf) = ReaderSize
    PROVE  c \in Reader
<1>1. /\ b.chunk \in Nat \ {0} /\ b.mem \in Bytes
      /\ b.next \in Nat /\ b.left \in Nat /\ b.next + b.left <= Len(b.mem)
  BY ReaderTyped
<1> QED
  BY <1>1 DEF Reader, Bytes, SameMemory

(* The buffer is filled from the socket (bufio.go 43-57).                  *)
LEMMA Fills ==
    ASSUME NEW b \in Reader, ~ b.err, buffered(b) < ReaderSize
    PROVE  LET c == fill(b)
           IN  /\ c \in Reader /\ SameMemory(b, c) /\ Stream(c) = Stream(b)
               /\ c.err \in BOOLEAN /\ (c.err <=> b.in = <<>>)
               /\ c.err => buffered(c) = buffered(b)
               /\ ~ c.err => buffered(c) > buffered(b)
<1> DEFINE s == FromSocket(b, ReaderSize - buffered(b))
           bytes == Unread(b) \o s.v
           rest == SubSeq(b.buf, Len(bytes) + 1, Len(b.buf))
           c == [s.b EXCEPT !.rpos = 0, !.wpos = Len(bytes), !.buf = bytes \o rest]
<1>1. /\ s.v \in Bytes /\ Len(s.v) <= ReaderSize - buffered(b) /\ s.v \o s.b.in = b.in
      /\ s.b.in \in Bytes /\ Len(s.v) \in Nat
      /\ Len(s.v) = 0 <=> b.in = <<>>
      /\ s.b.err \in BOOLEAN /\ (s.b.err <=> Len(s.v) = 0)
      /\ s.b = [b EXCEPT !.in = s.b.in, !.first = b.chunk, !.err = s.b.err]
  <2>1. ReaderSize - buffered(b) \in Nat \ {0}
    BY ReaderTyped
  <2> QED
    BY <2>1, FromSocketReads, Lens
<1> HIDE DEF s
<1>2. /\ Unread(b) \in Bytes /\ Len(Unread(b)) = buffered(b) /\ buffered(b) \in 0..ReaderSize
      /\ b.buf \in Bytes /\ Len(b.buf) = ReaderSize /\ ReaderSize \in Nat
      /\ b.in \in Bytes /\ b.chunk \in Nat \ {0}
      /\ b.mem \in Bytes
  BY ReaderTyped
<1>3. bytes \in Bytes /\ Len(bytes) = buffered(b) + Len(s.v)
  <2>1. s.v \in Bytes /\ Unread(b) \in Bytes
    BY <1>1, <1>2
  <2>2. bytes \in Bytes /\ Len(bytes) = Len(Unread(b)) + Len(s.v)
    BY <2>1, Joined
  <2> QED
    BY <1>2, <2>2
<1> HIDE DEF bytes
<1>4. bytes \o rest \in Bytes /\ Len(bytes \o rest) = ReaderSize
  <2>1. rest \in Bytes /\ Len(rest) = ReaderSize - Len(bytes) /\ Len(bytes) \in Nat
    <3>1. Len(bytes) \in 0..Len(b.buf)
      BY <1>1, <1>2, <1>3
    <3>2. rest = Drop(b.buf, Len(bytes))
      BY DEF Drop
    <3>3. Drop(b.buf, Len(bytes)) \in Bytes /\ Len(Drop(b.buf, Len(bytes))) = Len(b.buf) - Len(bytes)
      BY <1>2, <3>1, Parts
    <3>4. Len(bytes) \in Nat
      BY <1>2, <3>1
    <3> QED
      BY <1>2, <3>2, <3>3, <3>4
  <2> HIDE DEF rest
  <2>2. Len(bytes \o rest) = Len(bytes) + Len(rest) /\ bytes \o rest \in Bytes
    BY <1>3, <2>1, Joined
  <2> QED
    BY <1>2, <2>1, <2>2
<1>5. Unread(c) = bytes
  <2>1. Take(bytes \o rest, Len(bytes)) = bytes
    <3>1. rest \in Bytes
      <4>1. Len(bytes) \in 0..Len(b.buf)
        BY <1>1, <1>2, <1>3
      <4>2. rest = Drop(b.buf, Len(bytes))
        BY DEF Drop
      <4> QED
        BY <1>2, <4>1, <4>2, Parts
    <3> QED
      BY <1>3, <3>1, PartsOfBoth
  <2>2. c.buf = bytes \o rest /\ c.rpos = 0 /\ c.wpos = Len(bytes)
    BY <1>1 DEF Reader
  <2> QED
    BY <2>1, <2>2 DEF Unread, Take
<1> HIDE DEF rest
<1>6. /\ c.buf = bytes \o rest /\ c.rpos = 0 /\ c.wpos = Len(bytes) /\ c.in = s.b.in
      /\ c.err = s.b.err /\ c.first = b.chunk /\ SameMemory(b, c)
      /\ c = [b EXCEPT !.in = c.in, !.first = c.first, !.err = c.err, !.rpos = c.rpos,
                         !.wpos = c.wpos, !.buf = c.buf]
  <2>1. b = [buf |-> b.buf, rpos |-> b.rpos, wpos |-> b.wpos, err |-> b.err, in |-> b.in,
             first |-> b.first, chunk |-> b.chunk, mem |-> b.mem, next |-> b.next, left |-> b.left]
    BY DEF Reader
  <2> QED
    BY <1>1, <2>1 DEF SameMemory
<1>7. fill(b) = c
  <2>1. b.buf = s.b.buf
    BY <1>1 DEF Reader
  <2> QED
    BY <2>1 DEF fill, s, c, bytes, rest
<1> HIDE DEF c
<1>8. c \in Reader
  <2>1. c.wpos <= ReaderSize /\ c.wpos \in Nat
    BY <1>1, <1>2, <1>3, <1>6
  <2>2. c.err \in BOOLEAN
    BY <1>1, <1>6
  <2> QED
    <3>1. c.rpos <= c.wpos /\ c.rpos \in Nat
      BY <1>6, <2>1
    <3>2. c.first \in Nat \ {0} /\ c.in \in Bytes
      BY <1>1, <1>2, <1>6
    <3> HIDE DEF SameMemory
    <3> QED
      BY <1>4, <1>6, <2>1, <2>2, <3>1, <3>2, SameBuffer
<1>9. Stream(c) = Stream(b)
  <2>1. s.v \in Bytes /\ s.b.in \in Bytes /\ Unread(b) \in Bytes
    BY <1>1, <1>2
  <2>2. (Unread(b) \o s.v) \o s.b.in = Unread(b) \o (s.v \o s.b.in)
    BY <2>1, Regroup
  <2> QED
    BY <1>1, <1>5, <1>6, <2>2 DEF Stream, bytes
<1>10. buffered(c) = buffered(b) + Len(s.v)
  BY <1>1, <1>2, <1>3, <1>6 DEF buffered
<1>11. c.err \in BOOLEAN /\ (c.err <=> b.in = <<>>)
  BY <1>1, <1>6
<1>12. c.err => buffered(c) = buffered(b)
  <2>1. c.err => Len(s.v) = 0
    BY <1>1, <1>6
  <2> QED
    BY <1>2, <1>10, <2>1
<1>13. ~ c.err => buffered(c) > buffered(b)
  <2>1. ~ c.err => Len(s.v) > 0 /\ Len(s.v) \in Nat
    BY <1>1, <1>6
  <2> QED
    BY <1>2, <1>10, <2>1
<1>14. SameMemory(b, c)
  BY <1>6
<1> QED
  BY <1>7, <1>8, <1>9, <1>11, <1>12, <1>13, <1>14

(* The first line end of these bytes.                                      *)
SlicingRank(b) == IF b.err THEN 0 ELSE ReaderSize + 1 - buffered(b)
SlicingDone(b) == b.err \/ LineEnd(Unread(b)) > 0 \/ buffered(b) = ReaderSize
SlicingOut(b) == UpTo(b, LineEnd(Unread(b)))
SlicingMore(b, r) == r
Sliced(b, r) ==
    LET e == LineEnd(Stream(b))
    IN  /\ r.b \in Reader /\ SameMemory(b, r.b)
        /\ r.ok \in BOOLEAN /\ (r.ok <=> ~ b.err /\ e \in 1..ReaderSize)
        /\ r.ok =>
              /\ ~ r.b.err /\ r.v \in Slices /\ r.v.of = "buf" /\ r.v.len = e
              /\ r.v.at + r.v.len <= ReaderSize
              /\ BytesOf(r.b, r.v) = Take(Stream(b), e)
              /\ Stream(r.b) = Drop(Stream(b), e)
        /\ ~ r.ok /\ ~ r.b.err =>
              /\ Len(Stream(b)) >= ReaderSize
              /\ BytesOf(r.b, r.v) = Take(Stream(b), ReaderSize)
              /\ Stream(r.b) = Drop(Stream(b), ReaderSize)
        /\ ~ b.err /\ r.b.err => e = 0
        /\ b.err => r.b.err

Slicing == INSTANCE Recursion
    WITH States <- Reader, Rank <- SlicingRank, Done <- SlicingDone, Out <- SlicingOut,
         Step <- fill, More <- SlicingMore, Good <- Sliced

(* LineEnd is 0 or the position of the first line end.                     *)
LEMMA LineEndFound ==
    ASSUME NEW s \in Bytes
    PROVE  /\ LineEnd(s) \in 0..Len(s)
           /\ LineEnd(s) = 0 <=> \A i \in 1..Len(s) : s[i] # "LF"
           /\ LineEnd(s) > 0 => s[LineEnd(s)] = "LF" /\ \A i \in 1..LineEnd(s) - 1 : s[i] # "LF"
<1> DEFINE I == {i \in 1..Len(s) : s[i] = "LF"}
<1>1. Len(s) \in Nat
  BY Lens
<1>2. CASE I = {}
  <2>1. LineEnd(s) = 0
    BY <1>2 DEF LineEnd, SelectInSeq
  <2> QED
    BY <1>1, <1>2, <2>1
<1>3. CASE I # {}
  <2>1. I \subseteq Nat
    BY <1>1
  <2>2. PICK n \in I : \A m \in I : n <= m
    BY <1>3, <2>1, Slicing!Least
  <2>3. LineEnd(s) = CHOOSE x \in I : \A y \in I : x =< y
    BY <1>3 DEF LineEnd, SelectInSeq, Min
  <2>4. LineEnd(s) \in I /\ \A m \in I : LineEnd(s) <= m
    BY <2>2, <2>3
  <2> HIDE <2>3
  <2>5. LineEnd(s) \in 1..Len(s) /\ s[LineEnd(s)] = "LF"
    BY <2>4
  <2>6. \A i \in 1..LineEnd(s) - 1 : s[i] # "LF"
    BY <1>1, <2>4, <2>5
  <2> QED
    BY <1>1, <2>5, <2>6
<1> QED
  BY <1>2, <1>3

(* The first line end is where LineEnd says.                               *)
LEMMA LineEndIs ==
    ASSUME NEW s \in Bytes, NEW e \in 1..Len(s), s[e] = "LF", \A i \in 1..e - 1 : s[i] # "LF"
    PROVE  LineEnd(s) = e
<1>1. Len(s) \in Nat
  BY Lens
<1> QED
  BY <1>1, LineEndFound

(* More bytes do not move a line end, and one that is found later is in    *)
(* them.                                                                   *)
LEMMA LineEndOfMore ==
    ASSUME NEW s \in Bytes, NEW t \in Bytes
    PROVE  /\ LineEnd(s) > 0 => LineEnd(s \o t) = LineEnd(s)
           /\ LineEnd(s) = 0 => LineEnd(s \o t) = 0 \/ LineEnd(s \o t) > Len(s)
           /\ LineEnd(s) = 0 /\ LineEnd(s \o t) = 0 => LineEnd(t) = 0
           /\ LineEnd(s) = 0 /\ LineEnd(s \o t) > 0 => LineEnd(t) = LineEnd(s \o t) - Len(s)
<1>1. /\ s \o t \in Bytes /\ Len(s) \in Nat /\ Len(t) \in Nat
      /\ Len(s \o t) = Len(s) + Len(t)
      /\ \A i \in 1..Len(s) : (s \o t)[i] = s[i]
  BY Joined
<1>2. ASSUME LineEnd(s) > 0 PROVE LineEnd(s \o t) = LineEnd(s)
  <2> DEFINE e == LineEnd(s)
  <2>1. e \in 1..Len(s) /\ s[e] = "LF" /\ \A i \in 1..e - 1 : s[i] # "LF"
    BY <1>1, <1>2, LineEndFound
  <2> HIDE DEF e
  <2>2. e \in 1..Len(s \o t) /\ (s \o t)[e] = "LF" /\ \A i \in 1..e - 1 : (s \o t)[i] # "LF"
    BY <1>1, <2>1
  <2>3. LineEnd(s \o t) = e
    BY <1>1, <2>2, LineEndIs
  <2> QED
    BY <2>3 DEF e
<1>3. ASSUME LineEnd(s) = 0, LineEnd(s \o t) # 0 PROVE LineEnd(s \o t) > Len(s)
  <2> DEFINE e == LineEnd(s \o t)
  <2>1. e \in 1..Len(s \o t) /\ (s \o t)[e] = "LF"
    <3> DEFINE u == s \o t
    <3>1. u \in Bytes /\ Len(u) \in Nat /\ LineEnd(u) # 0
      BY <1>1, <1>3
    <3> HIDE DEF u
    <3>2. LineEnd(u) \in 1..Len(u) /\ u[LineEnd(u)] = "LF"
      BY <3>1, LineEndFound
    <3> QED
      BY <3>2 DEF u
  <2>2. \A i \in 1..Len(s) : s[i] # "LF"
    BY <1>3, LineEndFound
  <2> HIDE DEF e
  <2>3. e > Len(s)
    BY <1>1, <2>1, <2>2
  <2> QED
    BY <2>3 DEF e
<1>4. \A i \in 1..Len(t) : (s \o t)[Len(s) + i] = t[i]
  BY Joined
<1>5. ASSUME LineEnd(s) = 0, LineEnd(s \o t) = 0 PROVE LineEnd(t) = 0
  <2>1. \A i \in 1..Len(s \o t) : (s \o t)[i] # "LF"
    BY <1>1, <1>5, LineEndFound
  <2>2. ASSUME NEW i \in 1..Len(t) PROVE t[i] # "LF"
    <3>1. Len(s) + i \in 1..Len(s \o t)
      BY <1>1
    <3> QED
      BY <1>4, <2>1, <3>1
  <2> QED
    BY <2>2, LineEndFound
<1>6. ASSUME LineEnd(s) = 0, LineEnd(s \o t) > 0 PROVE LineEnd(t) = LineEnd(s \o t) - Len(s)
  <2> DEFINE u == s \o t
             e == LineEnd(u)
  <2>1. u \in Bytes /\ Len(u) = Len(s) + Len(t) /\ e > Len(s) /\ e > 0
    BY <1>1, <1>3, <1>6
  <2>2. \A i \in 1..Len(t) : u[Len(s) + i] = t[i]
    BY <1>4
  <2> HIDE DEF u
  <2>3. e \in 1..Len(u) /\ u[e] = "LF" /\ \A i \in 1..e - 1 : u[i] # "LF"
    BY <1>1, <2>1, LineEndFound
  <2> HIDE DEF e
  <2> DEFINE k == e - Len(s)
  <2>4. k \in 1..Len(t) /\ Len(s) + k = e
    BY <1>1, <2>1, <2>3
  <2>5. t[k] = "LF"
    BY <2>2, <2>3, <2>4
  <2>6. ASSUME NEW i \in 1..k - 1 PROVE t[i] # "LF"
    <3>1. i \in 1..Len(t) /\ Len(s) + i \in 1..e - 1
      BY <1>1, <2>4
    <3> QED
      BY <2>2, <2>3, <3>1
  <2> HIDE DEF k
  <2>7. LineEnd(t) = k
    BY <2>4, <2>5, <2>6, LineEndIs
  <2> QED
    BY <2>7 DEF k, e, u
<1> QED
  BY <1>2, <1>3, <1>5, <1>6

(* Each round of ReadSlice finds a line end or an error, fills the buffer, *)
(* or takes from the socket.                                               *)
LEMMA SlicingDescends == Slicing!Descends
<1> SUFFICES ASSUME NEW b \in Reader
             PROVE  /\ SlicingRank(b) \in Nat
                    /\ ~ SlicingDone(b) => fill(b) \in Reader /\ SlicingRank(fill(b)) < SlicingRank(b)
  BY DEF Slicing!Descends
<1>1. /\ b.err \in BOOLEAN /\ buffered(b) \in 0..ReaderSize /\ ReaderSize \in Nat
  BY ReaderTyped
<1>2. SlicingRank(b) \in Nat
  BY <1>1 DEF SlicingRank
<1>3. ASSUME ~ SlicingDone(b) PROVE fill(b) \in Reader /\ SlicingRank(fill(b)) < SlicingRank(b)
  <2>1. ~ b.err /\ buffered(b) < ReaderSize
    BY <1>1, <1>3 DEF SlicingDone
  <2>2. /\ fill(b) \in Reader /\ fill(b).err \in BOOLEAN
        /\ ~ fill(b).err => buffered(fill(b)) > buffered(b)
    BY <2>1, Fills
  <2>3. buffered(fill(b)) \in 0..ReaderSize
    BY <2>2, ReaderTyped
  <2> QED
    BY <1>1, <2>1, <2>2, <2>3 DEF SlicingRank
<1> QED
  BY <1>2, <1>3

(* ReadSlice is what its loop computes.                                    *)
LEMMA ReadSliceUnfolds == ReadSlice = [b \in Reader |-> Slicing!Value(ReadSlice, b)]
<1>1. \E f : f = [b \in Reader |-> Slicing!Value(f, b)]
  BY SlicingDescends, Slicing!Exists
<1>2. \E f : f = [b \in Reader |->
          LET lf == LineEnd(Unread(b))
          IN  IF b.err \/ lf > 0 \/ buffered(b) = ReaderSize THEN UpTo(b, lf)
              ELSE f[fill(b)]]
  BY <1>1 DEF Slicing!Value, SlicingDone, SlicingOut, SlicingMore
<1>3. ReadSlice = [b \in Reader |->
          LET lf == LineEnd(Unread(b))
          IN  IF b.err \/ lf > 0 \/ buffered(b) = ReaderSize THEN UpTo(b, lf)
              ELSE ReadSlice[fill(b)]]
  BY <1>2 DEF ReadSlice
<1> QED
  BY <1>3 DEF Slicing!Value, SlicingDone, SlicingOut, SlicingMore

(* Only the position is moved.                                             *)
LEMMA Moves ==
    ASSUME NEW b \in Reader, NEW k \in 0..buffered(b)
    PROVE  LET c == [b EXCEPT !.rpos = @ + k]
           IN  /\ c \in Reader /\ SameMemory(b, c) /\ c.err = b.err /\ c.buf = b.buf
               /\ Take(Stream(b), k) = SubSeq(b.buf, b.rpos + 1, b.rpos + k)
               /\ Take(Stream(b), k) = SubSeq(Unread(b), 1, k)
               /\ Stream(c) = Drop(Stream(b), k)
<1> DEFINE c == [b EXCEPT !.rpos = @ + k]
<1>1. /\ b.buf \in Bytes /\ Len(b.buf) = ReaderSize /\ ReaderSize \in Nat
      /\ b.rpos \in Nat /\ b.wpos \in Nat /\ b.rpos <= b.wpos /\ b.wpos <= ReaderSize
      /\ b.in \in Bytes /\ b.first \in Nat \ {0} /\ b.err \in BOOLEAN
      /\ Unread(b) \in Bytes /\ Len(Unread(b)) = buffered(b) /\ k \in Nat
      /\ b.rpos + k <= b.wpos
  BY ReaderTyped DEF buffered
<1>2. /\ c.rpos = b.rpos + k /\ c.wpos = b.wpos /\ c.buf = b.buf /\ c.in = b.in
      /\ c.err = b.err /\ c.first = b.first /\ SameMemory(b, c)
      /\ c = [b EXCEPT !.in = c.in, !.first = c.first, !.err = c.err, !.rpos = c.rpos,
                         !.wpos = c.wpos, !.buf = c.buf]
  BY DEF Reader, SameMemory
<1> HIDE DEF c
<1>3. c \in Reader
  <2>1. c.rpos \in Nat /\ c.rpos <= c.wpos
    BY <1>1, <1>2
  <2> HIDE DEF SameMemory
  <2> QED
    BY <1>1, <1>2, <2>1, SameBuffer
<1>4. /\ SubSeq(b.buf, b.rpos + 1, b.rpos + k) = Take(Unread(b), k)
      /\ SubSeq(b.buf, b.rpos + k + 1, b.wpos) = Drop(Unread(b), k)
  <2>1. k \in 0..b.wpos - b.rpos
    BY DEF buffered
  <2> QED
    <3>1. /\ Take(SubSeq(b.buf, b.rpos + 1, b.wpos), k) = SubSeq(b.buf, b.rpos + 1, b.rpos + k)
          /\ Drop(SubSeq(b.buf, b.rpos + 1, b.wpos), k) = SubSeq(b.buf, b.rpos + k + 1, b.wpos)
      <4>1. /\ b.buf \in Bytes /\ b.rpos \in Nat /\ b.wpos \in Nat
            /\ b.rpos <= b.wpos /\ b.wpos <= Len(b.buf) /\ k \in 0..b.wpos - b.rpos
        BY <1>1, <2>1
      <4> QED
        BY <4>1, PartsOfPiece
    <3> QED
      BY <3>1 DEF Unread
<1>5. Unread(c) = Drop(Unread(b), k)
  BY <1>2, <1>4 DEF Unread
<1>6. /\ Take(Unread(b) \o b.in, k) = Take(Unread(b), k)
      /\ Drop(Unread(b) \o b.in, k) = Drop(Unread(b), k) \o b.in
  BY <1>1, PartsOfMore
<1>7. Stream(c) = Drop(Stream(b), k)
  BY <1>2, <1>5, <1>6 DEF Stream
<1>8. /\ c \in Reader /\ SameMemory(b, c) /\ c.err = b.err /\ c.buf = b.buf
      /\ Take(Stream(b), k) = SubSeq(b.buf, b.rpos + 1, b.rpos + k)
      /\ Take(Stream(b), k) = SubSeq(Unread(b), 1, k)
      /\ Stream(c) = Drop(Stream(b), k)
  BY <1>2, <1>3, <1>4, <1>6, <1>7 DEF Stream, Take
<1> QED
  BY <1>8 DEF c

(* The end of ReadSlice: up to the line end, or all of a full buffer       *)
(* (bufio.go 115-135).                                                     *)
LEMMA SlicesUpTo ==
    ASSUME NEW b \in Reader, SlicingDone(b)
    PROVE  Sliced(b, SlicingOut(b))
<1> DEFINE e == LineEnd(Unread(b))
           r == UpTo(b, e)
<1>0. /\ b.err \in BOOLEAN /\ buffered(b) \in 0..ReaderSize /\ ReaderSize \in Nat \ {0}
      /\ Unread(b) \in Bytes /\ Len(Unread(b)) = buffered(b) /\ b.in \in Bytes
      /\ Stream(b) \in Bytes /\ Len(Stream(b)) = buffered(b) + Len(b.in) /\ Len(b.in) \in Nat
      /\ b.rpos \in Nat /\ b.wpos \in Nat /\ b.buf \in Bytes /\ Len(b.buf) = ReaderSize
      /\ b.wpos <= ReaderSize /\ b.rpos <= b.wpos
  BY ReaderTyped
<1>1. e \in 0..buffered(b)
  BY <1>0, LineEndFound
<1>2. /\ e > 0 => LineEnd(Stream(b)) = e
      /\ e = 0 => LineEnd(Stream(b)) = 0 \/ LineEnd(Stream(b)) > buffered(b)
  BY <1>0, LineEndOfMore DEF Stream
<1>3. LineEnd(Stream(b)) \in Nat
  BY <1>0, LineEndFound
<1> HIDE DEF e
<1>4. CASE b.err
  <2>1. r.b = b /\ r.ok = FALSE
    BY <1>4 DEF UpTo, Fail
  <2> QED
    BY <1>4, <2>1 DEF Sliced, SlicingOut, SameMemory, e
<1>5. CASE ~ b.err /\ e > 0
  <2> DEFINE c == [b EXCEPT !.rpos = @ + e]
  <2>1. /\ c \in Reader /\ SameMemory(b, c) /\ c.err = b.err /\ c.buf = b.buf
        /\ Take(Stream(b), e) = SubSeq(b.buf, b.rpos + 1, b.rpos + e)
        /\ Stream(c) = Drop(Stream(b), e)
    BY <1>1, Moves
  <2>2. /\ r.b = c /\ r.ok = TRUE /\ r.v = Slice("buf", b.rpos, e)
    BY <1>5 DEF UpTo, Ok
  <2> HIDE DEF c, r
  <2>3. /\ r.v \in Slices /\ r.v.of = "buf" /\ r.v.len = e /\ r.v.at = b.rpos
        /\ r.v.at + r.v.len <= ReaderSize
    BY <1>0, <1>1, <2>2, ReaderTyped DEF Slice, Slices, buffered
  <2>4. BytesOf(r.b, r.v) = Take(Stream(b), e)
    BY <2>1, <2>2, <2>3 DEF BytesOf
  <2>5. LineEnd(Stream(b)) = e /\ e \in 1..ReaderSize
    BY <1>0, <1>1, <1>2, <1>5
  <2> QED
    BY <1>5, <2>1, <2>2, <2>3, <2>4, <2>5 DEF Sliced, SlicingOut, r, e
<1>6. CASE ~ b.err /\ e = 0
  <2> DEFINE c == [b EXCEPT !.rpos = @ + ReaderSize]
  <2>1. buffered(b) = ReaderSize /\ b.rpos = 0 /\ b.wpos = ReaderSize
    BY <1>0, <1>6 DEF SlicingDone, e, buffered
  <2>2. /\ c \in Reader /\ SameMemory(b, c) /\ c.err = b.err /\ c.buf = b.buf
        /\ Take(Stream(b), ReaderSize) = SubSeq(b.buf, b.rpos + 1, b.rpos + ReaderSize)
        /\ Stream(c) = Drop(Stream(b), ReaderSize)
    BY <1>0, <2>1, Moves
  <2>3. [b EXCEPT !.rpos = b.wpos] = c
    BY <2>1 DEF Reader
  <2>4. r.b = c /\ r.ok = FALSE /\ r.v = Slice("buf", 0, ReaderSize)
    BY <1>6, <2>3 DEF UpTo, Fail
  <2> HIDE DEF c, r
  <2>5. BytesOf(r.b, r.v) = Take(Stream(b), ReaderSize)
    <3>1. r.v.of = "buf" /\ r.v.at = b.rpos /\ r.v.len = ReaderSize /\ r.b.buf = b.buf
      BY <2>1, <2>2, <2>4 DEF Slice
    <3> QED
      BY <2>2, <3>1 DEF BytesOf
  <2>6. ~ (LineEnd(Stream(b)) \in 1..ReaderSize)
    BY <1>0, <1>2, <1>3, <1>6, <2>1
  <2>7. Len(Stream(b)) >= ReaderSize
    BY <1>0, <2>1
  <2> QED
    BY <1>6, <2>2, <2>4, <2>5, <2>6, <2>7 DEF Sliced, SlicingOut, r, e
<1> QED
  BY <1>0, <1>1, <1>4, <1>5, <1>6

(* ReadSlice gives what is before the first line end of the stream,        *)
(* however often it has to fill the buffer (bufio.go 115-135).             *)
LEMMA ReadSliceSlices == \A b \in Reader : Sliced(b, ReadSlice[b])
<1>1. \A s \in Reader : SlicingDone(s) => Sliced(s, SlicingOut(s))
  BY SlicesUpTo
<1>2. ASSUME NEW b \in Reader, NEW r, ~ SlicingDone(b), Sliced(fill(b), r)
      PROVE  Sliced(b, r)
  <2>1. /\ b.err \in BOOLEAN /\ buffered(b) \in 0..ReaderSize /\ ReaderSize \in Nat
        /\ Unread(b) \in Bytes /\ Len(Unread(b)) = buffered(b) /\ b.in \in Bytes
        /\ Stream(b) \in Bytes
    BY ReaderTyped
  <2>2. ~ b.err /\ buffered(b) < ReaderSize /\ ~ LineEnd(Unread(b)) > 0
    BY <1>2, <2>1 DEF SlicingDone
  <2> DEFINE c == fill(b)
  <2>3. /\ c \in Reader /\ SameMemory(b, c) /\ Stream(c) = Stream(b)
        /\ c.err \in BOOLEAN /\ (c.err <=> b.in = <<>>)
    BY <2>2, Fills
  <2> HIDE DEF c
  <2>4. Sliced(c, r)
    BY <1>2 DEF c
  <2>5. SameMemory(b, r.b) /\ r.b \in Reader
    BY <2>3, <2>4 DEF Sliced, SameMemory
  <2>6. CASE ~ c.err
    BY <2>2, <2>3, <2>4, <2>5, <2>6 DEF Sliced
  <2>7. CASE c.err
    <3>1. Stream(b) = Unread(b)
      BY <2>1, <2>3, <2>7, ConcatEmptySeq DEF Stream, Bytes
    <3>2. LineEnd(Stream(b)) = 0
      BY <2>1, <2>2, <3>1, LineEndFound
    <3> QED
      BY <2>2, <2>3, <2>4, <2>5, <2>7, <3>2 DEF Sliced
  <2> QED
    BY <2>3, <2>6, <2>7
<1>3. \A s \in Reader : \A r :
         ~ SlicingDone(s) /\ Sliced(fill(s), r) => Sliced(s, SlicingMore(s, r))
  BY <1>2 DEF SlicingMore
<1> QED
  BY <1>1, <1>3, SlicingDescends, ReadSliceUnfolds, Slicing!Reaches

(* What Zeros(n) is: n bytes.                                              *)
LEMMA ZerosTyped == ASSUME NEW n \in Nat PROVE Zeros(n) \in Bytes /\ Len(Zeros(n)) = n
<1>1. "0" \in Byte
  BY BufioAssumption DEF BufioAssumption
<1> DEFINE z == [i \in 1..n |-> "0"]
<1>2. z \in Seq(Byte)
  BY <1>1, IsASeq
<1>3. DOMAIN z = 1..n
  OBVIOUS
<1>4. Len(z) \in Nat /\ DOMAIN z = 1..Len(z)
  BY <1>2, LenProperties
<1>5. Len(z) = n
  BY <1>3, <1>4
<1> QED
  BY <1>2, <1>5 DEF Zeros, Bytes

Apart(s, at, n) == s.at + s.len <= at \/ at + n <= s.at

(* Memory that is made is not in any slice that was used before.           *)
LEMMA Makes ==
    ASSUME NEW b \in Reader, NEW n \in Nat
    PROVE  LET m == Make(b, n)
               c == m.b
           IN  /\ c = [b EXCEPT !.mem = c.mem, !.next = c.next, !.left = c.left]
               /\ m.slice \in Slices /\ m.slice.of = "mem" /\ m.slice.len = n
               /\ c.mem \in Bytes /\ Len(c.mem) >= Len(b.mem)
               /\ \A i \in 1..Len(b.mem) : c.mem[i] = b.mem[i]
               /\ c.next \in Nat /\ c.left \in Nat /\ c.next + c.left <= Len(c.mem)
               /\ Used(c, m.slice)
               /\ \A s \in Slices : Used(b, s) => Used(c, s) /\ Apart(s, m.slice.at, n)
<1> DEFINE m == Make(b, n)
           c == m.b
<1>0. /\ b.mem \in Bytes /\ Len(b.mem) \in Nat /\ b.next \in Nat /\ b.left \in Nat
      /\ b.next + b.left <= Len(b.mem)
  BY ReaderTyped
<1>1. /\ OwnSize \in Nat \ {0} /\ BlockSize \in Nat \ {0} /\ OwnSize <= BlockSize
  BY BufioAssumption DEF BufioAssumption
<1>2. ASSUME NEW k \in Nat
      PROVE  LET mem == b.mem \o Zeros(k)
             IN  /\ mem \in Bytes /\ Len(mem) = Len(b.mem) + k
                 /\ \A i \in 1..Len(b.mem) : mem[i] = b.mem[i]
  <2> DEFINE z == Zeros(k)
  <2>1. z \in Bytes /\ Len(z) = k
    BY ZerosTyped
  <2> HIDE DEF z
  <2>2. /\ b.mem \o z \in Bytes /\ Len(b.mem \o z) = Len(b.mem) + Len(z)
        /\ \A i \in 1..Len(b.mem) : (b.mem \o z)[i] = b.mem[i]
    BY <1>0, <2>1, Joined
  <2> QED
    BY <2>1, <2>2 DEF z
<1>3. b = [b EXCEPT !.mem = b.mem]
  BY DEF Reader
<1>4. CASE n = 0 \/ n >= OwnSize
  <2> DEFINE mem == b.mem \o Zeros(n)
  <2>1. m = [b |-> [b EXCEPT !.mem = mem], slice |-> Slice("mem", Len(b.mem), n)]
    BY <1>1, <1>4 DEF Make
  <2>2. mem \in Bytes /\ Len(mem) = Len(b.mem) + n /\ \A i \in 1..Len(b.mem) : mem[i] = b.mem[i]
    BY <1>2
  <2> HIDE DEF mem, m
  <2>3. /\ c.mem = mem /\ c.next = b.next /\ c.left = b.left
        /\ c = [b EXCEPT !.mem = c.mem, !.next = c.next, !.left = c.left]
    BY <2>1 DEF Reader
  <2>4. /\ m.slice \in Slices /\ m.slice.of = "mem" /\ m.slice.len = n
        /\ m.slice.at = Len(b.mem)
    BY <1>0, <2>1 DEF Slice, Slices
  <2>5. Used(c, m.slice)
    BY <1>0, <2>2, <2>3, <2>4 DEF Used
  <2>6. ASSUME NEW s \in Slices, Used(b, s) PROVE Used(c, s) /\ Apart(s, m.slice.at, n)
    BY <1>0, <2>2, <2>3, <2>4, <2>6 DEF Used, Apart, Slices
  <2> QED
    BY <1>0, <2>2, <2>3, <2>4, <2>5, <2>6 DEF m
<1>5. CASE 0 < n /\ n < OwnSize /\ b.left < n
  <2> DEFINE mem == b.mem \o Zeros(BlockSize)
  <2>1. m = [b |-> [b EXCEPT !.mem = mem, !.next = Len(b.mem) + n, !.left = BlockSize - n],
             slice |-> Slice("mem", Len(b.mem), n)]
    BY <1>1, <1>5 DEF Make
  <2>2. /\ mem \in Bytes /\ Len(mem) = Len(b.mem) + BlockSize
        /\ \A i \in 1..Len(b.mem) : mem[i] = b.mem[i]
    BY <1>1, <1>2
  <2> HIDE DEF mem, m
  <2>3. /\ c.mem = mem /\ c.next = Len(b.mem) + n /\ c.left = BlockSize - n
        /\ c = [b EXCEPT !.mem = c.mem, !.next = c.next, !.left = c.left]
    BY <2>1 DEF Reader
  <2>4. /\ m.slice \in Slices /\ m.slice.of = "mem" /\ m.slice.len = n
        /\ m.slice.at = Len(b.mem)
    BY <1>0, <2>1 DEF Slice, Slices
  <2>5. /\ c.next \in Nat /\ c.left \in Nat /\ c.next + c.left <= Len(c.mem)
        /\ Len(c.mem) >= Len(b.mem)
    BY <1>0, <1>1, <1>5, <2>2, <2>3
  <2>6. Used(c, m.slice)
    BY <1>0, <1>1, <1>5, <2>2, <2>3, <2>4 DEF Used
  <2>7. ASSUME NEW s \in Slices, Used(b, s) PROVE Used(c, s) /\ Apart(s, m.slice.at, n)
    BY <1>0, <2>2, <2>3, <2>4, <2>5, <2>7 DEF Used, Apart, Slices
  <2> QED
    BY <2>2, <2>3, <2>4, <2>5, <2>6, <2>7 DEF m
<1>6. CASE 0 < n /\ n < OwnSize /\ n <= b.left
  <2>1. m = [b |-> [b EXCEPT !.next = @ + n, !.left = @ - n],
             slice |-> Slice("mem", b.next, n)]
    BY <1>0, <1>1, <1>6 DEF Make
  <2> HIDE DEF m
  <2>3. /\ c.mem = b.mem /\ c.next = b.next + n /\ c.left = b.left - n
        /\ c = [b EXCEPT !.mem = c.mem, !.next = c.next, !.left = c.left]
    BY <2>1 DEF Reader
  <2>4. /\ m.slice \in Slices /\ m.slice.of = "mem" /\ m.slice.len = n
        /\ m.slice.at = b.next
    BY <1>0, <2>1 DEF Slice, Slices
  <2>5. /\ c.next \in Nat /\ c.left \in Nat /\ c.next + c.left <= Len(c.mem)
    BY <1>0, <1>6, <2>3
  <2>6. Used(c, m.slice)
    BY <1>0, <1>6, <2>3, <2>4 DEF Used
  <2>7. ASSUME NEW s \in Slices, Used(b, s) PROVE Used(c, s) /\ Apart(s, m.slice.at, n)
    BY <1>0, <1>6, <2>3, <2>4, <2>5, <2>7 DEF Used, Apart, Slices
  <2> QED
    BY <1>0, <2>3, <2>4, <2>5, <2>6, <2>7 DEF m
<1> QED
  BY <1>0, <1>1, <1>4, <1>5, <1>6

(* Bytes that are copied stay as they are, and so does all that was there  *)
(* before (slice.go 10-23).                                                *)
LEMMA Copies ==
    ASSUME NEW b \in Reader, NEW bytes \in Bytes
    PROVE  LET r == Copy(b, bytes)
           IN  /\ r.b \in Reader /\ r.ok = TRUE /\ r.nil = FALSE
               /\ r.b.err = b.err /\ Stream(r.b) = Stream(b) /\ Keeps(b, r.b)
               /\ Used(r.b, r.v) /\ r.v.len = Len(bytes) /\ BytesOf(r.b, r.v) = bytes
<1> DEFINE m == Make(b, Len(bytes))
           in == m.slice.at + 1..m.slice.at + Len(bytes)
           mem == [i \in DOMAIN m.b.mem |->
                      IF i \in in THEN bytes[i - m.slice.at] ELSE m.b.mem[i]]
           r == Copy(b, bytes)
           c == r.b
<1>0. Len(bytes) \in Nat /\ b.mem \in Bytes /\ Len(b.mem) \in Nat
  BY Lens, ReaderTyped
<1>1. /\ m.b = [b EXCEPT !.mem = m.b.mem, !.next = m.b.next, !.left = m.b.left]
      /\ m.slice \in Slices /\ m.slice.of = "mem" /\ m.slice.len = Len(bytes)
      /\ m.b.mem \in Bytes /\ Len(m.b.mem) >= Len(b.mem)
      /\ \A i \in 1..Len(b.mem) : m.b.mem[i] = b.mem[i]
      /\ m.b.next \in Nat /\ m.b.left \in Nat /\ m.b.next + m.b.left <= Len(m.b.mem)
      /\ Used(m.b, m.slice)
      /\ \A s \in Slices : Used(b, s) => Used(m.b, s) /\ Apart(s, m.slice.at, Len(bytes))
  BY <1>0, Makes
<1>2. r = [b |-> [m.b EXCEPT !.mem = mem], ok |-> TRUE, v |-> m.slice, nil |-> FALSE]
  BY DEF Copy, Ok
<1> HIDE DEF m
<1>3. /\ m.slice.at \in Nat /\ m.slice.at + Len(bytes) <= Len(m.b.mem) /\ Len(m.b.mem) \in Nat
  BY <1>1, Lens DEF Used, Slices
<1>4. /\ mem \in Bytes /\ Len(mem) = Len(m.b.mem)
      /\ \A i \in 1..Len(mem) : mem[i] = IF i \in in THEN bytes[i - m.slice.at] ELSE m.b.mem[i]
  <2>1. m.b.mem \in Seq(Byte) /\ DOMAIN m.b.mem = 1..Len(m.b.mem)
    BY <1>1, LenProperties DEF Bytes
  <2>2. \A i \in 1..Len(m.b.mem) : (IF i \in in THEN bytes[i - m.slice.at] ELSE m.b.mem[i]) \in Byte
    <3>1. \A i \in 1..Len(m.b.mem) : m.b.mem[i] \in Byte
      BY <2>1, ElementOfSeq
    <3>2. \A i \in in : bytes[i - m.slice.at] \in Byte
      <4>1. \A j \in 1..Len(bytes) : bytes[j] \in Byte
        BY ElementOfSeq DEF Bytes
      <4> QED
        BY <1>0, <1>3, <4>1
    <3> QED
      BY <3>1, <3>2
  <2> HIDE DEF in
  <2>3. [i \in 1..Len(m.b.mem) |-> IF i \in in THEN bytes[i - m.slice.at] ELSE m.b.mem[i]] \in Seq(Byte)
    BY <1>3, <2>2, IsASeq
  <2>4. mem \in Seq(Byte) /\ DOMAIN mem = 1..Len(m.b.mem)
    BY <2>1, <2>3
  <2>5. DOMAIN mem = 1..Len(mem) /\ Len(mem) \in Nat
    BY <2>4, LenProperties
  <2>6. Len(mem) = Len(m.b.mem)
    BY <1>3, <2>4, <2>5
  <2>7. \A i \in DOMAIN m.b.mem : mem[i] = IF i \in in THEN bytes[i - m.slice.at] ELSE m.b.mem[i]
    OBVIOUS
  <2> QED
    BY <2>1, <2>4, <2>6, <2>7 DEF Bytes
<1> HIDE DEF mem, r
<1>5. /\ c = [b EXCEPT !.mem = mem, !.next = m.b.next, !.left = m.b.left]
      /\ c.mem = mem /\ c.next = m.b.next /\ c.left = m.b.left /\ c.err = b.err
      /\ c.buf = b.buf /\ c.rpos = b.rpos /\ c.wpos = b.wpos /\ c.in = b.in
      /\ r.v = m.slice /\ r.ok = TRUE /\ r.nil = FALSE
  BY <1>1, <1>2 DEF Reader
<1>6. c \in Reader
  BY <1>1, <1>4, <1>5 DEF Reader
<1>7. Stream(c) = Stream(b)
  BY <1>5 DEF Stream, Unread
<1>8. \A s : Used(m.b, s) <=> Used(c, s)
  BY <1>1, <1>4, <1>5 DEF Used
<1>9. Keeps(b, c)
  <2> SUFFICES ASSUME NEW s \in Slices, Used(b, s)
               PROVE  Used(c, s) /\ BytesOf(c, s) = BytesOf(b, s)
    BY DEF Keeps
  <2>1. Used(c, s) /\ Apart(s, m.slice.at, Len(bytes))
    BY <1>1, <1>8
  <2>2. /\ s.at \in Nat /\ s.len \in Nat /\ s.of = "mem" /\ s.at + s.len <= Len(b.mem)
        /\ s.at + s.len <= Len(mem) /\ s.at + s.len \in Nat /\ s.at <= s.at + s.len
    BY <1>0, <1>1, <1>3, <1>4 DEF Used, Slices
  <2>3. ASSUME NEW i \in 1..s.len PROVE mem[s.at + i] = b.mem[s.at + i]
    <3>1. s.at + i \in 1..Len(b.mem) /\ s.at + i \in 1..Len(mem)
      BY <1>0, <1>1, <1>4, <2>2
    <3>2. s.at + i \notin in
      BY <1>0, <1>3, <2>1, <2>2 DEF Apart
    <3>3. mem[s.at + i] = m.b.mem[s.at + i]
      BY <1>4, <3>1, <3>2
    <3> QED
      BY <1>1, <3>1, <3>3
  <2> DEFINE u == SubSeq(mem, s.at + 1, s.at + s.len)
             v == SubSeq(b.mem, s.at + 1, s.at + s.len)
  <2>4. u \in Bytes /\ Len(u) = s.len /\ \A i \in 1..s.len : u[i] = mem[s.at + i]
    <3>1. mem \in Bytes /\ s.at \in Nat /\ s.len \in Nat /\ s.at + s.len <= Len(mem)
      BY <1>4, <2>2
    <3> QED
      BY <3>1, PieceAt
  <2>5. v \in Bytes /\ Len(v) = s.len /\ \A i \in 1..s.len : v[i] = b.mem[s.at + i]
    <3>1. b.mem \in Bytes /\ s.at \in Nat /\ s.len \in Nat /\ s.at + s.len <= Len(b.mem)
      BY <1>0, <2>2
    <3> QED
      BY <3>1, PieceAt
  <2> HIDE DEF u, v
  <2>6. u = v
    <3>1. \A i \in 1..Len(u) : u[i] = v[i]
      BY <2>3, <2>4, <2>5
    <3> QED
      BY <2>4, <2>5, <3>1, SameBytes
  <2> QED
    BY <1>5, <2>1, <2>2, <2>6 DEF BytesOf, u, v
<1>10. BytesOf(c, r.v) = bytes
  <2> DEFINE at == m.slice.at
             u == SubSeq(mem, at + 1, at + Len(bytes))
  <2>1. /\ at \in Nat /\ at + Len(bytes) \in Nat /\ at <= at + Len(bytes)
        /\ at + Len(bytes) <= Len(mem)
    BY <1>0, <1>3, <1>4
  <2>2. u \in Bytes /\ Len(u) = Len(bytes) /\ \A i \in 1..Len(bytes) : u[i] = mem[at + i]
    <3> HIDE DEF at
    <3>1. mem \in Bytes
      BY <1>4
    <3> QED
      BY <1>0, <2>1, <3>1, PieceAt
  <2>3. ASSUME NEW i \in 1..Len(bytes) PROVE mem[at + i] = bytes[i]
    <3> DEFINE j == at + i
    <3>1. j \in in /\ j \in 1..Len(mem) /\ j - m.slice.at = i
      BY <1>0, <1>3, <1>4
    <3> HIDE DEF j, in
    <3>2. mem[j] = bytes[j - m.slice.at]
      BY <1>4, <3>1
    <3>3. mem[j] = bytes[i]
      BY <3>1, <3>2
    <3> QED
      BY <3>3 DEF j
  <2>4. u = bytes
    <3> HIDE DEF u
    <3>1. \A i \in 1..Len(u) : u[i] = bytes[i]
      BY <2>2, <2>3
    <3> QED
      BY <2>2, <3>1, SameBytes
  <2>5. r.v.of = "mem" /\ r.v.at = at /\ r.v.len = Len(bytes)
    BY <1>1, <1>5
  <2> QED
    BY <1>5, <2>4, <2>5 DEF BytesOf
<1>11. Used(c, r.v) /\ r.v.len = Len(bytes)
  BY <1>1, <1>5, <1>8
<1> QED
  BY <1>5, <1>6, <1>7, <1>9, <1>10, <1>11 DEF r

(* The line with what full buffers have given before.                      *)
LiningRank(t) == Len(Stream(t.b))
LiningDone(t) == ReadSlice[t.b].ok \/ ReadSlice[t.b].b.err
LiningOut(t) == WholeLine(ReadSlice[t.b], t.full)
LiningStep(t) ==
    LET s == ReadSlice[t.b]
        piece == BytesOf(s.b, s.v)
    IN  [b |-> Copy(s.b, piece).b, full |-> t.full \o piece]
Lined(t, r) ==
    LET e == LineEnd(Stream(t.b))
    IN  /\ r.b \in Reader /\ Keeps(t.b, r.b)
        /\ r.ok \in BOOLEAN /\ (r.ok <=> ~ t.b.err /\ e > 0)
        /\ r.ok =>
              /\ ~ r.b.err /\ Used(r.b, r.v) /\ r.v.len = Len(t.full) + e
              /\ BytesOf(r.b, r.v) = t.full \o Take(Stream(t.b), e)
              /\ Stream(r.b) = Drop(Stream(t.b), e)

Lining == INSTANCE Recursion
    WITH States <- LineStates, Rank <- LiningRank, Done <- LiningDone, Out <- LiningOut,
         Step <- LiningStep, More <- SlicingMore, Good <- Lined

(* A full buffer without a line end.                                       *)
LEMMA LinesOn ==
    ASSUME NEW t \in LineStates, ~ LiningDone(t)
    PROVE  /\ LiningStep(t) \in LineStates /\ ~ t.b.err /\ ~ LiningStep(t).b.err
           /\ ReaderSize \in 1..Len(Stream(t.b))
           /\ LineEnd(Stream(t.b)) \notin 1..ReaderSize
           /\ Keeps(t.b, LiningStep(t).b)
           /\ LiningStep(t).full = t.full \o Take(Stream(t.b), ReaderSize)
           /\ Stream(LiningStep(t).b) = Drop(Stream(t.b), ReaderSize)
<1> DEFINE b == t.b
           s == ReadSlice[b]
           piece == BytesOf(s.b, s.v)
           r == Copy(s.b, piece)
           u == LiningStep(t)
<1>1. /\ b \in Reader /\ t.full \in Bytes /\ ReaderSize \in Nat \ {0}
      /\ Stream(b) \in Bytes /\ Len(Stream(b)) \in Nat
  <2>1. b \in Reader /\ t.full \in Bytes
    BY DEF LineStates
  <2> QED
    BY <2>1, ReaderTyped, Lens
<1>2. Sliced(b, s)
  BY <1>1, ReadSliceSlices
<1>3. ~ s.ok /\ ~ s.b.err
  BY DEF LiningDone
<1>4. u = [b |-> r.b, full |-> t.full \o piece]
  BY DEF LiningStep
<1> HIDE DEF s, b
<1>5. /\ s.b \in Reader /\ SameMemory(b, s.b) /\ ~ b.err
      /\ ReaderSize \in 1..Len(Stream(b)) /\ LineEnd(Stream(b)) \notin 1..ReaderSize
      /\ piece = Take(Stream(b), ReaderSize) /\ Stream(s.b) = Drop(Stream(b), ReaderSize)
  BY <1>1, <1>2, <1>3 DEF Sliced
<1>6. piece \in Bytes
  BY <1>1, <1>5, Parts
<1> HIDE DEF piece
<1>7. r.b \in Reader /\ r.b.err = s.b.err /\ Stream(r.b) = Stream(s.b) /\ Keeps(s.b, r.b)
  BY <1>5, <1>6, Copies
<1> HIDE DEF r, u
<1>8. Keeps(b, r.b)
  BY <1>5, <1>7, KeptIsKept
<1>9. t.full \o piece \in Bytes
  BY <1>1, <1>6, Joined
<1>10. u \in LineStates /\ u.b = r.b /\ u.full = t.full \o piece
  BY <1>4, <1>7, <1>9 DEF LineStates
<1> QED
  BY <1>3, <1>5, <1>7, <1>8, <1>10 DEF u, b

(* Each round of ReadBytes takes a full buffer from the stream.            *)
LEMMA LiningDescends == Lining!Descends
<1> SUFFICES ASSUME NEW t \in LineStates
             PROVE  /\ LiningRank(t) \in Nat
                    /\ ~ LiningDone(t) =>
                         LiningStep(t) \in LineStates /\ LiningRank(LiningStep(t)) < LiningRank(t)
  BY DEF Lining!Descends
<1>1. t.b \in Reader
  BY DEF LineStates
<1>2. Stream(t.b) \in Bytes /\ Len(Stream(t.b)) \in Nat
  BY <1>1, ReaderTyped, Lens
<1>3. ASSUME ~ LiningDone(t) PROVE Len(Stream(LiningStep(t).b)) < Len(Stream(t.b))
  <2>1. ReaderSize \in 1..Len(Stream(t.b)) /\ Stream(LiningStep(t).b) = Drop(Stream(t.b), ReaderSize)
    BY <1>3, LinesOn
  <2>2. Len(Drop(Stream(t.b), ReaderSize)) = Len(Stream(t.b)) - ReaderSize
    <3>1. ReaderSize \in 0..Len(Stream(t.b))
      BY <1>2, <2>1
    <3> QED
      BY <1>2, <3>1, Parts
  <2> QED
    BY <1>2, <2>1, <2>2
<1> QED
  BY <1>2, <1>3, LinesOn DEF LiningRank

(* Line is what the loop of ReadBytes computes.                            *)
LEMMA LineUnfolds == Line = [t \in LineStates |-> Lining!Value(Line, t)]
<1>1. \E f : f = [t \in LineStates |-> Lining!Value(f, t)]
  BY LiningDescends, Lining!Exists
<1>2. \E f : f = [t \in LineStates |->
          LET s == ReadSlice[t.b]
              piece == BytesOf(s.b, s.v)
          IN  IF s.ok \/ s.b.err THEN WholeLine(s, t.full)
              ELSE f[[b |-> Copy(s.b, piece).b, full |-> t.full \o piece]]]
  BY <1>1 DEF Lining!Value, LiningDone, LiningOut, LiningStep, SlicingMore
<1>3. Line = [t \in LineStates |->
          LET s == ReadSlice[t.b]
              piece == BytesOf(s.b, s.v)
          IN  IF s.ok \/ s.b.err THEN WholeLine(s, t.full)
              ELSE Line[[b |-> Copy(s.b, piece).b, full |-> t.full \o piece]]]
  BY <1>2 DEF Line
<1> QED
  BY <1>3 DEF Lining!Value, LiningDone, LiningOut, LiningStep, SlicingMore

(* The end of ReadBytes: the pieces and the last slice, copied into        *)
(* memory.                                                                 *)
LEMMA LinesOut == ASSUME NEW t \in LineStates, LiningDone(t) PROVE Lined(t, LiningOut(t))
<1> DEFINE b == t.b
           s == ReadSlice[b]
           piece == BytesOf(s.b, s.v)
           r == LiningOut(t)
           e == LineEnd(Stream(b))
<1>1. b \in Reader /\ t.full \in Bytes /\ Len(t.full) \in Nat /\ Stream(b) \in Bytes
  <2>1. b \in Reader /\ t.full \in Bytes
    BY DEF LineStates
  <2> QED
    BY <2>1, ReaderTyped, Lens
<1>2. Sliced(b, s)
  BY <1>1, ReadSliceSlices
<1>3. s.ok \/ s.b.err
  BY DEF LiningDone
<1>4. r = WholeLine(s, t.full)
  BY DEF LiningOut
<1> HIDE DEF r, s
<1>5. CASE s.b.err
  <2>1. r.b = s.b /\ r.ok = FALSE
    BY <1>4, <1>5 DEF WholeLine, Fail
  <2>2. ~ (~ b.err /\ e > 0)
    BY <1>2, <1>5 DEF Sliced
  <2>3. s.b \in Reader /\ Keeps(b, s.b)
    BY <1>2, KeptIsKept DEF Sliced
  <2> QED
    BY <2>1, <2>2, <2>3 DEF Lined, r
<1>6. CASE s.ok
  <2>1. /\ s.b \in Reader /\ SameMemory(b, s.b) /\ ~ b.err /\ ~ s.b.err
        /\ e \in 1..ReaderSize /\ piece = Take(Stream(b), e) /\ Stream(s.b) = Drop(Stream(b), e)
    BY <1>2, <1>6 DEF Sliced
  <2>2. e \in 0..Len(Stream(b)) /\ Len(Stream(b)) \in Nat
    BY <1>1, LineEndFound, Lens
  <2> HIDE DEF e
  <2>3. piece \in Bytes /\ Len(piece) = e
    BY <1>1, <2>1, <2>2, Parts
  <2> DEFINE line == t.full \o piece
  <2>4. line \in Bytes /\ Len(line) = Len(t.full) + e
    BY <1>1, <2>3, Joined
  <2>5. r = Copy(s.b, line)
    BY <1>4, <2>1 DEF WholeLine
  <2>6. line = t.full \o Take(Stream(b), e)
    BY <2>1
  <2> HIDE DEF line, piece
  <2>7. /\ r.b \in Reader /\ r.ok = TRUE /\ r.b.err = s.b.err /\ Stream(r.b) = Stream(s.b)
        /\ Keeps(s.b, r.b) /\ Used(r.b, r.v) /\ r.v.len = Len(line) /\ BytesOf(r.b, r.v) = line
    BY <2>1, <2>4, <2>5, Copies
  <2>8. Keeps(b, r.b)
    BY <2>1, <2>7, KeptIsKept
  <2>9. e > 0 /\ ~ b.err
    BY <2>1, <2>2
  <2> HIDE DEF b
  <2>10. /\ r.b \in Reader /\ Keeps(b, r.b) /\ r.ok \in BOOLEAN /\ (r.ok <=> ~ b.err /\ e > 0)
         /\ ~ r.b.err /\ Used(r.b, r.v) /\ r.v.len = Len(t.full) + e
         /\ BytesOf(r.b, r.v) = t.full \o Take(Stream(b), e)
         /\ Stream(r.b) = Drop(Stream(b), e)
    BY <2>1, <2>4, <2>6, <2>7, <2>8, <2>9
  <2> QED
    BY <2>10 DEF Lined, r, e, b
<1> QED
  BY <1>3, <1>5, <1>6

(* ReadBytes takes from the stream up to its first line end, in whatever   *)
(* pieces (bufio.go 137-162).                                              *)
LEMMA LineLines == \A t \in LineStates : Lined(t, Line[t])
<1>1. \A t \in LineStates : LiningDone(t) => Lined(t, LiningOut(t))
  BY LinesOut
<1>2. ASSUME NEW t \in LineStates, NEW r, ~ LiningDone(t), Lined(LiningStep(t), r)
      PROVE  Lined(t, r)
  <2> DEFINE b == t.b
             u == LiningStep(t)
             S == Stream(b)
             n == ReaderSize
             e == LineEnd(S)
             T == Drop(S, n)
  <2>1. /\ u \in LineStates /\ ~ b.err /\ ~ u.b.err /\ n \in 1..Len(S) /\ e \notin 1..n
        /\ Keeps(b, u.b) /\ u.full = t.full \o Take(S, n) /\ Stream(u.b) = T
    BY <1>2, LinesOn
  <2>2. S \in Bytes /\ t.full \in Bytes /\ Len(S) \in Nat /\ Len(t.full) \in Nat /\ n \in Nat
    <3>1. b \in Reader /\ t.full \in Bytes
      BY DEF LineStates
    <3> QED
      BY <3>1, ReaderTyped, Lens
  <2>3. Lined(u, r)
    BY <1>2
  <2> HIDE DEF S, n, u
  <2>4. /\ Take(S, n) \in Bytes /\ Len(Take(S, n)) = n /\ T \in Bytes
        /\ Take(S, n) \o T = S
    <3>1. n \in 0..Len(S)
      BY <2>1, <2>2
    <3> QED
      BY <2>2, <3>1, Parts
  <2>5. e \in 0..Len(S) /\ (e > 0 => S[e] = "LF")
    BY <2>2, LineEndFound
  <2>6. LineEnd(Take(S, n)) = 0
    <3>1. LineEnd(Take(S, n)) \in 0..n
      BY <2>4, LineEndFound
    <3>2. LineEnd(Take(S, n)) > 0 => e = LineEnd(Take(S, n))
      BY <2>4, LineEndOfMore
    <3> QED
      BY <2>1, <2>2, <3>1, <3>2
  <2>7. LineEnd(T) = IF e = 0 THEN 0 ELSE e - n
    <3> DEFINE A == Take(S, n)
    <3>1. A \in Bytes /\ T \in Bytes /\ LineEnd(A) = 0 /\ Len(A) = n /\ A \o T = S
      BY <2>4, <2>6
    <3> HIDE DEF A, T
    <3>2. /\ LineEnd(A \o T) = 0 => LineEnd(T) = 0
          /\ LineEnd(A \o T) > 0 => LineEnd(T) = LineEnd(A \o T) - Len(A)
      BY <3>1, LineEndOfMore
    <3> QED
      BY <2>2, <2>5, <3>1, <3>2
  <2>8. Len(u.full) = Len(t.full) + n
    BY <2>1, <2>2, <2>4, Joined
  <2> HIDE DEF T, e
  <2>9. r.ok <=> e > 0
    BY <2>1, <2>2, <2>3, <2>5, <2>7 DEF Lined
  <2>10. ASSUME r.ok
         PROVE  /\ r.v.len = Len(t.full) + e
                /\ BytesOf(r.b, r.v) = t.full \o Take(S, e)
                /\ Stream(r.b) = Drop(S, e)
    <3> DEFINE k == e - n
    <3>1. /\ r.v.len = Len(u.full) + k /\ BytesOf(r.b, r.v) = u.full \o Take(T, k)
          /\ Stream(r.b) = Drop(T, k)
      <4>1. LineEnd(T) = k
        BY <2>5, <2>7, <2>9, <2>10
      <4>2. /\ r.v.len = Len(u.full) + LineEnd(Stream(u.b))
            /\ BytesOf(r.b, r.v) = u.full \o Take(Stream(u.b), LineEnd(Stream(u.b)))
            /\ Stream(r.b) = Drop(Stream(u.b), LineEnd(Stream(u.b)))
        BY <2>3, <2>10 DEF Lined
      <4> QED
        BY <2>1, <4>1, <4>2
    <3>2. k \in Nat /\ n + k = e /\ n + k <= Len(S)
      BY <2>1, <2>2, <2>5, <2>9, <2>10
    <3> HIDE DEF k
    <3>3. /\ Take(S, n) \o Take(T, k) = Take(S, e) /\ Drop(T, k) = Drop(S, e)
      BY <2>2, <3>2, PartsOfParts DEF T
    <3>4. k \in 0..Len(T)
      BY <2>2, <2>4, <3>2, Joined
    <3>5. Take(T, k) \in Bytes
      BY <2>4, <3>4, Parts
    <3>6. (t.full \o Take(S, n)) \o Take(T, k) = t.full \o (Take(S, n) \o Take(T, k))
      <4>1. t.full \in Bytes /\ Take(S, n) \in Bytes /\ Take(T, k) \in Bytes
        BY <2>2, <2>4, <3>5
      <4> QED
        BY <4>1, Regroup
    <3>7. r.v.len = Len(t.full) + e
      BY <2>2, <2>8, <3>1, <3>2
    <3> QED
      BY <2>1, <3>1, <3>3, <3>6, <3>7
  <2>11. r.b \in Reader /\ Keeps(b, r.b) /\ r.ok \in BOOLEAN
    BY <2>1, <2>3, KeptIsKept DEF Lined
  <2>12. r.ok => ~ r.b.err /\ Used(r.b, r.v)
    BY <2>3 DEF Lined
  <2> QED
    BY <2>1, <2>9, <2>10, <2>11, <2>12 DEF Lined, e, S
<1>3. \A t \in LineStates : \A r :
         ~ LiningDone(t) /\ Lined(LiningStep(t), r) => Lined(t, SlicingMore(t, r))
  BY <1>2 DEF SlicingMore
<1> QED
  BY <1>1, <1>3, LiningDescends, LineUnfolds, Lining!Reaches

(* ReadBytes gives a copy of the line (bufio.go 137-162).                  *)
LEMMA ReadBytesReads ==
    ASSUME NEW b \in Reader
    PROVE  LET r == ReadBytes(b)
               e == LineEnd(Stream(b))
           IN  /\ r.b \in Reader /\ Keeps(b, r.b)
               /\ r.ok \in BOOLEAN /\ (r.ok <=> ~ b.err /\ e > 0)
               /\ r.ok =>
                     /\ ~ r.b.err /\ Used(r.b, r.v) /\ r.v.len = e
                     /\ BytesOf(r.b, r.v) = Take(Stream(b), e)
                     /\ Stream(r.b) = Drop(Stream(b), e)
<1> DEFINE t == [b |-> b, full |-> <<>>]
           e == LineEnd(Stream(b))
<1>1. t \in LineStates /\ t.b = b /\ t.full = <<>>
  BY EmptySeq DEF LineStates, Bytes
<1> HIDE DEF t
<1>2. Lined(t, Line[t])
  BY <1>1, LineLines
<1>3. ReadBytes(b) = Line[t]
  BY DEF ReadBytes, t
<1>4. Stream(b) \in Bytes /\ e \in 0..Len(Stream(b))
  BY ReaderTyped, LineEndFound
<1> HIDE DEF e
<1>5. Take(Stream(b), e) \in Bytes
  BY <1>4, Parts
<1>6. <<>> \o Take(Stream(b), e) = Take(Stream(b), e) /\ Len(<<>>) + e = e
  BY <1>4, <1>5, ConcatEmptySeq, EmptySeq DEF Bytes
<1> QED
  BY <1>1, <1>2, <1>3, <1>6 DEF Lined, e

(* No byte is left in the stream when none is in the buffer nor to come.   *)
LEMMA NothingLeft ==
    ASSUME NEW b \in Reader
    PROVE  Stream(b) = <<>> <=> buffered(b) = 0 /\ b.in = <<>>
<1>1. /\ Stream(b) \in Bytes /\ b.in \in Bytes /\ Len(Stream(b)) = buffered(b) + Len(b.in)
      /\ buffered(b) \in Nat
  BY ReaderTyped
<1>2. /\ Len(Stream(b)) = 0 <=> Stream(b) = <<>>
      /\ Len(b.in) = 0 <=> b.in = <<>>
      /\ Len(b.in) \in Nat
  BY <1>1, Lens
<1> QED
  BY <1>1, <1>2

(* Filling keeps the stream; then there is a byte, or the stream was at    *)
(* its end.                                                                *)
LEMMA FilledReads ==
    ASSUME NEW b \in Reader
    PROVE  LET c == Filled(b)
           IN  /\ c \in Reader /\ SameMemory(b, c) /\ Stream(c) = Stream(b)
               /\ c.err <=> b.err \/ Stream(b) = <<>>
               /\ ~ c.err => buffered(c) > 0
<1>1. /\ b.err \in BOOLEAN /\ buffered(b) \in 0..ReaderSize /\ ReaderSize \in Nat \ {0}
  BY ReaderTyped
<1>2. Stream(b) = <<>> <=> buffered(b) = 0 /\ b.in = <<>>
  BY NothingLeft
<1>3. CASE b.err \/ buffered(b) > 0
  <2>1. Filled(b) = b
    BY <1>1, <1>3 DEF Filled, fill
  <2> QED
    BY <1>1, <1>2, <1>3, <2>1 DEF SameMemory
<1>4. CASE ~ b.err /\ buffered(b) = 0
  <2>1. Filled(b) = fill(b)
    BY <1>4 DEF Filled
  <2> DEFINE c == fill(b)
  <2>2. /\ c \in Reader /\ SameMemory(b, c) /\ Stream(c) = Stream(b)
        /\ c.err \in BOOLEAN /\ (c.err <=> b.in = <<>>)
        /\ ~ c.err => buffered(c) > buffered(b)
    BY <1>1, <1>4, Fills
  <2> HIDE DEF c
  <2> QED
    BY <1>2, <1>4, <2>1, <2>2 DEF c
<1> QED
  BY <1>1, <1>3, <1>4

(* The next byte (bufio.go 87-113).                                        *)
LEMMA PeekByteReads ==
    ASSUME NEW b \in Reader
    PROVE  LET r == PeekByte(b)
           IN  /\ r.b \in Reader /\ SameMemory(b, r.b) /\ Stream(r.b) = Stream(b)
               /\ r.ok \in BOOLEAN /\ (r.ok <=> ~ b.err /\ Stream(b) # <<>>)
               /\ r.ok => ~ r.b.err /\ buffered(r.b) > 0 /\ r.v = Stream(b)[1]
<1> DEFINE c == Filled(b)
<1>1. /\ c \in Reader /\ SameMemory(b, c) /\ Stream(c) = Stream(b)
      /\ c.err <=> b.err \/ Stream(b) = <<>>
      /\ ~ c.err => buffered(c) > 0
  BY FilledReads
<1>2. PeekByte(b) = First(c)
  BY DEF PeekByte
<1> HIDE DEF c
<1>3. CASE c.err
  <2>1. PeekByte(b).b = c /\ PeekByte(b).ok = FALSE
    BY <1>2, <1>3 DEF First, Fail
  <2> QED
    BY <1>1, <1>3, <2>1
<1>4. CASE ~ c.err
  <2>1. PeekByte(b).b = c /\ PeekByte(b).ok = TRUE /\ PeekByte(b).v = c.buf[c.rpos + 1]
    BY <1>2, <1>4 DEF First, Ok
  <2>2. Stream(c)[1] = c.buf[c.rpos + 1]
    <3>1. /\ Unread(c) \in Bytes /\ Len(Unread(c)) = buffered(c) /\ c.in \in Bytes
          /\ c.buf \in Bytes /\ c.rpos \in Nat /\ c.wpos \in Nat /\ c.wpos <= Len(c.buf)
          /\ c.rpos <= c.wpos
      BY <1>1, ReaderTyped
    <3>2. 1 \in 1..Len(Unread(c)) /\ 1 \in 1..c.wpos - c.rpos
      BY <1>1, <1>4, <3>1 DEF buffered
    <3>3. Stream(c)[1] = Unread(c)[1]
      BY <3>1, <3>2, Joined DEF Stream
    <3>4. \A i \in 1..c.wpos - c.rpos : SubSeq(c.buf, c.rpos + 1, c.wpos)[i] = c.buf[c.rpos + i]
      BY <3>1, Piece
    <3>5. Unread(c)[1] = c.buf[c.rpos + 1]
      BY <3>2, <3>4 DEF Unread
    <3> QED
      BY <3>3, <3>5
  <2> QED
    BY <1>1, <1>4, <2>1, <2>2
<1> QED
  BY <1>3, <1>4

(* ReadByte takes the first byte of the stream.                            *)
LEMMA ReadByteReads ==
    ASSUME NEW b \in Reader
    PROVE  LET r == ReadByte(b)
           IN  /\ r.b \in Reader /\ SameMemory(b, r.b)
               /\ r.ok \in BOOLEAN /\ (r.ok <=> ~ b.err /\ Stream(b) # <<>>)
               /\ r.ok => ~ r.b.err /\ r.v = Stream(b)[1] /\ Stream(r.b) = Drop(Stream(b), 1)
<1> DEFINE p == PeekByte(b)
           r == ReadByte(b)
<1>1. /\ p.b \in Reader /\ SameMemory(b, p.b) /\ Stream(p.b) = Stream(b)
      /\ p.ok \in BOOLEAN /\ (p.ok <=> ~ b.err /\ Stream(b) # <<>>)
      /\ p.ok => ~ p.b.err /\ buffered(p.b) > 0 /\ p.v = Stream(b)[1]
  BY PeekByteReads
<1>2. r = Passed(p) /\ p = [b |-> p.b, ok |-> p.ok, v |-> p.v, nil |-> p.nil]
  BY DEF ReadByte, PeekByte, First, Ok, Fail
<1> HIDE DEF p, r
<1>3. CASE ~ p.ok
  BY <1>1, <1>2, <1>3 DEF Passed, r
<1>4. ASSUME p.ok
      PROVE  /\ r.b \in Reader /\ SameMemory(b, r.b) /\ r.ok = TRUE
             /\ ~ r.b.err /\ r.v = Stream(b)[1] /\ Stream(r.b) = Drop(Stream(b), 1)
  <2> DEFINE c == [p.b EXCEPT !.rpos = @ + 1]
  <2>1. /\ r.b = c /\ r.ok = TRUE /\ r.v = p.v
    BY <1>2, <1>4 DEF Passed
  <2>2. 1 \in 0..buffered(p.b)
    BY <1>1, <1>4, ReaderTyped
  <2>3. /\ c \in Reader /\ SameMemory(p.b, c) /\ c.err = p.b.err
        /\ Stream(c) = Drop(Stream(p.b), 1)
    BY <1>1, <2>2, Moves
  <2> HIDE DEF c
  <2>4. SameMemory(b, c)
    BY <1>1, <2>3 DEF SameMemory
  <2> QED
    BY <1>1, <1>4, <2>1, <2>3, <2>4
<1> QED
  BY <1>1, <1>3, <1>4 DEF r

(* Read gives some bytes (bufio.go 67-85).                                 *)
LEMMA ReadReads ==
    ASSUME NEW b \in Reader, ~ b.err, NEW n \in Nat \ {0}
    PROVE  LET r == Read(b, n)
           IN  /\ r.b \in Reader /\ SameMemory(b, r.b)
               /\ Len(r.v) \in 0..n /\ Len(r.v) \in 0..Len(Stream(b))
               /\ r.b.err \in BOOLEAN /\ (r.b.err <=> Stream(b) = <<>>)
               /\ ~ r.b.err => Len(r.v) > 0
               /\ r.v = Take(Stream(b), Len(r.v)) /\ Stream(r.b) = Drop(Stream(b), Len(r.v))
<1> DEFINE r == Read(b, n)
<1>0. /\ b.err \in BOOLEAN /\ buffered(b) \in 0..ReaderSize /\ ReaderSize \in Nat \ {0}
      /\ Unread(b) \in Bytes /\ Len(Unread(b)) = buffered(b) /\ b.in \in Bytes
      /\ Stream(b) \in Bytes /\ Len(b.in) \in Nat /\ Len(Stream(b)) = buffered(b) + Len(b.in)
  BY ReaderTyped
<1>1. Stream(b) = <<>> <=> buffered(b) = 0 /\ b.in = <<>>
  BY NothingLeft
<1> DEFINE Goal ==
                    /\ r.b \in Reader /\ SameMemory(b, r.b) /\ Len(r.v) \in 0..n
                    /\ Len(r.v) \in 0..Len(Stream(b))
                    /\ r.b.err \in BOOLEAN /\ (r.b.err <=> Stream(b) = <<>>)
                    /\ ~ r.b.err => Len(r.v) > 0
                    /\ r.v = Take(Stream(b), Len(r.v)) /\ Stream(r.b) = Drop(Stream(b), Len(r.v))
<1>2. ASSUME buffered(b) = 0, n >= ReaderSize PROVE Goal
  <2> DEFINE k == Len(r.v)
  <2>1. r = FromSocket(b, n)
    BY <1>2 DEF Read
  <2>2. /\ r.v \in Bytes /\ k <= n /\ r.v \o r.b.in = b.in
        /\ r.b.in \in Bytes
        /\ k = 0 <=> n = 0 \/ b.in = <<>>
        /\ r.b.err \in BOOLEAN /\ (r.b.err <=> k = 0)
        /\ r.b = [b EXCEPT !.in = r.b.in, !.first = b.chunk, !.err = r.b.err]
    <3> DEFINE q == FromSocket(b, n)
    <3>1. /\ q.v \in Bytes /\ Len(q.v) <= n /\ q.v \o q.b.in = b.in
          /\ q.b.in \in Bytes
          /\ Len(q.v) = 0 <=> n = 0 \/ b.in = <<>>
          /\ q.b.err \in BOOLEAN /\ (q.b.err <=> Len(q.v) = 0)
          /\ q.b = [b EXCEPT !.in = q.b.in, !.first = b.chunk, !.err = q.b.err]
      BY FromSocketReads, n \in Nat
    <3>2. r = q
      BY <2>1
    <3> HIDE DEF q, r
    <3> QED
      BY <3>1, <3>2
  <2> HIDE DEF r
  <2>3. Unread(b) = <<>>
    BY <1>0, <1>2, Lens
  <2>4. Stream(b) = b.in
    BY <1>0, <2>3, ConcatEmptySeq DEF Stream, Bytes
  <2>5. Stream(r.b) = r.b.in
    <3>1. Unread(r.b) = Unread(b)
      BY <2>2 DEF Unread, Reader
    <3> QED
      BY <2>2, <2>3, <3>1, ConcatEmptySeq DEF Stream, Bytes
  <2>6. r.b \in Reader /\ SameMemory(b, r.b)
    <3> DEFINE c == r.b
    <3>1. /\ c = [b EXCEPT !.in = c.in, !.first = b.chunk, !.err = c.err]
          /\ c.in \in Bytes /\ c.err \in BOOLEAN
      BY <2>2
    <3>2. b.chunk \in Nat \ {0}
      BY ReaderTyped
    <3> HIDE DEF c
    <3>3. c \in Reader /\ SameMemory(b, c)
      BY <3>1, <3>2 DEF Reader, SameMemory
    <3> QED
      BY <3>3 DEF c
  <2>7. k \in Nat /\ k <= Len(b.in)
    <3> DEFINE u == r.v
               v == r.b.in
    <3>1. u \in Bytes /\ v \in Bytes /\ u \o v = b.in
      BY <2>2
    <3> HIDE DEF u, v
    <3>2. Len(u) \in Nat /\ Len(v) \in Nat /\ Len(b.in) = Len(u) + Len(v)
      BY <3>1, Joined
    <3> QED
      BY <3>2 DEF u
  <2>8. r.v = Take(Stream(b), k) /\ Stream(r.b) = Drop(Stream(b), k)
    <3>1. Take(r.v \o r.b.in, Len(r.v)) = r.v /\ Drop(r.v \o r.b.in, Len(r.v)) = r.b.in
      BY <2>2, PartsOfBoth
    <3> QED
      BY <2>2, <2>4, <2>5, <3>1
  <2>9. k \in 0..n /\ k \in 0..Len(Stream(b))
    BY <2>2, <2>4, <2>7
  <2>10. (r.b.err <=> Stream(b) = <<>>) /\ (~ r.b.err => k > 0)
    BY <2>2, <2>4, <2>7
  <2> QED
    BY <2>2, <2>6, <2>8, <2>9, <2>10
<1>3. ASSUME ~ (buffered(b) = 0 /\ n >= ReaderSize) PROVE Goal
  <2> DEFINE c == Filled(b)
             k == LeastOf(n, buffered(c))
  <2>1. r = Taken(c, k)
    BY <1>3 DEF Read, BufferedOf
  <2>2. /\ c \in Reader /\ SameMemory(b, c) /\ Stream(c) = Stream(b)
        /\ c.err <=> Stream(b) = <<>>
        /\ ~ c.err => buffered(c) > 0
    BY FilledReads
  <2>3. c.err \in BOOLEAN /\ buffered(c) \in Nat /\ Len(Stream(c)) = buffered(c) + Len(c.in)
        /\ Len(c.in) \in Nat
    BY <2>2, ReaderTyped
  <2> HIDE DEF c, r
  <2>4. CASE c.err
    <3>1. r.b = c /\ r.v = <<>>
      BY <2>1, <2>4 DEF Taken, Fail
    <3>2. Stream(b) = <<>>
      BY <2>2, <2>4
    <3>3. Take(Stream(b), 0) = <<>> /\ Drop(Stream(b), 0) = Stream(b)
      BY <1>0, PartsOfNone
    <3>4. Len(r.v) = 0 /\ Len(Stream(b)) = 0
      BY <3>1, <3>2, EmptySeq
    <3>5. r.b \in Reader /\ SameMemory(b, r.b) /\ r.b.err
      BY <2>2, <2>4, <3>1
    <3>6. r.b.err \in BOOLEAN
      BY <2>3, <3>1
    <3>7. r.v = Take(Stream(b), Len(r.v)) /\ Stream(r.b) = Drop(Stream(b), Len(r.v))
      BY <2>2, <3>1, <3>3, <3>4
    <3>8. Len(r.v) \in 0..n /\ Len(r.v) \in 0..Len(Stream(b))
      BY <3>4
    <3> QED
      BY <3>2, <3>5, <3>6, <3>7, <3>8
  <2>5. CASE ~ c.err
    <3> DEFINE d == [c EXCEPT !.rpos = @ + k]
    <3>1. r.b = d /\ r.v = SubSeq(Unread(c), 1, k)
      BY <2>1, <2>5 DEF Taken, Ok
    <3>2. k \in 0..buffered(c) /\ k > 0 /\ k <= n
      BY <2>2, <2>3, <2>5 DEF LeastOf
    <3> HIDE DEF k
    <3>3. /\ d \in Reader /\ SameMemory(c, d) /\ d.err = c.err
          /\ Take(Stream(c), k) = SubSeq(Unread(c), 1, k) /\ Stream(d) = Drop(Stream(c), k)
      BY <2>2, <3>2, Moves
    <3> HIDE DEF d
    <3>4. k \in 0..Len(Stream(b)) /\ k \in 0..n
      BY <2>2, <2>3, <3>2
    <3>5. Len(r.v) = k
      BY <1>0, <2>2, <3>1, <3>3, <3>4, Parts
    <3>6. SameMemory(b, d)
      BY <2>2, <3>3 DEF SameMemory
    <3>7. r.b.err \in BOOLEAN /\ (r.b.err <=> Stream(b) = <<>>)
      BY <2>2, <2>3, <3>1, <3>3
    <3>8. /\ r.b \in Reader /\ SameMemory(b, r.b) /\ Len(r.v) \in 0..n
          /\ Len(r.v) \in 0..Len(Stream(b)) /\ Len(r.v) > 0
      BY <3>1, <3>2, <3>3, <3>4, <3>5, <3>6
    <3>9. r.v = Take(Stream(b), Len(r.v)) /\ Stream(r.b) = Drop(Stream(b), Len(r.v))
      BY <2>2, <3>1, <3>3, <3>5
    <3> QED
      BY <3>7, <3>8, <3>9
  <2> QED
    BY <2>3, <2>4, <2>5
<1> QED
  BY <1>2, <1>3

(* What has been read of n bytes.                                          *)
CollectingRank(t) == IF t.b.err THEN 0 ELSE 1 + t.n - Len(t.bytes)
CollectingDone(t) == Len(t.bytes) = t.n \/ t.b.err
CollectingOut(t) == IF Len(t.bytes) = t.n THEN Copy(t.b, t.bytes) ELSE Fail(t.b)
CollectingStep(t) ==
    LET r == Read(t.b, t.n - Len(t.bytes)) IN [t EXCEPT !.b = r.b, !.bytes = @ \o r.v]
Collected(t, r) ==
    LET m == t.n - Len(t.bytes)
    IN  /\ r.b \in Reader /\ Keeps(t.b, r.b) /\ r.ok \in BOOLEAN
        /\ (r.ok <=> m = 0 \/ (~ t.b.err /\ m <= Len(Stream(t.b))))
        /\ r.ok =>
              /\ r.b.err = t.b.err /\ Used(r.b, r.v) /\ r.v.len = t.n /\ r.nil = FALSE
              /\ BytesOf(r.b, r.v) = t.bytes \o Take(Stream(t.b), m)
              /\ Stream(r.b) = Drop(Stream(t.b), m)

Collecting == INSTANCE Recursion
    WITH States <- CollectStates, Rank <- CollectingRank, Done <- CollectingDone,
         Out <- CollectingOut, Step <- CollectingStep, More <- SlicingMore, Good <- Collected

(* What the loop of ReadFull works on.                                     *)
LEMMA CollectingTyped ==
    ASSUME NEW t \in CollectStates
    PROVE  /\ t.b \in Reader /\ t.b.err \in BOOLEAN /\ t.n \in Nat /\ t.bytes \in Bytes
           /\ Len(t.bytes) \in 0..t.n
           /\ Stream(t.b) \in Bytes /\ Len(Stream(t.b)) \in Nat
<1>1. t.b \in Reader /\ t.n \in Nat /\ t.bytes \in Bytes /\ Len(t.bytes) <= t.n
  BY DEF CollectStates
<1> QED
  BY <1>1, ReaderTyped, Lens

(* Each Read of ReadFull takes the next bytes of the stream, at least one. *)
LEMMA CollectsOn ==
    ASSUME NEW t \in CollectStates, ~ CollectingDone(t)
    PROVE  LET u == CollectingStep(t)
               k == Len(u.bytes) - Len(t.bytes)
           IN  /\ u \in CollectStates /\ u.n = t.n /\ ~ t.b.err /\ Keeps(t.b, u.b)
               /\ k \in 0..t.n - Len(t.bytes) /\ k \in 0..Len(Stream(t.b))
               /\ u.b.err \in BOOLEAN /\ (u.b.err <=> Stream(t.b) = <<>>)
               /\ ~ u.b.err => k > 0
               /\ u.bytes = t.bytes \o Take(Stream(t.b), k)
               /\ Stream(u.b) = Drop(Stream(t.b), k)
<1> DEFINE m == t.n - Len(t.bytes)
           r == Read(t.b, m)
           u == CollectingStep(t)
           k == Len(u.bytes) - Len(t.bytes)
<1>1. /\ t.b \in Reader /\ t.b.err \in BOOLEAN /\ t.n \in Nat /\ t.bytes \in Bytes
      /\ Len(t.bytes) \in 0..t.n
      /\ Stream(t.b) \in Bytes /\ Len(Stream(t.b)) \in Nat
  BY CollectingTyped
<1>2. ~ t.b.err /\ m \in Nat \ {0}
  BY <1>1 DEF CollectingDone
<1> HIDE DEF m
<1>3. /\ r.b \in Reader /\ SameMemory(t.b, r.b)
      /\ Len(r.v) \in 0..m /\ Len(r.v) \in 0..Len(Stream(t.b))
      /\ r.b.err \in BOOLEAN /\ (r.b.err <=> Stream(t.b) = <<>>)
      /\ ~ r.b.err => Len(r.v) > 0
      /\ r.v = Take(Stream(t.b), Len(r.v)) /\ Stream(r.b) = Drop(Stream(t.b), Len(r.v))
  BY <1>1, <1>2, ReadReads
<1>4. u = [t EXCEPT !.b = r.b, !.bytes = t.bytes \o r.v]
  BY DEF CollectingStep, m
<1> HIDE DEF r, u
<1>5. r.v \in Bytes
  BY <1>1, <1>3, Parts
<1>6. t.bytes \o r.v \in Bytes /\ Len(t.bytes \o r.v) = Len(t.bytes) + Len(r.v)
  BY <1>1, <1>5, Joined
<1>7. u.b = r.b /\ u.bytes = t.bytes \o r.v /\ u.n = t.n
  BY <1>4 DEF CollectStates
<1>8. k = Len(r.v) /\ k \in 0..m /\ Len(u.bytes) <= t.n
  <2> DEFINE x == Len(t.bytes)
             y == Len(r.v)
             z == Len(u.bytes)
  <2>1. x \in Nat /\ y \in Nat /\ z = x + y /\ y <= m /\ t.n \in Nat
    <3>1. z = x + y
      BY <1>6, <1>7
    <3>2. x \in Nat /\ y \in Nat
      BY <1>1, <1>5, Lens
    <3>3. y <= m
      BY <1>3
    <3> QED
      BY <1>1, <3>1, <3>2, <3>3
  <2>2. m = t.n - x /\ k = z - x
    BY DEF m
  <2> HIDE DEF x, y, z, k
  <2>3. k = y /\ k \in 0..m /\ z <= t.n
    BY <2>1, <2>2
  <2> QED
    BY <2>3 DEF y, z
<1>9. u \in CollectStates
  <2>1. u = [b |-> u.b, n |-> u.n, bytes |-> u.bytes]
    BY <1>4, <1>7 DEF CollectStates
  <2> QED
    BY <1>1, <1>3, <1>6, <1>7, <1>8, <2>1 DEF CollectStates
<1>10. Keeps(t.b, u.b)
  BY <1>3, <1>7, KeptIsKept
<1> HIDE DEF k
<1> QED
  BY <1>2, <1>3, <1>7, <1>8, <1>9, <1>10 DEF u, k, m

(* Each Read of ReadFull leaves fewer bytes to read.                       *)
LEMMA CollectingDescends == Collecting!Descends
<1> SUFFICES ASSUME NEW t \in CollectStates
             PROVE  /\ CollectingRank(t) \in Nat
                    /\ ~ CollectingDone(t) =>
                          /\ CollectingStep(t) \in CollectStates
                          /\ CollectingRank(CollectingStep(t)) < CollectingRank(t)
  BY DEF Collecting!Descends
<1>1. /\ t.b.err \in BOOLEAN /\ t.n \in Nat /\ Len(t.bytes) \in 0..t.n
  BY CollectingTyped
<1>2. CollectingRank(t) \in Nat
  BY <1>1 DEF CollectingRank
<1>3. ASSUME ~ CollectingDone(t)
      PROVE  /\ CollectingStep(t) \in CollectStates
             /\ CollectingRank(CollectingStep(t)) < CollectingRank(t)
  <2> DEFINE u == CollectingStep(t)
  <2>1. /\ u \in CollectStates /\ u.n = t.n /\ ~ t.b.err
        /\ u.b.err \in BOOLEAN /\ (~ u.b.err => Len(u.bytes) - Len(t.bytes) > 0)
    BY <1>3, CollectsOn
  <2>2. Len(u.bytes) \in 0..t.n
    BY <2>1, CollectingTyped
  <2> HIDE DEF u
  <2>3. CollectingRank(u) < CollectingRank(t)
    <3> DEFINE x == Len(t.bytes)
               y == Len(u.bytes)
    <3>1. x \in 0..t.n /\ y \in 0..t.n /\ (~ u.b.err => y - x > 0) /\ t.n \in Nat
      BY <1>1, <2>1, <2>2
    <3>2. /\ CollectingRank(u) = IF u.b.err THEN 0 ELSE 1 + t.n - y
          /\ CollectingRank(t) = 1 + t.n - x
      BY <2>1 DEF CollectingRank
    <3> HIDE DEF x, y
    <3> QED
      BY <2>1, <3>1, <3>2
  <2> QED
    BY <2>1, <2>3 DEF u
<1> QED
  BY <1>2, <1>3

(* Collect is what the loop of io.ReadFull computes.                       *)
LEMMA CollectUnfolds == Collect = [t \in CollectStates |-> Collecting!Value(Collect, t)]
<1> DEFINE V(f, t) ==
             LET r == Read(t.b, t.n - Len(t.bytes))
             IN  CASE Len(t.bytes) = t.n -> Copy(t.b, t.bytes)
                   [] Len(t.bytes) < t.n /\ t.b.err -> Fail(t.b)
                   [] OTHER -> f[[t EXCEPT !.b = r.b, !.bytes = @ \o r.v]]
<1>1. ASSUME NEW f, NEW t \in CollectStates PROVE V(f, t) = Collecting!Value(f, t)
  <2>1. t.n \in Nat /\ Len(t.bytes) \in 0..t.n
    BY CollectingTyped
  <2>2. CASE Len(t.bytes) = t.n
    BY <2>1, <2>2 DEF Collecting!Value, CollectingDone, CollectingOut
  <2>3. CASE Len(t.bytes) < t.n /\ t.b.err
    BY <2>1, <2>3 DEF Collecting!Value, CollectingDone, CollectingOut
  <2>4. CASE Len(t.bytes) < t.n /\ ~ t.b.err
    BY <2>1, <2>4 DEF Collecting!Value, CollectingDone, CollectingStep, SlicingMore
  <2> QED
    BY <2>1, <2>2, <2>3, <2>4
<1> HIDE DEF V
<1>2. \E f : f = [t \in CollectStates |-> Collecting!Value(f, t)]
  BY CollectingDescends, Collecting!Exists
<1>3. \E f : f = [t \in CollectStates |-> V(f, t)]
  BY <1>1, <1>2
<1>4. \E f : f = [t \in CollectStates |->
            LET r == Read(t.b, t.n - Len(t.bytes))
            IN  CASE Len(t.bytes) = t.n -> Copy(t.b, t.bytes)
                  [] Len(t.bytes) < t.n /\ t.b.err -> Fail(t.b)
                  [] OTHER -> f[[t EXCEPT !.b = r.b, !.bytes = @ \o r.v]]]
  BY <1>3 DEF V
<1>5. Collect = [t \in CollectStates |->
            LET r == Read(t.b, t.n - Len(t.bytes))
            IN  CASE Len(t.bytes) = t.n -> Copy(t.b, t.bytes)
                  [] Len(t.bytes) < t.n /\ t.b.err -> Fail(t.b)
                  [] OTHER -> Collect[[t EXCEPT !.b = r.b, !.bytes = @ \o r.v]]]
  BY <1>4 DEF Collect
<1>6. Collect = [t \in CollectStates |-> V(Collect, t)]
  BY <1>5 DEF V
<1> QED
  BY <1>1, <1>6

(* The end of ReadFull: n bytes copied into memory, or an error.           *)
LEMMA CollectsOut ==
    ASSUME NEW t \in CollectStates, CollectingDone(t) PROVE Collected(t, CollectingOut(t))
<1> DEFINE b == t.b
           r == CollectingOut(t)
           m == t.n - Len(t.bytes)
<1>1. /\ b \in Reader /\ b.err \in BOOLEAN /\ t.n \in Nat /\ t.bytes \in Bytes
      /\ Len(t.bytes) \in 0..t.n
      /\ Stream(b) \in Bytes /\ Len(Stream(b)) \in Nat
  BY CollectingTyped
<1> HIDE DEF r
<1>2. CASE Len(t.bytes) = t.n
  <2>1. r = Copy(b, t.bytes)
    BY <1>2 DEF CollectingOut, r
  <2>2. /\ r.b \in Reader /\ r.ok = TRUE /\ r.nil = FALSE
        /\ r.b.err = b.err /\ Stream(r.b) = Stream(b) /\ Keeps(b, r.b)
        /\ Used(r.b, r.v) /\ r.v.len = Len(t.bytes) /\ BytesOf(r.b, r.v) = t.bytes
    BY <1>1, <2>1, Copies
  <2>3. m = 0
    BY <1>1, <1>2
  <2>4. Take(Stream(b), 0) = <<>> /\ Drop(Stream(b), 0) = Stream(b) /\ t.bytes \o <<>> = t.bytes
    BY <1>1, PartsOfNone, ConcatEmptySeq DEF Bytes
  <2> HIDE DEF m
  <2> QED
    BY <1>2, <2>2, <2>3, <2>4 DEF Collected, r, m
<1>3. CASE Len(t.bytes) # t.n /\ b.err
  <2>1. r.b = b /\ r.ok = FALSE
    BY <1>3 DEF CollectingOut, Fail, r
  <2>2. m # 0
    BY <1>1, <1>3
  <2>3. Keeps(b, b)
    BY KeptIsKept DEF SameMemory
  <2> QED
    BY <1>1, <1>3, <2>1, <2>2, <2>3 DEF Collected, r
<1> QED
  BY <1>2, <1>3 DEF CollectingDone

(* ReadFull takes n bytes of the stream, in whatever pieces (bufio.go      *)
(* 164-173).                                                               *)
LEMMA CollectCollects == \A t \in CollectStates : Collected(t, Collect[t])
<1>1. \A t \in CollectStates : CollectingDone(t) => Collected(t, CollectingOut(t))
  BY CollectsOut
<1>2. ASSUME NEW t \in CollectStates, NEW r, ~ CollectingDone(t), Collected(CollectingStep(t), r)
      PROVE  Collected(t, r)
  <2> DEFINE u == CollectingStep(t)
             k == Len(u.bytes) - Len(t.bytes)
             m == t.n - Len(t.bytes)
             j == t.n - Len(u.bytes)
             S == Stream(t.b)
             T == Drop(S, k)
  <2>1. /\ u \in CollectStates /\ u.n = t.n /\ ~ t.b.err /\ Keeps(t.b, u.b)
        /\ k \in 0..m /\ k \in 0..Len(S)
        /\ u.b.err \in BOOLEAN /\ (u.b.err <=> S = <<>>)
        /\ ~ u.b.err => k > 0
        /\ u.bytes = t.bytes \o Take(S, k) /\ Stream(u.b) = T
    BY <1>2, CollectsOn
  <2>2. /\ t.n \in Nat /\ t.bytes \in Bytes /\ Len(t.bytes) \in 0..t.n
        /\ t.b.err \in BOOLEAN /\ S \in Bytes /\ Len(S) \in Nat
    BY CollectingTyped
  <2>3. u.bytes \in Bytes /\ Len(u.bytes) \in 0..t.n
    BY <2>1, CollectingTyped
  <2>4. Len(S) = 0 <=> S = <<>>
    BY <2>2, Lens
  <2>5. /\ r.b \in Reader /\ Keeps(u.b, r.b) /\ r.ok \in BOOLEAN
        /\ (r.ok <=> j = 0 \/ (~ u.b.err /\ j <= Len(T)))
        /\ r.ok => /\ r.b.err = u.b.err /\ Used(r.b, r.v) /\ r.v.len = t.n /\ r.nil = FALSE
                   /\ BytesOf(r.b, r.v) = u.bytes \o Take(T, j)
                   /\ Stream(r.b) = Drop(T, j)
    BY <1>2, <2>1 DEF Collected
  <2>6. m # 0 /\ m \in Nat /\ j \in Nat /\ k + j = m
    <3> DEFINE x == Len(t.bytes)
               y == Len(u.bytes)
    <3>1. x \in 0..t.n /\ y \in 0..t.n /\ x # t.n /\ t.n \in Nat
      BY <1>2, <2>2, <2>3 DEF CollectingDone
    <3>2. m = t.n - x /\ j = t.n - y /\ k = y - x
      OBVIOUS
    <3> HIDE DEF x, y, m, j, k
    <3> QED
      BY <3>1, <3>2
  <2> HIDE DEF u, k, m, j, S
  <2>7. /\ Take(S, k) \in Bytes /\ T \in Bytes /\ Len(T) = Len(S) - k
    BY <2>1, <2>2, Parts
  <2>8. r.ok <=> m <= Len(S)
    BY <2>1, <2>2, <2>4, <2>5, <2>6, <2>7
  <2>9. Keeps(t.b, r.b)
    BY <2>1, <2>5, KeptIsKept
  <2>10. ASSUME r.ok PROVE BytesOf(r.b, r.v) = t.bytes \o Take(S, m) /\ Stream(r.b) = Drop(S, m)
    <3>1. k \in Nat /\ k + j <= Len(S) /\ j \in 0..Len(T)
      BY <2>1, <2>2, <2>6, <2>7, <2>8, <2>10
    <3>2. Take(S, k) \o Take(T, j) = Take(S, m) /\ Drop(T, j) = Drop(S, m)
      BY <2>2, <2>6, <3>1, PartsOfParts DEF T
    <3> HIDE DEF T
    <3>3. Take(T, j) \in Bytes
      BY <2>7, <3>1, Parts
    <3>4. (t.bytes \o Take(S, k)) \o Take(T, j) = t.bytes \o (Take(S, k) \o Take(T, j))
      BY <2>2, <2>7, <3>3, Regroup
    <3> QED
      BY <2>1, <2>5, <2>10, <3>2, <3>4
  <2>11. r.ok => ~ u.b.err
    BY <2>2, <2>4, <2>1, <2>6, <2>8
  <2> HIDE DEF T
  <2>12. r.ok => r.b.err = t.b.err
    BY <2>1, <2>2, <2>5, <2>11
  <2> QED
    BY <2>1, <2>5, <2>6, <2>8, <2>9, <2>10, <2>12 DEF Collected, m, S
<1>3. \A t \in CollectStates : \A r :
         ~ CollectingDone(t) /\ Collected(CollectingStep(t), r) => Collected(t, SlicingMore(t, r))
  BY <1>2 DEF SlicingMore
<1> QED
  BY <1>1, <1>3, CollectingDescends, CollectUnfolds, Collecting!Reaches

(* ReadFull gives as many bytes as it is asked for (bufio.go 164-173).     *)
LEMMA ReadFullReads ==
    ASSUME NEW b \in Reader, ~ b.err, NEW n \in Nat
    PROVE  LET r == ReadFull(b, n)
           IN  /\ r.b \in Reader /\ Keeps(b, r.b) /\ r.ok \in BOOLEAN
               /\ (r.ok <=> n <= Len(Stream(b)))
               /\ r.ok =>
                     /\ ~ r.b.err /\ Used(r.b, r.v) /\ r.v.len = n /\ r.nil = FALSE
                     /\ BytesOf(r.b, r.v) = Take(Stream(b), n)
                     /\ Stream(r.b) = Drop(Stream(b), n)
<1> DEFINE t == [b |-> b, n |-> n, bytes |-> <<>>]
           r == ReadFull(b, n)
<1>1. t \in CollectStates /\ t.b = b /\ t.n = n /\ t.bytes = <<>> /\ t.n - Len(t.bytes) = n
  <2>1. <<>> \in Bytes /\ Len(<<>>) = 0
    BY EmptySeq DEF Bytes
  <2> QED
    BY <2>1 DEF CollectStates
<1>2. r = Collect[t]
  BY DEF ReadFull
<1> HIDE DEF t, r
<1>3. Collected(t, r)
  BY <1>1, <1>2, CollectCollects
<1>4. Stream(b) \in Bytes /\ Len(Stream(b)) \in Nat
  BY ReaderTyped, Lens
<1>5. r.ok <=> n <= Len(Stream(b))
  BY <1>1, <1>3, <1>4 DEF Collected
<1>6. n <= Len(Stream(b)) => <<>> \o Take(Stream(b), n) = Take(Stream(b), n)
  <2> SUFFICES ASSUME n <= Len(Stream(b)) PROVE <<>> \o Take(Stream(b), n) = Take(Stream(b), n)
    OBVIOUS
  <2>1. Take(Stream(b), n) \in Bytes
    BY <1>4, Parts
  <2> QED
    BY <2>1, ConcatEmptySeq DEF Bytes
<1>7. /\ r.b \in Reader /\ Keeps(b, r.b) /\ r.ok \in BOOLEAN
      /\ r.ok => /\ ~ r.b.err /\ Used(r.b, r.v) /\ r.v.len = n /\ r.nil = FALSE
                 /\ BytesOf(r.b, r.v) = Take(Stream(b), n)
                 /\ Stream(r.b) = Drop(Stream(b), n)
  BY <1>1, <1>3, <1>5, <1>6 DEF Collected
<1> QED
  BY <1>5, <1>7 DEF r

-----------------------------------------------------------------------------
(* The decoder: what an operation returns is what these definitions say of *)
(* the stream.  First a line.                                              *)

(* A slice of a slice has its bytes from there.                            *)
LEMMA SliceOfSlice ==
    ASSUME NEW b \in Reader, NEW s \in Slices,
           s.at + s.len <= IF s.of = "mem" THEN Len(b.mem) ELSE ReaderSize,
           NEW l \in Nat, NEW r \in Nat, l <= r, r <= s.len
    PROVE  LET u == Slice(s.of, s.at + l, r - l)
           IN  /\ u \in Slices /\ (Used(b, s) => Used(b, u))
               /\ BytesOf(b, s) \in Bytes /\ Len(BytesOf(b, s)) = s.len
               /\ BytesOf(b, u) = SubSeq(BytesOf(b, s), l + 1, r)
<1> DEFINE u == Slice(s.of, s.at + l, r - l)
           of == IF s.of = "mem" THEN b.mem ELSE b.buf
<1>1. /\ of \in Bytes /\ Len(of) \in Nat /\ s.at + s.len <= Len(of)
      /\ s.at \in Nat /\ s.len \in Nat /\ s.of \in {"mem", "buf"}
      /\ b.next \in Nat /\ b.left \in Nat
  <2>1. s.at \in Nat /\ s.len \in Nat /\ s.of \in {"mem", "buf"}
    BY DEF Slices
  <2> QED
    BY <2>1, ReaderTyped
<1>2. u.of = s.of /\ u.at = s.at + l /\ u.len = r - l /\ u \in Slices
  BY <1>1 DEF Slice, Slices
<1>3. Used(b, s) => Used(b, u)
  BY <1>1, <1>2 DEF Used
<1>4. BytesOf(b, s) = SubSeq(of, s.at + 1, s.at + s.len)
  BY DEF BytesOf
<1>5. BytesOf(b, u) = SubSeq(of, u.at + 1, u.at + u.len)
  BY <1>2 DEF BytesOf
<1> HIDE DEF of, u
<1> DEFINE v == SubSeq(of, s.at + 1, s.at + s.len)
           w == SubSeq(of, s.at + l + 1, s.at + r)
           x == SubSeq(v, l + 1, r)
<1>6. v \in Bytes /\ Len(v) = s.len /\ \A i \in 1..s.len : v[i] = of[s.at + i]
  BY <1>1, PieceAt
<1>7. u.at + 1 = s.at + l + 1 /\ u.at + u.len = s.at + r
  BY <1>1, <1>2
<1>8. w \in Bytes /\ Len(w) = r - l /\ \A i \in 1..r - l : w[i] = of[s.at + l + i]
  <2> DEFINE m == s.at + l
             n == s.at + r
  <2>1. m \in Nat /\ n \in Nat /\ m <= n /\ n <= Len(of) /\ n - m = r - l
    BY <1>1
  <2>2. w = SubSeq(of, m + 1, n)
    OBVIOUS
  <2> HIDE DEF m, n, w
  <2>3. /\ SubSeq(of, m + 1, n) \in Bytes /\ Len(SubSeq(of, m + 1, n)) = n - m
        /\ \A i \in 1..n - m : SubSeq(of, m + 1, n)[i] = of[m + i]
    BY <1>1, <2>1, Piece
  <2> QED
    BY <2>1, <2>2, <2>3 DEF m
<1>9. x \in Bytes /\ Len(x) = r - l /\ \A i \in 1..r - l : x[i] = v[l + i]
  BY <1>6, Piece
<1> HIDE DEF v, w, x
<1>10. ASSUME NEW i \in 1..r - l PROVE w[i] = x[i]
  <2>1. l + i \in 1..s.len /\ s.at + (l + i) = s.at + l + i
    BY <1>1
  <2> QED
    BY <1>6, <1>8, <1>9, <2>1
<1>11. w = x
  BY <1>8, <1>9, <1>10, SameBytes
<1>12. BytesOf(b, u) = w
  BY <1>5, <1>7 DEF w
<1> QED
  BY <1>2, <1>3, <1>4, <1>6, <1>11, <1>12 DEF u, v, x
(* The text, the number, ... at the beginning of a stream, and what is     *)
(* left of it: what the Decoder's operations read there.                   *)
None == [ok |-> FALSE, nil |-> FALSE, v |-> <<>>, rest |-> <<>>]

LineAt(s, e) ==
    IF e > 1 /\ s[e - 1] = "CR"
    THEN [ok |-> TRUE, nil |-> FALSE, v |-> Take(s, e - 2), rest |-> Drop(s, e)]
    ELSE None

TextAt(s) == LineAt(s, LineEnd(s))

NumberOf(p) ==
    IF p.ok /\ Btoi64(p.v).ok THEN [p EXCEPT !.v = Btoi64(p.v).v] ELSE None

IntAt(s) ==
    IF LineEnd(s) > ReaderSize THEN None ELSE NumberOf(TextAt(s))

(* The operation's result at b is p, what it sees of the stream.           *)
Decodes(b, r, p) ==
    /\ r.b \in Reader /\ Keeps(b, r.b)
    /\ r.ok \in BOOLEAN /\ p.ok \in BOOLEAN /\ (r.ok <=> ~ b.err /\ p.ok)
    /\ r.ok => ~ r.b.err /\ Stream(r.b) = p.rest /\ r.nil = p.nil

(* Ended drops the line end of a slice that has one.                       *)
LEMMA EndedIs ==
    ASSUME NEW b \in Reader, NEW s \in Slices, NEW q, q.b = b, q.ok, q.v = s,
           s.at + s.len <= IF s.of = "mem" THEN Len(b.mem) ELSE ReaderSize
    PROVE  LET r == Ended(q)
               bytes == BytesOf(b, s)
           IN  /\ r.b = b /\ r.ok \in BOOLEAN /\ r.nil \in BOOLEAN
               /\ r.ok <=> s.len > 1 /\ bytes[s.len - 1] = "CR"
               /\ r.ok => /\ BytesOf(b, r.v) = Take(bytes, s.len - 2) /\ r.v \in Slices
                          /\ (Used(b, s) => Used(b, r.v)) /\ ~ r.nil
<1> DEFINE r == Ended(q)
           bytes == BytesOf(b, s)
           n == Len(bytes) - 2
<1>1. s.at \in Nat /\ s.len \in Nat /\ s = Slice(s.of, s.at, s.len)
  BY DEF Slices, Slice
<1>2. bytes \in Bytes /\ Len(bytes) = s.len
  BY <1>1, SliceOfSlice
<1>3. q.b = b /\ q.v = s /\ q.ok
  OBVIOUS
<1>4. r = IF n < 0 \/ bytes[n + 1] # "CR" THEN Fail(b) ELSE Ok(b, [s EXCEPT !.len = n])
  BY <1>3 DEF Ended
<1> HIDE DEF r, bytes
<1>5. n + 1 = s.len - 1 /\ (n < 0 <=> ~ s.len > 1) /\ n = s.len - 2 /\ n \in Int
  BY <1>1, <1>2
<1> HIDE DEF n
<1>6. CASE n < 0 \/ bytes[n + 1] # "CR"
  <2>1. r = Fail(b)
    BY <1>4, <1>6
  <2>2. ~ (s.len > 1 /\ bytes[s.len - 1] = "CR")
    BY <1>5, <1>6
  <2>3. r.b = b /\ r.ok = FALSE /\ r.nil = TRUE
    BY <2>1 DEF Fail
  <2> QED
    BY <2>2, <2>3 DEF r, bytes
<1>7. CASE ~ (n < 0 \/ bytes[n + 1] # "CR")
  <2>1. r = Ok(b, [s EXCEPT !.len = n])
    BY <1>4, <1>7
  <2> DEFINE z == 0
             u == Slice(s.of, s.at + z, n - z)
  <2>2. [s EXCEPT !.len = n] = u
    BY <1>1, <1>5 DEF Slice
  <2>3. n \in Nat /\ n <= s.len /\ z \in Nat /\ z <= n /\ z + 1 = 1
    BY <1>1, <1>5, <1>7
  <2> HIDE DEF z
  <2>4. /\ u \in Slices /\ (Used(b, s) => Used(b, u))
        /\ BytesOf(b, u) = SubSeq(BytesOf(b, s), z + 1, n)
    BY <2>3, SliceOfSlice
  <2> HIDE DEF u
  <2>5. r.v = u /\ r.ok /\ r.b = b /\ r.ok = TRUE /\ r.nil = FALSE
    BY <2>1, <2>2 DEF Ok
  <2>6. BytesOf(b, r.v) = Take(bytes, n)
    BY <2>3, <2>4, <2>5 DEF Take, bytes
  <2> QED
    BY <1>5, <1>7, <2>4, <2>5, <2>6 DEF r, bytes
<1> QED
  BY <1>6, <1>7

(* What TextAt says of a stream.                                           *)
LEMMA TextTyped ==
    ASSUME NEW s \in Bytes
    PROVE  LET p == TextAt(s)
           IN  /\ p.ok \in BOOLEAN /\ p.nil = FALSE
               /\ (p.ok <=> LineEnd(s) > 1 /\ s[LineEnd(s) - 1] = "CR")
               /\ p.ok => /\ p.v = Take(s, LineEnd(s) - 2) /\ p.rest = Drop(s, LineEnd(s))
                          /\ p.v \in Bytes /\ p.rest \in Bytes /\ Len(p.rest) < Len(s)
<1> DEFINE e == LineEnd(s)
<1>1. e \in 0..Len(s) /\ Len(s) \in Nat
  BY LineEndFound, Lens
<1>2. TextAt(s) = LineAt(s, e)
  BY DEF TextAt
<1> HIDE DEF e
<1>3. Drop(s, e) \in Bytes /\ Len(Drop(s, e)) = Len(s) - e
  BY <1>1, Parts
<1>4. e > 1 => Take(s, e - 2) \in Bytes
  <2> SUFFICES ASSUME e > 1 PROVE Take(s, e - 2) \in Bytes
    OBVIOUS
  <2>1. e - 2 \in 0..Len(s)
    BY <1>1
  <2> QED
    BY <2>1, Parts
<1>5. e > 1 => Len(Drop(s, e)) < Len(s)
  BY <1>1, <1>3
<1> QED
  BY <1>2, <1>3, <1>4, <1>5 DEF LineAt, None, e

(* decodeTextBytes returns the first line of the stream, without its end.  *)
LEMMA TextDecodes ==
    ASSUME NEW b \in Reader
    PROVE  LET r == decodeTextBytes(b)
               p == TextAt(Stream(b))
           IN  /\ Decodes(b, r, p)
               /\ r.ok => Used(r.b, r.v) /\ BytesOf(r.b, r.v) = p.v
<1> DEFINE q == ReadBytes(b)
           r == decodeTextBytes(b)
           s == Stream(b)
           e == LineEnd(s)
           p == TextAt(s)
<1>1. s \in Bytes /\ Len(s) \in Nat /\ e \in 0..Len(s) /\ b.err \in BOOLEAN
  BY ReaderTyped, Lens, LineEndFound
<1>2. /\ q.b \in Reader /\ Keeps(b, q.b)
      /\ q.ok \in BOOLEAN /\ (q.ok <=> ~ b.err /\ e > 0)
      /\ q.ok =>
            /\ ~ q.b.err /\ Used(q.b, q.v) /\ q.v.len = e
            /\ BytesOf(q.b, q.v) = Take(s, e)
            /\ Stream(q.b) = Drop(s, e)
  BY ReadBytesReads
<1>3. r = Ended(q)
  BY DEF decodeTextBytes
<1>4. /\ p.ok \in BOOLEAN /\ p.nil = FALSE
      /\ (p.ok <=> e > 1 /\ s[e - 1] = "CR")
      /\ p.ok => p.v = Take(s, e - 2) /\ p.rest = Drop(s, e)
  BY <1>1, TextTyped
<1> HIDE DEF q, r, s, e, p
<1>5. CASE ~ q.ok
  <2>1. r = Fail(q.b)
    BY <1>3, <1>5 DEF Ended
  <2> QED
    BY <1>1, <1>2, <1>4, <1>5, <2>1 DEF Decodes, Fail, r, s, e, p
<1>6. CASE q.ok
  <2>1. q.v \in Slices /\ q.v.of = "mem" /\ q.v.at + q.v.len <= Len(q.b.mem)
    BY <1>2, <1>6 DEF Used
  <2> DEFINE bytes == BytesOf(q.b, q.v)
             c == q.b
             u == q.v
  <2>3. c \in Reader /\ u \in Slices /\ u.at + u.len <= IF u.of = "mem" THEN Len(c.mem) ELSE ReaderSize
    BY <1>2, <2>1
  <2> HIDE DEF c, u
  <2>4. /\ r.b = c /\ r.ok \in BOOLEAN /\ r.nil \in BOOLEAN
        /\ r.ok <=> u.len > 1 /\ BytesOf(c, u)[u.len - 1] = "CR"
        /\ r.ok => /\ BytesOf(c, r.v) = Take(BytesOf(c, u), u.len - 2) /\ r.v \in Slices
                   /\ (Used(c, u) => Used(c, r.v)) /\ ~ r.nil
    <3> DEFINE r2 == Ended(q)
    <3>0. q.b = c /\ q.v = u /\ q.ok
      BY <1>6 DEF c, u
    <3>1. /\ r2.b = c /\ r2.ok \in BOOLEAN /\ r2.nil \in BOOLEAN
          /\ r2.ok <=> u.len > 1 /\ BytesOf(c, u)[u.len - 1] = "CR"
          /\ r2.ok => /\ BytesOf(c, r2.v) = Take(BytesOf(c, u), u.len - 2) /\ r2.v \in Slices
                      /\ (Used(c, u) => Used(c, r2.v)) /\ ~ r2.nil
      BY <2>3, <3>0, EndedIs
    <3> HIDE DEF r2
    <3> QED
      BY <1>3, <3>1 DEF r2
  <2>5. /\ u.len = e /\ BytesOf(c, u) = Take(s, e) /\ ~ c.err /\ Stream(c) = Drop(s, e)
        /\ Used(c, u) /\ e > 0 /\ Keeps(b, c)
    BY <1>2, <1>6 DEF c, u
  <2>6. e > 1 => Take(s, e)[e - 1] = s[e - 1]
    BY <1>1, Parts
  <2>7. e > 1 => Take(Take(s, e), e - 2) = Take(s, e - 2)
    <3> SUFFICES ASSUME e > 1 PROVE Take(Take(s, e), e - 2) = Take(s, e - 2)
      OBVIOUS
    <3> DEFINE m == e - 2
    <3>1. m \in Nat /\ 2 \in Nat /\ m + 2 <= Len(s) /\ m + 2 = e
      BY <1>1
    <3> HIDE DEF m
    <3>2. Take(Take(s, m + 2), m) = Take(s, m)
      BY <1>1, <3>1, PartsOfParts
    <3> QED
      BY <3>1, <3>2 DEF m
  <2>8. r.ok <=> ~ b.err /\ p.ok
    BY <1>1, <1>2, <1>4, <1>6, <2>4, <2>5, <2>6
  <2>9. r.ok => /\ BytesOf(r.b, r.v) = p.v /\ Used(r.b, r.v) /\ Stream(r.b) = p.rest /\ ~ r.b.err
                /\ r.nil = p.nil
    BY <1>4, <2>4, <2>5, <2>7, <2>8
  <2> QED
    BY <1>4, <2>3, <2>4, <2>5, <2>8, <2>9 DEF Decodes, r, p, s
<1> QED
  BY <1>2, <1>5, <1>6

-----------------------------------------------------------------------------
(* Numbers.                                                                *)

(* The elements of bytes are bytes.                                        *)
LEMMA ElementsIn ==
    ASSUME NEW s \in Bytes PROVE \A i \in 1..Len(s) : s[i] \in Byte
BY ElementOfSeq DEF Bytes

(* One byte alone.                                                         *)
LEMMA Ones == ASSUME NEW c \in Byte PROVE <<c>> \in Bytes /\ Len(<<c>>) = 1 /\ <<c>>[1] = c
BY DEF Bytes

(* A byte appended.                                                        *)
LEMMA Appended ==
    ASSUME NEW s \in Bytes, NEW c \in Byte
    PROVE  /\ Append(s, c) \in Bytes /\ Append(s, c) # <<>> /\ Len(Append(s, c)) = Len(s) + 1
           /\ \A i \in 1..Len(s) : Append(s, c)[i] = s[i]
           /\ Append(s, c)[Len(s) + 1] = c /\ Append(s, c) = s \o <<c>>
           /\ Front(Append(s, c)) = s /\ Last(Append(s, c)) = c
<1> DEFINE t == Append(s, c)
<1>1. /\ t \in Bytes /\ t # <<>> /\ Len(t) = Len(s) + 1
      /\ \A i \in 1..Len(s) : t[i] = s[i]
      /\ t[Len(s) + 1] = c /\ t = s \o <<c>>
  BY AppendProperties, AppendIsConcat DEF Bytes
<1>2. Len(s) \in Nat
  BY Lens
<1> HIDE DEF t
<1>3. Last(t) = c
  BY <1>1 DEF Last
<1>4. Front(t) = Take(t, Len(s))
  BY <1>1, <1>2 DEF Front, Take
<1>5. Take(t, Len(s)) = s
  BY <1>1, Ones, PartsOfBoth
<1> QED
  BY <1>1, <1>3, <1>4, <1>5 DEF t

(* A byte that is a digit is its number; another one has some number, too. *)
LEMMA DigitOfDigit ==
    /\ \A c : DigitOf(c) \in Int
    /\ \A i \in 1..10 : DigitOf(Digits[i]) = i - 1
<1> DEFINE I(c) == {i \in 1..Len(Digits) : Digits[i] = c}
           n(c) == SelectInSeq(Digits, LAMBDA d : d = c)
<1>1. Len(Digits) = 10
  BY DEF Digits
<1>2. ASSUME NEW c PROVE n(c) \in Nat /\ (I(c) # {} => n(c) \in I(c))
  <2>1. CASE I(c) = {}
    <3>1. n(c) = 0
      BY <2>1 DEF SelectInSeq
    <3> QED
      BY <2>1, <3>1
  <2>2. CASE I(c) # {}
    <3>1. I(c) \subseteq Nat
      BY <1>1
    <3>2. PICK k \in I(c) : \A m \in I(c) : k <= m
      BY <2>2, <3>1, Slicing!Least
    <3>3. n(c) = CHOOSE x \in I(c) : \A y \in I(c) : x =< y
      BY <2>2 DEF SelectInSeq, Min
    <3> HIDE DEF n, I
    <3>4. n(c) \in I(c)
      BY <3>2, <3>3
    <3> QED
      BY <3>1, <3>4
  <2> QED
    BY <2>1, <2>2
<1>3. \A c : DigitOf(c) = n(c) - 1
  BY DEF DigitOf
<1>4. ASSUME NEW i \in 1..10 PROVE n(Digits[i]) = i
  <2> DEFINE c == Digits[i]
  <2>1. i \in I(c)
    BY <1>1
  <2> HIDE DEF n, c, I
  <2>2. n(c) \in I(c)
    BY <1>2, <2>1
  <2>4. n(c) \in 1..10 /\ Digits[n(c)] = c
    BY <1>1, <2>2 DEF I
  <2>3. \A j, k \in 1..10 : Digits[j] = Digits[k] => j = k
    BY DEF Digits
  <2> QED
    BY <2>3, <2>4 DEF c
<1> HIDE DEF n
<1>5. \A c : n(c) - 1 \in Int
  BY <1>2
<1> QED
  BY <1>3, <1>4, <1>5

-----------------------------------------------------------------------------
(* Number, one byte after the other.                                       *)
NumberingDone(s) == s = <<>>
NumberingOut(s) == 0
NumberingMore(s, r) == r * 10 + DigitOf(Last(s))
Numbered(s, r) == r \in Int

Numbering == INSTANCE Recursion
    WITH States <- Bytes, Rank <- Len, Done <- NumberingDone, Out <- NumberingOut,
         Step <- Front, More <- NumberingMore, Good <- Numbered

(* Number works on one byte less each time.                                *)
LEMMA NumberingDescends == Numbering!Descends
<1> SUFFICES ASSUME NEW s \in Bytes
             PROVE  Len(s) \in Nat /\ (s # <<>> => Front(s) \in Bytes /\ Len(Front(s)) < Len(s))
  BY DEF Numbering!Descends, NumberingDone
<1>1. Len(s) \in Nat /\ (Len(s) = 0 <=> s = <<>>)
  BY Lens
<1>2. ASSUME s # <<>> PROVE Front(s) \in Bytes /\ Len(Front(s)) < Len(s)
  <2> DEFINE n == Len(s) - 1
  <2>1. n \in 0..Len(s) /\ n < Len(s)
    BY <1>1, <1>2
  <2>2. Front(s) = Take(s, n)
    BY DEF Front, Take
  <2> HIDE DEF n
  <2> QED
    BY <2>1, <2>2, Parts
<1> QED
  BY <1>1, <1>2

(* Number is what its recursion computes.                                  *)
LEMMA NumberUnfolds == Number = [s \in Bytes |-> Numbering!Value(Number, s)]
<1>1. \E f : f = [s \in Bytes |-> Numbering!Value(f, s)]
  BY NumberingDescends, Numbering!Exists
<1>2. \E f : f = [s \in Bytes |-> IF s = <<>> THEN 0 ELSE f[Front(s)] * 10 + DigitOf(Last(s))]
  BY <1>1 DEF Numbering!Value, NumberingDone, NumberingOut, NumberingMore
<1>3. Number = [s \in Bytes |-> IF s = <<>> THEN 0 ELSE Number[Front(s)] * 10 + DigitOf(Last(s))]
  BY <1>2 DEF Number
<1> QED
  BY <1>3 DEF Numbering!Value, NumberingDone, NumberingOut, NumberingMore

(* Number is an integer.                                                   *)
LEMMA NumberIsInt == \A s \in Bytes : Number[s] \in Int
<1>1. \A s \in Bytes : NumberingDone(s) => Numbered(s, NumberingOut(s))
  BY DEF Numbered, NumberingOut
<1>2. \A s \in Bytes : \A r :
         ~ NumberingDone(s) /\ Numbered(Front(s), r) => Numbered(s, NumberingMore(s, r))
  BY DigitOfDigit DEF Numbered, NumberingMore
<1>3. \A s \in Bytes : Numbered(s, Number[s])
  BY <1>1, <1>2, NumberingDescends, NumberUnfolds, Numbering!Reaches
<1> QED
  BY <1>3 DEF Numbered

(* One digit more: ten times the number, and the digit.                    *)
LEMMA NumberOfMore ==
    ASSUME NEW s \in Bytes, NEW c \in Byte
    PROVE  Number[<<>>] = 0 /\ Number[Append(s, c)] = Number[s] * 10 + DigitOf(c)
<1>1. /\ Append(s, c) \in Bytes /\ Append(s, c) # <<>>
      /\ Front(Append(s, c)) = s /\ Last(Append(s, c)) = c
  BY Appended
<1>2. <<>> \in Bytes
  BY EmptySeq DEF Bytes
<1>3. \A t \in Bytes : Number[t] = Numbering!Value(Number, t)
  BY NumberUnfolds
<1> DEFINE t == Append(s, c)
<1> HIDE DEF t
<1>4. Number[t] = Numbering!Value(Number, t) /\ Number[<<>>] = Numbering!Value(Number, <<>>)
  BY <1>1, <1>2, <1>3 DEF t
<1>5. Number[<<>>] = 0
  BY <1>4 DEF Numbering!Value, NumberingDone, NumberingOut
<1>6. Number[t] = Number[Front(t)] * 10 + DigitOf(Last(t))
  BY <1>1, <1>4 DEF Numbering!Value, NumberingDone, NumberingMore, t
<1> QED
  BY <1>1, <1>5, <1>6 DEF t

(* A number that was read is an integer.                                   *)
LEMMA NumberTyped == ASSUME NEW s \in Bytes PROVE Btoi64(s).ok \in BOOLEAN /\ Btoi64(s).v \in Int
<1>1. ASSUME NEW t \in Bytes PROVE Number[t] \in Int /\ 0 - Number[t] \in Int
  BY NumberIsInt
<1>2. s # <<>> => Tail(s) \in Bytes
  BY HeadTailProperties DEF Bytes
<1> DEFINE signed == s # <<>> /\ s[1] \in {"+", "-"}
           digits == IF signed THEN Tail(s) ELSE s
<1>3. digits \in Bytes
  BY <1>2
<1>4. Btoi64(s) =
        IF digits = <<>> \/ ~(ToSet(digits) \subseteq DigitSet)
        THEN [ok |-> FALSE, v |-> 0]
        ELSE [ok |-> TRUE, v |-> IF signed /\ s[1] = "-" THEN 0 - Number[digits]
                                                         ELSE Number[digits]]
  BY DEF Btoi64
<1> HIDE DEF digits, signed
<1> QED
  BY <1>1, <1>3, <1>4
(* The decimal digits of a number.                                         *)
DecimalDone(i) == i < 10
DecimalOut(i) == <<Digits[i + 1]>>
DecimalStep(i) == i \div 10
DecimalRank(i) == i
Digital(s) == s \in Bytes /\ s # <<>> /\ ToSet(s) \subseteq DigitSet
Decimals(i, s) == Digital(s) /\ Number[s] = i
DecimalMore(i, s) == Append(s, Digits[(i % 10) + 1])

Decimaling == INSTANCE Recursion
    WITH States <- Nat, Rank <- DecimalRank, Done <- DecimalDone, Out <- DecimalOut,
         Step <- DecimalStep, More <- DecimalMore, Good <- Decimals

(* Digits are bytes, and a digit appended to digits counts.                *)
LEMMA DigitalMore ==
    ASSUME NEW i \in 1..10
    PROVE  /\ Digits[i] \in Byte /\ Digits[i] \in DigitSet
           /\ Digital(<<Digits[i]>>) /\ Number[<<Digits[i]>>] = i - 1
           /\ \A s : Digital(s) => /\ Digital(Append(s, Digits[i]))
                                   /\ Number[Append(s, Digits[i])] = Number[s] * 10 + i - 1
<1> DEFINE c == Digits[i]
<1>1. c \in DigitSet /\ c \in Byte
  BY CodecAssumption DEF DigitSet, CodecAssumption
<1>2. DigitOf(c) = i - 1 /\ i - 1 \in Nat
  BY DigitOfDigit
<1> HIDE DEF c
<1>3. ASSUME NEW s \in Bytes, ToSet(s) \subseteq DigitSet
      PROVE  Digital(Append(s, c)) /\ Number[Append(s, c)] = Number[s] * 10 + i - 1
  <2> DEFINE t == Append(s, c)
  <2>1. /\ t \in Bytes /\ t # <<>> /\ Len(t) = Len(s) + 1 /\ Len(s) \in Nat
        /\ \A j \in 1..Len(s) : t[j] = s[j]
        /\ t[Len(s) + 1] = c
    BY <1>1, Appended, Lens
  <2>2. DOMAIN t = 1..Len(s) + 1 /\ DOMAIN s = 1..Len(s)
    BY <2>1, LenProperties DEF Bytes
  <2>3. Number[t] = Number[s] * 10 + DigitOf(c) /\ Number[s] \in Int
    BY <1>1, NumberOfMore, NumberIsInt
  <2> HIDE DEF t
  <2>4. ToSet(t) \subseteq DigitSet
    <3> SUFFICES ASSUME NEW j \in 1..Len(s) + 1 PROVE t[j] \in DigitSet
      BY <2>2 DEF ToSet
    <3>1. CASE j = Len(s) + 1
      BY <1>1, <2>1, <3>1
    <3>2. CASE j # Len(s) + 1
      <4>1. j \in 1..Len(s)
        BY <2>1, <3>2
      <4>2. s[j] \in DigitSet
        BY <1>3, <2>2, <4>1 DEF ToSet
      <4> QED
        BY <2>1, <4>1, <4>2
    <3> QED
      BY <3>1, <3>2
  <2>5. Number[t] = Number[s] * 10 + i - 1
    BY <1>2, <2>3
  <2> QED
    BY <2>1, <2>4, <2>5 DEF t, Digital
<1>4. <<>> \in Bytes /\ Append(<<>>, c) = <<c>> /\ ToSet(<<>>) = {}
  BY EmptySeq DEF Bytes, ToSet
<1>5. Number[<<>>] = 0
  BY <1>1, <1>4, NumberOfMore
<1> DEFINE e == <<>>
<1>6. e \in Bytes /\ ToSet(e) \subseteq DigitSet /\ Append(e, c) = <<c>> /\ Number[e] = 0
  BY <1>4, <1>5
<1> HIDE DEF e
<1>7. Digital(<<c>>) /\ Number[<<c>>] = i - 1
  <2>1. Digital(Append(e, c)) /\ Number[Append(e, c)] = Number[e] * 10 + i - 1
    BY <1>3, <1>6
  <2> QED
    BY <1>2, <1>6, <2>1
<1> QED
  BY <1>1, <1>3, <1>7 DEF c, Digital

(* The decimal digits of a number are read as this number.                 *)
LEMMA DecimalIs == \A i \in Nat : Decimals(i, Decimal[i])
<1>1. ASSUME NEW i \in Nat
      PROVE  /\ i % 10 \in 0..9 /\ i \div 10 \in Nat /\ i = (i \div 10) * 10 + (i % 10)
             /\ i >= 10 => i \div 10 < i
  OBVIOUS
<1>2. Decimaling!Descends
  BY <1>1 DEF Decimaling!Descends, DecimalRank, DecimalDone, DecimalStep
<1>3. \E f : f = [i \in Nat |-> Decimaling!Value(f, i)]
  BY <1>2, Decimaling!Exists
<1>4. \E f : f = [i \in Nat |->
          IF i < 10 THEN <<Digits[i + 1]>> ELSE Append(f[i \div 10], Digits[(i % 10) + 1])]
  BY <1>3 DEF Decimaling!Value, DecimalDone, DecimalOut, DecimalStep, DecimalMore
<1>5. Decimal = [i \in Nat |->
          IF i < 10 THEN <<Digits[i + 1]>> ELSE Append(Decimal[i \div 10], Digits[(i % 10) + 1])]
  BY <1>4 DEF Decimal
<1>6. Decimal = [i \in Nat |-> Decimaling!Value(Decimal, i)]
  BY <1>5 DEF Decimaling!Value, DecimalDone, DecimalOut, DecimalStep, DecimalMore
<1>7. ASSUME NEW i \in Nat, i < 10 PROVE Decimals(i, <<Digits[i + 1]>>)
  <2> DEFINE j == i + 1
  <2>1. j \in 1..10 /\ j - 1 = i
    BY <1>7
  <2> HIDE DEF j
  <2>2. Decimals(i, <<Digits[j]>>)
    BY <2>1, DigitalMore DEF Decimals
  <2> QED
    BY <2>2 DEF j
<1>8. ASSUME NEW i \in Nat, NEW s, Decimals(i \div 10, s)
      PROVE  Decimals(i, Append(s, Digits[(i % 10) + 1]))
  <2> DEFINE j == (i % 10) + 1
  <2>1. j \in 1..10 /\ (i \div 10) * 10 + j - 1 = i /\ i \div 10 \in Nat
    BY <1>1
  <2> HIDE DEF j
  <2>2. Digital(s) /\ Number[s] = i \div 10
    BY <1>8 DEF Decimals
  <2>3. Digital(Append(s, Digits[j])) /\ Number[Append(s, Digits[j])] = Number[s] * 10 + j - 1
    BY <2>1, <2>2, DigitalMore
  <2>4. Decimals(i, Append(s, Digits[j]))
    BY <2>1, <2>2, <2>3 DEF Decimals
  <2> QED
    BY <2>4 DEF j
<1>9. \A i \in Nat : DecimalDone(i) => Decimals(i, DecimalOut(i))
  BY <1>7 DEF DecimalDone, DecimalOut
<1>10. \A i \in Nat : \A s :
          ~ DecimalDone(i) /\ Decimals(DecimalStep(i), s) => Decimals(i, DecimalMore(i, s))
  BY <1>8 DEF DecimalStep, DecimalMore
<1> QED
  BY <1>2, <1>6, <1>9, <1>10, Decimaling!Reaches

(* What FormatInt writes of a length, a size or -1 are digits with a sign  *)
(* or none, without a line end, and Btoi64 reads the same number of them:  *)
(* the decoder's parser undoes the encoder's (decoder.go 33-62, encoder.go *)
(* 34-44).                                                                 *)
THEOREM FormattedIsRead ==
    ASSUME NEW i \in Nat \cup {-1}
    PROVE  /\ FormatInt(i) \in Bytes /\ FormatInt(i) # <<>>
           /\ \A j \in 1..Len(FormatInt(i)) : FormatInt(i)[j] \notin {"LF", "CR"}
           /\ Btoi64(FormatInt(i)).ok /\ Btoi64(FormatInt(i)).v = i
<1>0. \A c \in DigitSet : c \notin {"LF", "CR", "+", "-"}
  BY DEF DigitSet, Digits
<1> DEFINE n == IF i < 0 THEN 0 - i ELSE i
           d == Decimal[n]
           s == FormatInt(i)
<1>1. n \in Nat
  OBVIOUS
<1> HIDE DEF n
<1>2. Digital(d) /\ Number[d] = n
  BY <1>1, DecimalIs DEF Decimals
<1> HIDE DEF d
<1>3. /\ d \in Bytes /\ d # <<>> /\ ToSet(d) \subseteq DigitSet
      /\ \A j \in 1..Len(d) : d[j] \notin {"LF", "CR", "+", "-"}
      /\ d[1] \notin {"+", "-"} /\ Len(d) \in Nat
  <2>1. d \in Bytes /\ d # <<>> /\ ToSet(d) \subseteq DigitSet
    BY <1>2 DEF Digital
  <2>2. Len(d) \in Nat /\ Len(d) # 0
    BY <2>1, Lens
  <2>3. DOMAIN d = 1..Len(d)
    BY <2>1, LenProperties DEF Bytes
  <2>4. ASSUME NEW j \in 1..Len(d) PROVE d[j] \notin {"LF", "CR", "+", "-"}
    <3>1. d[j] \in DigitSet
      BY <2>1, <2>3 DEF ToSet
    <3> QED
      BY <1>0, <3>1
  <2>5. 1 \in 1..Len(d)
    BY <2>2
  <2>6. d[1] \notin {"+", "-"}
    BY <2>4, <2>5
  <2> QED
    BY <2>1, <2>2, <2>4, <2>6
<1>4. CASE i # -1
  <2>1. i \in Nat /\ n = i
    BY <1>4 DEF n
  <2>2. s = d
    BY <2>1 DEF FormatInt, d
  <2> HIDE DEF s
  <2>3. Btoi64(d).ok /\ Btoi64(d).v = Number[d]
    BY <1>3 DEF Btoi64
  <2> QED
    BY <1>2, <1>3, <2>1, <2>2, <2>3 DEF s
<1>5. CASE i = -1
  <2>1. n = 1
    BY <1>5 DEF n
  <2>2. s = <<"-">> \o d
    BY <1>5 DEF FormatInt, d, n
  <2>3. "-" \in Byte
    BY CodecAssumption DEF CodecAssumption, Types, Text
  <2> DEFINE m == <<"-">>
  <2>4. m \in Bytes /\ Len(m) = 1 /\ m[1] = "-"
    BY <2>3, Ones
  <2> HIDE DEF m, s
  <2>5. /\ s \in Bytes /\ Len(s) = 1 + Len(d)
        /\ \A j \in 1..1 : s[j] = m[j]
        /\ \A j \in 2..1 + Len(d) : s[j] = d[j - 1]
    BY <1>3, <2>2, <2>4, Joined DEF m
  <2>6. s # <<>> /\ s[1] = "-"
    BY <1>3, <2>4, <2>5, Lens
  <2>7. Tail(s) = d
    <3>1. Tail(s) = Drop(s, 1)
      BY <2>5, <2>6 DEF Drop, Bytes
    <3>2. Drop(m \o d, Len(m)) = d
      BY <1>3, <2>4, PartsOfBoth
    <3> QED
      BY <2>2, <2>4, <3>1, <3>2 DEF m
  <2>8. Btoi64(s).ok /\ Btoi64(s).v = 0 - Number[d]
    BY <1>3, <2>6, <2>7 DEF Btoi64
  <2>9. ASSUME NEW j \in 1..Len(s) PROVE s[j] \notin {"LF", "CR"}
    <3>1. CASE j = 1
      BY <2>6, <3>1
    <3>2. CASE j # 1
      <4>1. j \in 2..1 + Len(d) /\ j - 1 \in 1..Len(d)
        BY <1>3, <2>5, <3>2
      <4>2. s[j] = d[j - 1]
        BY <2>5, <4>1
      <4> QED
        BY <1>3, <4>1, <4>2
    <3> QED
      BY <3>1, <3>2
  <2> QED
    BY <1>2, <1>5, <2>1, <2>5, <2>6, <2>8, <2>9 DEF s
<1> QED
  BY <1>4, <1>5
-----------------------------------------------------------------------------
(* The table of itoa.                                                      *)
TablingDone(n) == n = 0
TablingOut(n) == <<>>
TablingStep(n) == n - 1
TablingMore(n, s) == s \o FormatInt(n - 1 + minItoa)
Tabled(n, s) ==
    /\ s = Table[n] /\ s \in Bytes
    /\ \A m \in 0..n : Len(Table[m]) \in 0..Len(s) /\ Take(s, Len(Table[m])) = Table[m]

Tabling == INSTANCE Recursion
    WITH States <- Nat, Rank <- DecimalRank, Done <- TablingDone, Out <- TablingOut,
         Step <- TablingStep, More <- TablingMore, Good <- Tabled

(* What FormatInt writes are bytes.                                        *)
LEMMA Formatted == \A i \in Int : FormatInt(i) \in Bytes
<1> SUFFICES ASSUME NEW i \in Int PROVE FormatInt(i) \in Bytes
  OBVIOUS
<1>1. \A n \in Nat : Decimal[n] \in Bytes
  BY DecimalIs DEF Decimals, Digital
<1>2. "-" \in Byte
  BY CodecAssumption DEF CodecAssumption, Types, Text
<1>3. CASE i >= 0
  BY <1>1, <1>3 DEF FormatInt
<1>4. CASE i < 0
  <2> DEFINE d == Decimal[0 - i]
  <2>1. d \in Bytes
    BY <1>1, <1>4
  <2>2. FormatInt(i) = <<"-">> \o d
    BY <1>4 DEF FormatInt
  <2> HIDE DEF d
  <2>3. <<"-">> \in Bytes
    BY <1>2, Ones
  <2> QED
    BY <2>1, <2>2, <2>3, Joined
<1> QED
  BY <1>3, <1>4

(* The itoa table is made of the numbers in their order (encoder.go        *)
(* 25-32).                                                                 *)
LEMMA TableIs ==
    /\ \A n \in Nat : Tabled(n, Table[n])
    /\ \A n \in Nat : n > 0 => Table[n] = Table[n - 1] \o FormatInt(n - 1 + minItoa)
<1>1. Tabling!Descends
  BY DEF Tabling!Descends, TablingDone, TablingStep, DecimalRank
<1>2. \E f : f = [n \in Nat |-> Tabling!Value(f, n)]
  BY <1>1, Tabling!Exists
<1>3. \E f : f = [n \in Nat |-> IF n = 0 THEN <<>> ELSE f[n - 1] \o FormatInt(n - 1 + minItoa)]
  BY <1>2 DEF Tabling!Value, TablingDone, TablingOut, TablingStep, TablingMore
<1>4. Table = [n \in Nat |-> IF n = 0 THEN <<>> ELSE Table[n - 1] \o FormatInt(n - 1 + minItoa)]
  BY <1>3 DEF Table
<1>5. Table = [n \in Nat |-> Tabling!Value(Table, n)]
  BY <1>4 DEF Tabling!Value, TablingDone, TablingOut, TablingStep, TablingMore
<1>6. /\ Table[0] = <<>>
      /\ \A n \in Nat : n > 0 => Table[n] = Table[n - 1] \o FormatInt(n - 1 + minItoa)
  <2> DEFINE x(n) == Table[n - 1] \o FormatInt(n - 1 + minItoa)
  <2>1. Table = [n \in Nat |-> IF n = 0 THEN <<>> ELSE x(n)]
    BY <1>4
  <2> HIDE DEF x
  <2>2. \A n \in Nat : Table[n] = IF n = 0 THEN <<>> ELSE x(n)
    BY <2>1
  <2>3. Table[0] = <<>> /\ \A n \in Nat : n > 0 => Table[n] = x(n)
    BY <2>2
  <2> QED
    BY <2>3 DEF x
<1>7. Tabled(0, <<>>)
  <2> DEFINE e == <<>>
  <2>1. e \in Bytes /\ Len(e) = 0 /\ Take(e, 0) = e
    <3>1. e \in Bytes /\ Len(e) = 0
      BY EmptySeq DEF Bytes
    <3> QED
      BY <3>1, PartsOfNone
  <2>2. \A m \in 0..0 : m = 0
    OBVIOUS
  <2> HIDE DEF e
  <2>3. Tabled(0, e)
    BY <1>6, <2>1, <2>2 DEF Tabled, e
  <2> QED
    BY <2>3 DEF e
<1>8. ASSUME NEW n \in Nat, n > 0, NEW s, Tabled(n - 1, s)
      PROVE  Tabled(n, s \o FormatInt(n - 1 + minItoa))
  <2> DEFINE x == FormatInt(n - 1 + minItoa)
             t == s \o x
  <2>0. minItoa \in Int
    BY CodecAssumption DEF CodecAssumption
  <2>1. n - 1 + minItoa \in Int
    BY <2>0
  <2>2. x \in Bytes
    BY <2>1, Formatted
  <2> HIDE DEF x
  <2>3. s = Table[n - 1] /\ s \in Bytes
    BY <1>8 DEF Tabled
  <2>4. t \in Bytes /\ Len(t) = Len(s) + Len(x) /\ Len(s) \in Nat /\ Len(x) \in Nat
    BY <2>2, <2>3, Joined
  <2>5. t = Table[n]
    BY <1>6, <1>8, <2>3 DEF x
  <2>6. ASSUME NEW m \in 0..n PROVE Len(Table[m]) \in 0..Len(t) /\ Take(t, Len(Table[m])) = Table[m]
    <3>1. CASE m = n
      <4>1. Take(t, Len(t)) = t
        BY <2>4, PartsOfNone
      <4> QED
        BY <2>4, <2>5, <3>1, <4>1
    <3>2. CASE m # n
      <4>1. m \in 0..n - 1
        BY <1>8, <3>2
      <4> DEFINE k == Len(Table[m])
      <4>2. k \in 0..Len(s) /\ Take(s, k) = Table[m]
        BY <1>8, <4>1 DEF Tabled
      <4> HIDE DEF k
      <4>3. Take(t, k) = Take(s, k)
        BY <2>2, <2>3, <4>2, PartsOfMore
      <4>4. k \in 0..Len(t)
        BY <2>4, <4>2
      <4> QED
        BY <4>2, <4>3, <4>4 DEF k
    <3> QED
      BY <3>1, <3>2
  <2> HIDE DEF t
  <2>7. Tabled(n, t)
    BY <2>4, <2>5, <2>6 DEF Tabled
  <2> QED
    BY <2>7 DEF t, x
<1>9. \A n \in Nat : TablingDone(n) => Tabled(n, TablingOut(n))
  BY <1>7 DEF TablingDone, TablingOut
<1>10. \A n \in Nat : \A s :
          ~ TablingDone(n) /\ Tabled(TablingStep(n), s) => Tabled(n, TablingMore(n, s))
  BY <1>8 DEF TablingDone, TablingStep, TablingMore
<1>11. \A n \in Nat : Tabled(n, Table[n])
  BY <1>1, <1>5, <1>9, <1>10, Tabling!Reaches
<1> QED
  BY <1>6, <1>11

(* The itoa table gives the same bytes as FormatInt, within its range, at  *)
(* its two ends and outside (encoder.go 20-44): an offset that was off by  *)
(* one would cut a length.                                                 *)
THEOREM ItoaIs == \A i \in Int : itoa(i) = FormatInt(i) /\ FormatInt(i) \in Bytes
<1> SUFFICES ASSUME NEW i \in Int PROVE itoa(i) = FormatInt(i)
  BY Formatted
<1>1. minItoa \in Int /\ maxItoa \in Int /\ minItoa <= maxItoa
  BY CodecAssumption DEF CodecAssumption
<1>2. CASE i \notin minItoa..maxItoa
  BY <1>2 DEF itoa
<1>3. CASE i \in minItoa..maxItoa
  <2> DEFINE k == i - minItoa
             n == maxItoa - minItoa + 1
             a == Table[k]
             c == Table[k + 1]
             s == Table[n]
             x == FormatInt(i)
  <2>1. k \in Nat /\ k + 1 \in Nat /\ n \in Nat /\ k \in 0..n /\ k + 1 \in 0..n /\ k + 1 > 0
        /\ k + 1 - 1 = k /\ k + minItoa = i
    BY <1>1, <1>3
  <2>2. itoa(i) = SubSeq(s, Len(a) + 1, Len(c))
    BY <1>3 DEF itoa, itoaBuffer, itoaOffset
  <2> HIDE DEF k, n
  <2>3. c = a \o x
    <3> DEFINE m == k + 1
    <3>1. m \in Nat /\ m > 0 /\ m - 1 = k /\ m - 1 + minItoa = i
      BY <1>1, <2>1
    <3> HIDE DEF m
    <3>2. Table[m] = Table[m - 1] \o FormatInt(m - 1 + minItoa)
      BY <3>1, TableIs
    <3> QED
      BY <3>1, <3>2 DEF m
  <2>4. Tabled(k, a) /\ Tabled(n, s)
    BY <2>1, TableIs
  <2>5. a \in Bytes /\ s \in Bytes /\ Len(c) \in 0..Len(s) /\ Take(s, Len(c)) = c
    BY <2>1, <2>4 DEF Tabled
  <2>6. x \in Bytes
    BY Formatted
  <2> HIDE DEF a, c, s, x
  <2>7. Len(c) = Len(a) + Len(x) /\ Len(a) \in Nat /\ Len(x) \in Nat /\ Len(s) \in Nat
    BY <2>3, <2>5, <2>6, Joined, Lens
  <2>8. Drop(c, Len(a)) = x
    BY <2>3, <2>5, <2>6, PartsOfBoth
  <2> DEFINE z == 0
             u == Len(a)
             v == Len(c)
  <2>9. /\ z \in Nat /\ v \in Nat /\ z <= v /\ v <= Len(s) /\ u \in 0..v - z
        /\ z + 1 = 1 /\ z + u + 1 = u + 1
    BY <2>5, <2>7
  <2> HIDE DEF z, u, v
  <2>10. Drop(SubSeq(s, z + 1, v), u) = SubSeq(s, z + u + 1, v)
    BY <2>5, <2>9, PartsOfPiece
  <2> QED
    BY <2>2, <2>5, <2>8, <2>9, <2>10 DEF Take, u, v, x
<1> QED
  BY <1>2, <1>3

-----------------------------------------------------------------------------
(* The decoder: numbers, bulks and nodes.                                  *)

(* What IntAt says of a stream.                                            *)
LEMMA IntTyped ==
    ASSUME NEW s \in Bytes
    PROVE  LET p == IntAt(s)
           IN  /\ p.ok \in BOOLEAN /\ p.nil = FALSE
               /\ (p.ok <=> /\ LineEnd(s) \in 2..ReaderSize /\ s[LineEnd(s) - 1] = "CR"
                            /\ Btoi64(Take(s, LineEnd(s) - 2)).ok)
               /\ p.ok => /\ p.v = Btoi64(Take(s, LineEnd(s) - 2)).v /\ p.v \in Int
                          /\ p.rest = Drop(s, LineEnd(s))
                          /\ p.rest \in Bytes /\ Len(p.rest) < Len(s)
<1> DEFINE e == LineEnd(s)
           t == TextAt(s)
           p == IntAt(s)
<1>1. e \in Nat /\ ReaderSize \in Nat
  BY LineEndFound, Lens, BufioAssumption DEF BufioAssumption
<1>2. /\ t.ok \in BOOLEAN /\ t.nil = FALSE
      /\ (t.ok <=> e > 1 /\ s[e - 1] = "CR")
      /\ t.ok => /\ t.v = Take(s, e - 2) /\ t.rest = Drop(s, e)
                 /\ t.v \in Bytes /\ t.rest \in Bytes /\ Len(t.rest) < Len(s)
  BY TextTyped
<1>3. t = [ok |-> t.ok, nil |-> t.nil, v |-> t.v, rest |-> t.rest]
  BY DEF TextAt, LineAt, None
<1>4. p = IF e > ReaderSize THEN None ELSE NumberOf(t)
  BY DEF IntAt
<1> HIDE DEF e, t, p
<1>5. CASE e > ReaderSize \/ ~ t.ok \/ ~ Btoi64(t.v).ok
  <2>1. p = None
    BY <1>4, <1>5 DEF NumberOf
  <2> QED
    BY <1>1, <1>2, <1>5, <2>1 DEF None, e, p
<1>6. CASE ~ (e > ReaderSize) /\ t.ok /\ Btoi64(t.v).ok
  <2>1. p = [t EXCEPT !.v = Btoi64(t.v).v]
    BY <1>4, <1>6 DEF NumberOf
  <2>2. p.ok = TRUE /\ p.nil = FALSE /\ p.v = Btoi64(t.v).v /\ p.rest = t.rest
    BY <1>2, <1>3, <1>6, <2>1
  <2>3. Btoi64(t.v).v \in Int
    BY <1>2, <1>6, NumberTyped
  <2>4. e \in 2..ReaderSize
    BY <1>1, <1>2, <1>6
  <2> QED
    BY <1>2, <1>6, <2>2, <2>3, <2>4 DEF e, p
<1> QED
  BY <1>5, <1>6

(* decodeInt returns the number in the first line of the stream.           *)
LEMMA IntDecodes ==
    ASSUME NEW b \in Reader
    PROVE  LET r == decodeInt(b)
               p == IntAt(Stream(b))
           IN  Decodes(b, r, p) /\ (r.ok => r.v = p.v)
<1> DEFINE q == ReadSlice[b]
           d == Ended(q)
           r == decodeInt(b)
           s == Stream(b)
           e == LineEnd(s)
           p == IntAt(s)
<1>1. s \in Bytes /\ Len(s) \in Nat /\ e \in 0..Len(s) /\ b.err \in BOOLEAN /\ ReaderSize \in Nat
  BY ReaderTyped, Lens, LineEndFound
<1>2. Sliced(b, q)
  BY ReadSliceSlices
<1>3. /\ q.b \in Reader /\ SameMemory(b, q.b)
      /\ q.ok \in BOOLEAN /\ (q.ok <=> ~ b.err /\ e \in 1..ReaderSize)
      /\ q.ok =>
            /\ ~ q.b.err /\ q.v \in Slices /\ q.v.of = "buf" /\ q.v.len = e
            /\ q.v.at + q.v.len <= ReaderSize
            /\ BytesOf(q.b, q.v) = Take(s, e)
            /\ Stream(q.b) = Drop(s, e)
  BY <1>2 DEF Sliced
<1>4. /\ p.ok \in BOOLEAN /\ p.nil = FALSE
      /\ (p.ok <=> /\ e \in 2..ReaderSize /\ s[e - 1] = "CR"
                   /\ Btoi64(Take(s, e - 2)).ok)
      /\ p.ok => p.v = Btoi64(Take(s, e - 2)).v /\ p.rest = Drop(s, e)
  BY <1>1, IntTyped
<1>5. r = ParseInt(d)
  BY DEF decodeInt
<1>6. Keeps(b, q.b)
  BY <1>3, KeptIsKept
<1> HIDE DEF q, r, s, e, p
<1>7. CASE ~ q.ok
  <2>1. d = Fail(q.b)
    BY <1>7 DEF Ended
  <2>2. r.b = q.b /\ r.ok = FALSE
    BY <1>5, <2>1 DEF ParseInt, AsInt, Fail
  <2>3. ~ (~ b.err /\ p.ok)
    BY <1>1, <1>3, <1>4, <1>7
  <2> QED
    BY <1>3, <1>4, <1>6, <2>2, <2>3 DEF Decodes, r, p, s
<1>8. CASE q.ok
  <2> DEFINE c == q.b
             u == q.v
  <2>1. c \in Reader /\ u \in Slices /\ u.at + u.len <= IF u.of = "mem" THEN Len(c.mem) ELSE ReaderSize
    BY <1>3, <1>8
  <2>2. q.b = c /\ q.v = u
    OBVIOUS
  <2>3. /\ u.len = e /\ BytesOf(c, u) = Take(s, e) /\ ~ c.err /\ Stream(c) = Drop(s, e)
        /\ e \in 1..ReaderSize /\ Keeps(b, c) /\ ~ b.err
    BY <1>3, <1>6, <1>8
  <2> HIDE DEF c, u
  <2>4. /\ d.b = c /\ d.ok \in BOOLEAN
        /\ d.ok <=> u.len > 1 /\ BytesOf(c, u)[u.len - 1] = "CR"
        /\ d.ok => BytesOf(c, d.v) = Take(BytesOf(c, u), u.len - 2)
    BY <1>8, <2>1, <2>2, EndedIs
  <2> HIDE DEF d
  <2>6. e > 1 => Take(s, e)[e - 1] = s[e - 1]
    BY <1>1, Parts
  <2>7. e > 1 => Take(Take(s, e), e - 2) = Take(s, e - 2)
    <3> SUFFICES ASSUME e > 1 PROVE Take(Take(s, e), e - 2) = Take(s, e - 2)
      OBVIOUS
    <3> DEFINE m == e - 2
    <3>1. m \in Nat /\ 2 \in Nat /\ m + 2 <= Len(s) /\ m + 2 = e
      BY <1>1
    <3> HIDE DEF m
    <3>2. Take(Take(s, m + 2), m) = Take(s, m)
      BY <1>1, <3>1, PartsOfParts
    <3> QED
      BY <3>1, <3>2 DEF m
  <2>8. d.ok <=> e \in 2..ReaderSize /\ s[e - 1] = "CR"
    BY <1>1, <2>3, <2>4, <2>6
  <2>9. d.ok => BytesOf(d.b, d.v) = Take(s, e - 2)
    BY <2>3, <2>4, <2>7, <2>8
  <2> DEFINE n == Btoi64(BytesOf(d.b, d.v))
  <2>10. r = IF d.ok /\ n.ok THEN Ok(d.b, n.v) ELSE Fail(d.b)
    BY <1>5 DEF ParseInt, AsInt
  <2>11. d.ok => n = Btoi64(Take(s, e - 2))
    BY <2>9
  <2> HIDE DEF n
  <2>12. CASE d.ok /\ n.ok
    <3>1. r.b = c /\ r.ok = TRUE /\ r.v = n.v /\ r.nil = FALSE
      BY <2>4, <2>10, <2>12 DEF Ok
    <3>2. p.ok /\ p.v = n.v /\ p.rest = Drop(s, e)
      BY <1>4, <2>8, <2>11, <2>12
    <3> QED
      BY <1>4, <2>1, <2>3, <3>1, <3>2 DEF Decodes, r, p, s
  <2>13. CASE ~ (d.ok /\ n.ok)
    <3>1. r.b = c /\ r.ok = FALSE
      BY <2>4, <2>10, <2>13 DEF Fail
    <3>2. ~ p.ok
      BY <1>4, <2>8, <2>11, <2>13
    <3> QED
      BY <1>4, <2>1, <2>3, <3>1, <3>2 DEF Decodes, r, p, s
  <2> QED
    BY <2>12, <2>13
<1> QED
  BY <1>3, <1>7, <1>8

Nothing(rest) == [ok |-> TRUE, nil |-> TRUE, v |-> <<>>, rest |-> rest]

ValueAt(s, n) ==
    IF n + 2 <= Len(s) /\ SubSeq(s, n + 1, n + 2) = CRLF
    THEN [ok |-> TRUE, nil |-> FALSE, v |-> Take(s, n), rest |-> Drop(s, n + 2)]
    ELSE None

BulkAt(s) ==
    LET i == IntAt(s)
    IN  IF ~i.ok \/ i.v \notin -1..MaxBulkBytesLen THEN None
        ELSE IF i.v = -1 THEN Nothing(i.rest) ELSE ValueAt(i.rest, i.v)

ArrayAt(s) ==
    LET i == IntAt(s)
    IN  IF ~i.ok \/ i.v \notin -1..MaxArrayLen THEN None
        ELSE IF i.v = -1 THEN Nothing(i.rest) ELSE i

BodyAt(c, s) ==
    IF c \in Text THEN TextAt(s) ELSE IF c = "$" THEN BulkAt(s) ELSE ArrayAt(s)

TypedAt(c, p) ==
    IF ~p.ok THEN None
    ELSE [ok |-> TRUE, nil |-> FALSE, rest |-> p.rest,
          v |-> IF p.nil THEN NilResp(c, <<>>)
                ELSE IF c = "*" THEN Array(p.v, <<>>) ELSE Resp(c, p.v)]

NodeAt(s) ==
    IF s = <<>> \/ s[1] \notin Types THEN None
    ELSE TypedAt(s[1], BodyAt(s[1], Drop(s, 1)))

(* CRLF is two bytes.                                                      *)
LEMMA CRLFTyped == CRLF \in Bytes /\ Len(CRLF) = 2 /\ CRLF[1] = "CR" /\ CRLF[2] = "LF"
<1>1. "CR" \in Byte /\ "LF" \in Byte
  BY CodecAssumption DEF CodecAssumption
<1> QED
  BY <1>1 DEF CRLF, Bytes

(* The limits are numbers.                                                 *)
LEMMA Maxima == MaxBulkBytesLen \in Nat /\ MaxArrayLen \in Nat
BY CodecAssumption DEF CodecAssumption

(* What ValueAt says of a stream.                                          *)
LEMMA ValueTyped ==
    ASSUME NEW s \in Bytes, NEW n \in Nat
    PROVE  LET p == ValueAt(s, n)
           IN  /\ p.ok \in BOOLEAN /\ p.nil = FALSE
               /\ (p.ok <=> n + 2 <= Len(s) /\ SubSeq(s, n + 1, n + 2) = CRLF)
               /\ p.ok => /\ p.v = Take(s, n) /\ p.rest = Drop(s, n + 2)
                          /\ p.v \in Bytes /\ p.rest \in Bytes /\ Len(p.rest) < Len(s)
<1> DEFINE m == n + 2
<1>1. Len(s) \in Nat /\ m \in Nat /\ m > 0
  BY Lens
<1>2. m <= Len(s) => Take(s, n) \in Bytes
  <2> SUFFICES ASSUME m <= Len(s) PROVE Take(s, n) \in Bytes
    OBVIOUS
  <2>1. n \in 0..Len(s)
    BY <1>1
  <2> QED
    BY <2>1, Parts
<1> HIDE DEF m
<1>3. m <= Len(s) => Drop(s, m) \in Bytes /\ Len(Drop(s, m)) = Len(s) - m
  BY <1>1, Parts
<1>4. m <= Len(s) => Len(Drop(s, m)) < Len(s)
  BY <1>1, <1>3
<1> QED
  BY <1>2, <1>3, <1>4 DEF ValueAt, None, m

(* What BulkAt says of a stream.                                           *)
LEMMA BulkTyped ==
    ASSUME NEW s \in Bytes
    PROVE  LET p == BulkAt(s)
           IN  /\ p.ok \in BOOLEAN /\ p.nil \in BOOLEAN
               /\ p.ok => p.rest \in Bytes /\ Len(p.rest) < Len(s) /\ p.v \in Bytes
<1> DEFINE i == IntAt(s)
           p == BulkAt(s)
<1>1. /\ i.ok \in BOOLEAN /\ i.nil = FALSE
      /\ i.ok => i.v \in Int /\ i.rest \in Bytes /\ Len(i.rest) < Len(s)
  BY IntTyped
<1>2. p = IF ~i.ok \/ i.v \notin -1..MaxBulkBytesLen THEN None
        ELSE IF i.v = -1 THEN Nothing(i.rest) ELSE ValueAt(i.rest, i.v)
  BY DEF BulkAt
<1>3. Len(s) \in Nat
  BY Lens
<1> HIDE DEF i, p
<1>4. CASE ~i.ok \/ i.v \notin -1..MaxBulkBytesLen
  <2>1. p.ok = FALSE /\ p.nil = FALSE
    BY <1>2, <1>4 DEF None
  <2> QED
    BY <2>1 DEF p
<1>5. CASE i.ok /\ i.v = -1
  <2>1. p = Nothing(i.rest)
    BY <1>2, <1>5, Maxima
  <2>2. <<>> \in Bytes
    BY EmptySeq DEF Bytes
  <2>3. p.ok = TRUE /\ p.nil = TRUE /\ p.rest = i.rest /\ p.v = <<>>
    BY <2>1 DEF Nothing
  <2> QED
    BY <1>1, <1>5, <2>2, <2>3 DEF p
<1>6. CASE i.ok /\ i.v \in 0..MaxBulkBytesLen
  <2> DEFINE q == ValueAt(i.rest, i.v)
  <2>1. p = q
    BY <1>2, <1>6
  <2>2. i.v \in Nat /\ i.rest \in Bytes /\ Len(i.rest) < Len(s)
    BY <1>1, <1>6
  <2>3. /\ q.ok \in BOOLEAN /\ q.nil = FALSE
        /\ q.ok => q.v \in Bytes /\ q.rest \in Bytes /\ Len(q.rest) < Len(i.rest)
    BY <2>2, ValueTyped
  <2> HIDE DEF q
  <2>4. Len(i.rest) \in Nat /\ (q.ok => Len(q.rest) \in Nat)
    BY <2>2, <2>3, Lens
  <2>5. q.ok => Len(q.rest) < Len(s)
    BY <1>3, <2>2, <2>3, <2>4
  <2> QED
    BY <2>1, <2>3, <2>5 DEF p
<1> QED
  BY <1>1, <1>4, <1>5, <1>6, Maxima

(* What ArrayAt says of a stream.                                          *)
LEMMA ArrayTyped ==
    ASSUME NEW s \in Bytes
    PROVE  LET p == ArrayAt(s)
           IN  /\ p.ok \in BOOLEAN /\ p.nil \in BOOLEAN
               /\ p.ok => /\ p.rest \in Bytes /\ Len(p.rest) < Len(s)
                          /\ ~ p.nil => p.v \in Nat
<1> DEFINE i == IntAt(s)
           p == ArrayAt(s)
<1>1. /\ i.ok \in BOOLEAN /\ i.nil = FALSE
      /\ i.ok => i.v \in Int /\ i.rest \in Bytes /\ Len(i.rest) < Len(s)
  BY IntTyped
<1>2. p = IF ~i.ok \/ i.v \notin -1..MaxArrayLen THEN None
        ELSE IF i.v = -1 THEN Nothing(i.rest) ELSE i
  BY DEF ArrayAt
<1> HIDE DEF i, p
<1>4. CASE ~i.ok \/ i.v \notin -1..MaxArrayLen
  <2>1. p.ok = FALSE /\ p.nil = FALSE
    BY <1>2, <1>4 DEF None
  <2> QED
    BY <2>1 DEF p
<1>5. CASE i.ok /\ i.v = -1
  <2>1. p = Nothing(i.rest)
    BY <1>2, <1>5, Maxima
  <2>3. p.ok = TRUE /\ p.nil = TRUE /\ p.rest = i.rest
    BY <2>1 DEF Nothing
  <2> QED
    BY <1>1, <1>5, <2>3 DEF p
<1>6. CASE i.ok /\ i.v \in 0..MaxArrayLen
  <2>1. p = i
    BY <1>2, <1>6
  <2>2. i.v \in Nat
    BY <1>6
  <2> QED
    BY <1>1, <1>6, <2>1, <2>2 DEF p
<1> QED
  BY <1>1, <1>4, <1>5, <1>6, Maxima

(* What BodyAt says of a stream: what follows a type.                      *)
LEMMA BodyTyped ==
    ASSUME NEW s \in Bytes, NEW c \in Types
    PROVE  LET p == BodyAt(c, s)
           IN  /\ p.ok \in BOOLEAN /\ p.nil \in BOOLEAN
               /\ p.ok => /\ p.rest \in Bytes /\ Len(p.rest) < Len(s)
                          /\ c = "*" /\ ~ p.nil => p.v \in Nat
                          /\ c # "*" => p.v \in Bytes
<1>0. c \in Text \/ c = "$" \/ c = "*"
  BY DEF Types
<1>1. CASE c \in Text
  <2>1. BodyAt(c, s) = TextAt(s) /\ c # "*"
    BY <1>1 DEF BodyAt, Text
  <2> QED
    BY <2>1, TextTyped
<1>2. CASE c = "$"
  <2>1. BodyAt(c, s) = BulkAt(s) /\ c # "*"
    BY <1>2 DEF BodyAt, Text
  <2> QED
    BY <2>1, BulkTyped
<1>3. CASE c = "*"
  <2>1. BodyAt(c, s) = ArrayAt(s)
    BY <1>3 DEF BodyAt, Text
  <2> QED
    BY <1>3, <2>1, ArrayTyped
<1> QED
  BY <1>0, <1>1, <1>2, <1>3

(* What NodeAt says of a stream is a node and a shorter stream.            *)
LEMMA NodeTyped ==
    ASSUME NEW s \in Bytes
    PROVE  LET p == NodeAt(s)
           IN  /\ p.ok \in BOOLEAN
               /\ p.ok => /\ p.rest \in Bytes /\ Len(p.rest) < Len(s)
                          /\ p.v \in Nodes(Bytes) /\ p.nil = FALSE
<1> DEFINE c == s[1]
           t == Drop(s, 1)
           q == BodyAt(c, t)
           p == NodeAt(s)
<1>1. CASE s = <<>> \/ c \notin Types
  BY <1>1 DEF NodeAt, None
<1>2. CASE s # <<>> /\ c \in Types
  <2>1. p = TypedAt(c, q)
    BY <1>2 DEF NodeAt
  <2>2. Len(s) \in Nat /\ 1 \in 0..Len(s)
    BY <1>2, Lens
  <2>3. t \in Bytes /\ Len(t) = Len(s) - 1
    BY <2>2, Parts
  <2> HIDE DEF c, t
  <2>4. /\ q.ok \in BOOLEAN /\ q.nil \in BOOLEAN
        /\ q.ok => /\ q.rest \in Bytes /\ Len(q.rest) < Len(t)
                   /\ c = "*" /\ ~ q.nil => q.v \in Nat
                   /\ c # "*" => q.v \in Bytes
    BY <1>2, <2>3, BodyTyped
  <2> HIDE DEF q, p
  <2>5. q.ok => Len(q.rest) \in Nat /\ Len(q.rest) < Len(s)
    BY <2>2, <2>3, <2>4, Lens
  <2>6. <<>> \in Bytes
    BY EmptySeq DEF Bytes
  <2>7. CASE q.ok
    <3>1. /\ p.ok = TRUE /\ p.nil = FALSE /\ p.rest = q.rest
          /\ p.v = IF q.nil THEN NilResp(c, <<>>)
                   ELSE IF c = "*" THEN Array(q.v, <<>>) ELSE Resp(c, q.v)
      BY <2>1, <2>7 DEF TypedAt
    <3>2. p.v \in Nodes(Bytes)
      <4> DEFINE e == <<>>
      <4>1. e \in Bytes
        BY <2>6
      <4>2. p.v = IF q.nil THEN NilResp(c, e)
                   ELSE IF c = "*" THEN Array(q.v, e) ELSE Resp(c, q.v)
        BY <3>1
      <4> HIDE DEF e
      <4>3. CASE q.nil
        BY <1>2, <4>1, <4>2, <4>3 DEF Nodes, NilResp
      <4>4. CASE ~ q.nil /\ c = "*"
        BY <1>2, <2>4, <2>7, <4>1, <4>2, <4>4 DEF Nodes, Array
      <4>5. CASE ~ q.nil /\ c # "*"
        BY <1>2, <2>4, <2>7, <4>1, <4>2, <4>5 DEF Nodes, Resp
      <4> QED
        BY <2>4, <4>3, <4>4, <4>5
    <3> QED
      BY <2>4, <2>5, <2>7, <3>1, <3>2 DEF p
  <2>8. CASE ~ q.ok
    BY <2>1, <2>8 DEF TypedAt, None, p
  <2> QED
    BY <2>4, <2>7, <2>8
<1> QED
  BY <1>1, <1>2

(* What a value of a node is, when somebody looks.                         *)
Look(b, node) == [node EXCEPT !.value = BytesOf(b, @)]

(* The empty slice is always in use.                                       *)
LEMMA NoSliceIsUsed ==
    ASSUME NEW b \in Reader
    PROVE  NoSlice \in Slices /\ Used(b, NoSlice) /\ BytesOf(b, NoSlice) = <<>>
<1>1. b.mem \in Bytes /\ Len(b.mem) \in Nat /\ b.next \in Nat
  BY ReaderTyped
<1>2. NoSlice \in Slices /\ NoSlice.of = "mem" /\ NoSlice.at = 0 /\ NoSlice.len = 0
  BY DEF NoSlice, Slices, Slice
<1>3. Used(b, NoSlice)
  BY <1>1, <1>2 DEF Used
<1>4. BytesOf(b, NoSlice) = Take(b.mem, 0)
  BY <1>2 DEF BytesOf, Take
<1>5. Take(b.mem, 0) = <<>>
  BY <1>1, PartsOfNone
<1> QED
  BY <1>2, <1>3, <1>4, <1>5

(* The value of a bulk is the next n bytes, when CRLF follows.             *)
LEMMA ValueDecodes ==
    ASSUME NEW b \in Reader, ~ b.err, NEW n \in Nat
    PROVE  LET r == Value(ReadFull(b, n + 2), n)
               p == ValueAt(Stream(b), n)
           IN  Decodes(b, r, p) /\ (r.ok => Used(r.b, r.v) /\ BytesOf(r.b, r.v) = p.v)
<1> DEFINE m == n + 2
           q == ReadFull(b, m)
           r == Value(q, n)
           s == Stream(b)
           p == ValueAt(s, n)
<1>1. s \in Bytes /\ Len(s) \in Nat /\ m \in Nat /\ n <= m /\ n + 1 <= m
  BY ReaderTyped, Lens
<1>2. /\ p.ok \in BOOLEAN /\ p.nil = FALSE
      /\ (p.ok <=> m <= Len(s) /\ SubSeq(s, n + 1, m) = CRLF)
      /\ p.ok => p.v = Take(s, n) /\ p.rest = Drop(s, m)
  BY <1>1, ValueTyped
<1> HIDE DEF m, p, s
<1>3. /\ q.b \in Reader /\ Keeps(b, q.b) /\ q.ok \in BOOLEAN
      /\ (q.ok <=> m <= Len(s))
      /\ q.ok => /\ ~ q.b.err /\ Used(q.b, q.v) /\ q.v.len = m /\ q.nil = FALSE
                 /\ BytesOf(q.b, q.v) = Take(s, m)
                 /\ Stream(q.b) = Drop(s, m)
  BY <1>1, ReadFullReads DEF s
<1> HIDE DEF q
<1>4. r = IF ~q.ok \/ SubSeq(BytesOf(q.b, q.v), n + 1, m) # CRLF THEN Fail(q.b)
          ELSE Ok(q.b, [q.v EXCEPT !.len = n])
  BY DEF Value, m
<1> HIDE DEF r
<1>5. m <= Len(s) => /\ SubSeq(Take(s, m), n + 1, m) = SubSeq(s, n + 1, m)
                     /\ Take(Take(s, m), n) = Take(s, n)
  <2> SUFFICES ASSUME m <= Len(s)
               PROVE  /\ SubSeq(Take(s, m), n + 1, m) = SubSeq(s, n + 1, m)
                      /\ Take(Take(s, m), n) = Take(s, n)
    OBVIOUS
  <2> DEFINE z == 0
             t == Take(s, m)
  <2>1. z \in Nat /\ z <= m /\ n \in 0..m - z /\ z + 1 = 1 /\ z + n + 1 = n + 1 /\ z + n = n
        /\ m \in 0..Len(s)
    BY <1>1
  <2> HIDE DEF z
  <2>2. t \in Bytes /\ Len(t) = m
    BY <1>1, <2>1, Parts
  <2>3. /\ Take(SubSeq(s, z + 1, m), n) = SubSeq(s, z + 1, z + n)
        /\ Drop(SubSeq(s, z + 1, m), n) = SubSeq(s, z + n + 1, m)
    BY <1>1, <2>1, PartsOfPiece
  <2>4. SubSeq(s, z + 1, m) = t /\ SubSeq(s, z + 1, z + n) = Take(s, n)
    BY <2>1 DEF Take
  <2> HIDE DEF t
  <2>5. Drop(t, n) = SubSeq(t, n + 1, m)
    BY <2>2 DEF Drop
  <2> QED
    BY <2>1, <2>3, <2>4, <2>5 DEF t
<1>6. CASE ~ p.ok
  <2>1. ~q.ok \/ SubSeq(BytesOf(q.b, q.v), n + 1, m) # CRLF
    BY <1>2, <1>3, <1>5, <1>6
  <2>2. r.b = q.b /\ r.ok = FALSE
    BY <1>4, <2>1 DEF Fail
  <2> QED
    BY <1>2, <1>3, <1>6, <2>2 DEF Decodes, r, q, m, p, s
<1>7. CASE p.ok
  <2>1. /\ q.ok /\ SubSeq(BytesOf(q.b, q.v), n + 1, m) = CRLF
        /\ Take(Take(s, m), n) = Take(s, n)
    BY <1>2, <1>3, <1>5, <1>7
  <2>2. r = Ok(q.b, [q.v EXCEPT !.len = n])
    BY <1>4, <2>1
  <2> DEFINE c == q.b
             u == q.v
             z == 0
             w == Slice(u.of, u.at + z, n - z)
  <2>3. /\ c \in Reader /\ Keeps(b, c) /\ ~ c.err /\ Used(c, u) /\ u.len = m
        /\ BytesOf(c, u) = Take(s, m) /\ Stream(c) = Drop(s, m)
    BY <1>3, <2>1
  <2>4. r = Ok(c, [u EXCEPT !.len = n])
    BY <2>2
  <2> HIDE DEF c, u
  <2>5. u \in Slices /\ u.at + u.len <= IF u.of = "mem" THEN Len(c.mem) ELSE ReaderSize
    BY <2>3 DEF Used
  <2>6. [u EXCEPT !.len = n] = w /\ z \in Nat /\ z <= n /\ n <= u.len /\ z + 1 = 1
    BY <1>1, <2>3, <2>5 DEF Slices, Slice
  <2> HIDE DEF z
  <2>7. w \in Slices /\ (Used(c, u) => Used(c, w)) /\ BytesOf(c, w) = SubSeq(BytesOf(c, u), z + 1, n)
    BY <2>3, <2>5, <2>6, SliceOfSlice
  <2> HIDE DEF w
  <2>8. r.b = c /\ r.ok = TRUE /\ r.v = w /\ r.nil = FALSE
    BY <2>4, <2>6 DEF Ok
  <2>9. BytesOf(r.b, r.v) = p.v
    BY <1>2, <1>7, <2>1, <2>3, <2>6, <2>7, <2>8 DEF Take
  <2> QED
    BY <1>2, <1>7, <2>3, <2>7, <2>8, <2>9 DEF Decodes, r, q, m, p, s
<1> QED
  BY <1>2, <1>6, <1>7

(* decodeBulkBytes returns the bulk at the beginning of the stream.        *)
LEMMA BulkDecodes ==
    ASSUME NEW b \in Reader
    PROVE  LET r == decodeBulkBytes(b)
               p == BulkAt(Stream(b))
           IN  Decodes(b, r, p) /\ (r.ok /\ ~ r.nil => Used(r.b, r.v) /\ BytesOf(r.b, r.v) = p.v)
<1> DEFINE i == decodeInt(b)
           a == IntAt(Stream(b))
           r == decodeBulkBytes(b)
           p == BulkAt(Stream(b))
<1>1. Stream(b) \in Bytes /\ b.err \in BOOLEAN
  BY ReaderTyped
<1>2. Decodes(b, i, a) /\ (i.ok => i.v = a.v)
  BY IntDecodes
<1>3. /\ a.ok \in BOOLEAN /\ (a.ok => a.v \in Int)
  BY <1>1, IntTyped
<1>4. p = IF ~a.ok \/ a.v \notin -1..MaxBulkBytesLen THEN None
          ELSE IF a.v = -1 THEN Nothing(a.rest) ELSE ValueAt(a.rest, a.v)
  BY DEF BulkAt
<1>5. r = BulkOf(i)
  BY DEF decodeBulkBytes
<1> HIDE DEF i, a, r, p
<1>6. /\ i.b \in Reader /\ Keeps(b, i.b) /\ i.ok \in BOOLEAN /\ (i.ok <=> ~ b.err /\ a.ok)
      /\ i.ok => ~ i.b.err /\ Stream(i.b) = a.rest
  BY <1>2 DEF Decodes
<1>7. CASE ~ i.ok
  <2>1. r.b = i.b /\ r.ok = FALSE
    BY <1>5, <1>6, <1>7 DEF BulkOf
  <2>2. p.ok \in BOOLEAN
    BY <1>1, BulkTyped DEF p
  <2>3. ~ (~ b.err /\ p.ok)
    <3>1. b.err \/ ~ a.ok
      BY <1>6, <1>7
    <3>2. ~ a.ok => p.ok = FALSE
      BY <1>4 DEF None
    <3> QED
      BY <3>1, <3>2
  <2> QED
    BY <1>6, <2>1, <2>2, <2>3 DEF Decodes, r, p
<1>8. CASE i.ok /\ i.v \notin -1..MaxBulkBytesLen
  <2>1. r = Fail(i.b) /\ p = None
    <3>1. i.v # -1
      BY <1>8, Maxima
    <3> QED
      BY <1>2, <1>4, <1>5, <1>8, <3>1 DEF BulkOf
  <2>2. r.b = i.b /\ r.ok = FALSE /\ p.ok = FALSE
    BY <2>1 DEF Fail, None
  <2> QED
    BY <1>6, <2>2 DEF Decodes, r, p
<1>9. CASE i.ok /\ i.v = -1
  <2>1. r = OkNil(i.b) /\ p = Nothing(a.rest)
    BY <1>2, <1>3, <1>4, <1>5, <1>6, <1>9, Maxima DEF BulkOf
  <2>2. r.b = i.b /\ r.ok = TRUE /\ r.nil = TRUE /\ p.ok = TRUE /\ p.nil = TRUE /\ p.rest = a.rest
    BY <2>1 DEF OkNil, Nothing
  <2> QED
    BY <1>6, <1>9, <2>2 DEF Decodes, r, p
<1>10. CASE i.ok /\ i.v \in 0..MaxBulkBytesLen
  <2> DEFINE c == i.b
             n == i.v
             q == Value(ReadFull(c, n + 2), n)
             d == ValueAt(Stream(c), n)
  <2>1. c \in Reader /\ ~ c.err /\ n \in Nat /\ Stream(c) = a.rest /\ n = a.v /\ Keeps(b, c)
    BY <1>2, <1>6, <1>10
  <2>2. r = q
    <3>1. i.v # -1 /\ i.v \in -1..MaxBulkBytesLen
      BY <1>10, Maxima
    <3> QED
      BY <1>5, <1>10, <3>1 DEF BulkOf
  <2>3. p = ValueAt(a.rest, a.v)
    BY <1>2, <1>4, <1>6, <1>10, Maxima
  <2>4. p = d
    BY <2>1, <2>3
  <2> HIDE DEF c, n
  <2>5. Decodes(c, q, d) /\ (q.ok => Used(q.b, q.v) /\ BytesOf(q.b, q.v) = d.v)
    BY <2>1, ValueDecodes
  <2> HIDE DEF q, d
  <2>6. /\ r.b \in Reader /\ Keeps(c, r.b) /\ r.ok \in BOOLEAN /\ p.ok \in BOOLEAN
        /\ (r.ok <=> p.ok) /\ (r.ok => ~ r.b.err /\ Stream(r.b) = p.rest /\ r.nil = p.nil)
    BY <2>1, <2>2, <2>4, <2>5 DEF Decodes
  <2>7. Keeps(b, r.b)
    BY <2>1, <2>6, KeptIsKept
  <2> QED
    BY <1>6, <1>10, <2>2, <2>4, <2>5, <2>6, <2>7 DEF Decodes, r, p
<1> QED
  BY <1>6, <1>7, <1>8, <1>9, <1>10, Maxima

(* decodeArray returns the array's size at the beginning of the stream.    *)
LEMMA ArrayDecodes ==
    ASSUME NEW b \in Reader
    PROVE  LET r == decodeArray(b)
               p == ArrayAt(Stream(b))
           IN  Decodes(b, r, p) /\ (r.ok /\ ~ r.nil => r.v = p.v)
<1> DEFINE i == decodeInt(b)
           a == IntAt(Stream(b))
           r == decodeArray(b)
           p == ArrayAt(Stream(b))
<1>1. Stream(b) \in Bytes /\ b.err \in BOOLEAN
  BY ReaderTyped
<1>2. Decodes(b, i, a) /\ (i.ok => i.v = a.v)
  BY IntDecodes
<1>3. /\ a.ok \in BOOLEAN /\ (a.ok => a.v \in Int) /\ a.nil = FALSE
  BY <1>1, IntTyped
<1>4. p = IF ~a.ok \/ a.v \notin -1..MaxArrayLen THEN None
          ELSE IF a.v = -1 THEN Nothing(a.rest) ELSE a
  BY DEF ArrayAt
<1>5. r = ArrayOf(i)
  BY DEF decodeArray
<1> HIDE DEF i, a, r, p
<1>6. /\ i.b \in Reader /\ Keeps(b, i.b) /\ i.ok \in BOOLEAN /\ (i.ok <=> ~ b.err /\ a.ok)
      /\ i.ok => ~ i.b.err /\ Stream(i.b) = a.rest /\ i.nil = a.nil
  BY <1>2 DEF Decodes
<1>7. CASE ~ i.ok
  <2>1. r.b = i.b /\ r.ok = FALSE
    BY <1>5, <1>6, <1>7 DEF ArrayOf
  <2>2. p.ok \in BOOLEAN
    BY <1>1, ArrayTyped DEF p
  <2>3. ~ (~ b.err /\ p.ok)
    <3>1. b.err \/ ~ a.ok
      BY <1>6, <1>7
    <3>2. ~ a.ok => p.ok = FALSE
      BY <1>4 DEF None
    <3> QED
      BY <3>1, <3>2
  <2> QED
    BY <1>6, <2>1, <2>2, <2>3 DEF Decodes, r, p
<1>8. CASE i.ok /\ i.v \notin -1..MaxArrayLen
  <2>1. r = Fail(i.b) /\ p = None
    <3>1. i.v # -1
      BY <1>8, Maxima
    <3> QED
      BY <1>2, <1>4, <1>5, <1>8, <3>1 DEF ArrayOf
  <2>2. r.b = i.b /\ r.ok = FALSE /\ p.ok = FALSE
    BY <2>1 DEF Fail, None
  <2> QED
    BY <1>6, <2>2 DEF Decodes, r, p
<1>9. CASE i.ok /\ i.v = -1
  <2>1. r = OkNil(i.b) /\ p = Nothing(a.rest)
    BY <1>2, <1>3, <1>4, <1>5, <1>6, <1>9, Maxima DEF ArrayOf
  <2>2. r.b = i.b /\ r.ok = TRUE /\ r.nil = TRUE /\ p.ok = TRUE /\ p.nil = TRUE /\ p.rest = a.rest
    BY <2>1 DEF OkNil, Nothing
  <2> QED
    BY <1>6, <1>9, <2>2 DEF Decodes, r, p
<1>10. CASE i.ok /\ i.v \in 0..MaxArrayLen
  <2>1. i.v # -1 /\ i.v \in -1..MaxArrayLen
    BY <1>10, Maxima
  <2>2. r = i
    BY <1>5, <1>10, <2>1 DEF ArrayOf
  <2>3. p = a
    BY <1>2, <1>4, <1>6, <1>10, <2>1
  <2> QED
    BY <1>2, <1>10, <2>2, <2>3 DEF r, p
<1> QED
  BY <1>6, <1>7, <1>8, <1>9, <1>10, Maxima

(* What follows the type of a node.                                        *)
Body(c, b) ==
    IF c \in Text THEN decodeTextBytes(b)
    ELSE IF c = "$" THEN decodeBulkBytes(b) ELSE decodeArray(b)

(* What follows a type is decoded of the stream.                           *)
LEMMA BodyDecodes ==
    ASSUME NEW b \in Reader, NEW c \in Types
    PROVE  LET r == Body(c, b)
               p == BodyAt(c, Stream(b))
           IN  /\ Decodes(b, r, p)
               /\ r.ok /\ ~ r.nil =>
                     IF c = "*" THEN r.v = p.v ELSE Used(r.b, r.v) /\ BytesOf(r.b, r.v) = p.v
<1>0. c \in Text \/ c = "$" \/ c = "*"
  BY DEF Types
<1>1. CASE c \in Text
  <2>1. BodyAt(c, Stream(b)) = TextAt(Stream(b)) /\ Body(c, b) = decodeTextBytes(b) /\ c # "*"
    BY <1>1 DEF BodyAt, Body, Text
  <2> QED
    BY <2>1, TextDecodes
<1>2. CASE c = "$"
  <2>1. BodyAt(c, Stream(b)) = BulkAt(Stream(b)) /\ Body(c, b) = decodeBulkBytes(b) /\ c # "*"
    BY <1>2 DEF BodyAt, Body, Text
  <2> QED
    BY <2>1, BulkDecodes
<1>3. CASE c = "*"
  <2>1. BodyAt(c, Stream(b)) = ArrayAt(Stream(b)) /\ Body(c, b) = decodeArray(b)
    BY <1>3 DEF BodyAt, Body, Text
  <2> QED
    BY <1>3, <2>1, ArrayDecodes
<1> QED
  BY <1>0, <1>1, <1>2, <1>3

(* A node of a slice in use looks as the bytes in it.                      *)
LEMMA NodeLooks ==
    ASSUME NEW b, NEW c \in Types, NEW nil \in BOOLEAN, NEW s \in Slices, NEW n \in Nat,
           NEW bytes, Used(b, s), BytesOf(b, s) = bytes,
           NEW v, v = [type |-> c, nil |-> nil, value |-> s, size |-> n]
    PROVE  /\ v \in Nodes(Slices) /\ Used(b, v.value)
           /\ Look(b, v) = [type |-> c, nil |-> nil, value |-> bytes, size |-> n]
<1>1. v.value = s /\ v \in Nodes(Slices)
  BY DEF Nodes
<1>2. Look(b, v) = [v EXCEPT !.value = bytes]
  BY <1>1 DEF Look
<1>3. [v EXCEPT !.value = bytes] = [type |-> c, nil |-> nil, value |-> bytes, size |-> n]
  OBVIOUS
<1> QED
  BY <1>1, <1>2, <1>3

(* A node is what the stream begins with (decoder.go 118-196).             *)
LEMMA NodeDecodes ==
    ASSUME NEW b \in Reader
    PROVE  LET r == decodeNode(b)
               p == NodeAt(Stream(b))
           IN  /\ Decodes(b, r, p)
               /\ r.ok => /\ r.v \in Nodes(Slices) /\ Used(r.b, r.v.value)
                          /\ Look(r.b, r.v) = p.v
<1> DEFINE s == Stream(b)
           t == ReadByte(b)
           r == decodeNode(b)
           p == NodeAt(s)
<1>1. s \in Bytes /\ b.err \in BOOLEAN
  BY ReaderTyped
<1>2. /\ t.b \in Reader /\ SameMemory(b, t.b)
      /\ t.ok \in BOOLEAN /\ (t.ok <=> ~ b.err /\ s # <<>>)
      /\ t.ok => ~ t.b.err /\ t.v = s[1] /\ Stream(t.b) = Drop(s, 1)
  BY ReadByteReads
<1>3. r = ByType(t)
  BY DEF decodeNode
<1>4. p.ok \in BOOLEAN /\ (p.ok => p.nil = FALSE)
  BY <1>1, NodeTyped
<1>5. p = IF s = <<>> \/ s[1] \notin Types THEN None
          ELSE TypedAt(s[1], BodyAt(s[1], Drop(s, 1)))
  BY DEF NodeAt
<1>6. Keeps(b, t.b)
  BY <1>2, KeptIsKept
<1> HIDE DEF s, t, r, p
<1>7. CASE ~ t.ok
  <2>1. r.b = t.b /\ r.ok = FALSE
    BY <1>3, <1>7 DEF ByType, Fail
  <2>2. ~ (~ b.err /\ p.ok)
    <3>1. s = <<>> => p.ok = FALSE
      BY <1>5 DEF None
    <3> QED
      BY <1>1, <1>2, <1>7, <3>1
  <2> QED
    BY <1>2, <1>4, <1>6, <2>1, <2>2 DEF Decodes, r, p, s
<1>8. CASE t.ok /\ t.v \notin Types
  <2>1. r.b = t.b /\ r.ok = FALSE
    BY <1>3, <1>8 DEF ByType, Fail, Types
  <2>2. p.ok = FALSE
    BY <1>2, <1>5, <1>8 DEF None
  <2> QED
    BY <1>2, <1>4, <1>6, <2>1, <2>2 DEF Decodes, r, p, s
<1>9. CASE t.ok /\ t.v \in Types
  <2> DEFINE c == t.v
             d == t.b
             q == Body(c, d)
             a == BodyAt(c, Stream(d))
  <2>1. /\ d \in Reader /\ ~ d.err /\ Stream(d) = Drop(s, 1) /\ c = s[1] /\ c \in Types
        /\ Keeps(b, d) /\ ~ b.err /\ s # <<>>
    BY <1>2, <1>6, <1>9
  <2>2. r = Typed(q, c)
    <3>1. c \in Text \/ c = "$" \/ c = "*"
      BY <2>1 DEF Types
    <3>2. "$" \notin Text /\ "*" \notin Text /\ "$" # "*"
      BY DEF Text
    <3> QED
      BY <1>3, <1>9, <3>1, <3>2 DEF ByType, Body
  <2>3. p = TypedAt(c, a)
    BY <1>5, <2>1
  <2> HIDE DEF c, d
  <2>4. /\ Decodes(d, q, a)
        /\ q.ok /\ ~ q.nil =>
              IF c = "*" THEN q.v = a.v ELSE Used(q.b, q.v) /\ BytesOf(q.b, q.v) = a.v
    BY <2>1, BodyDecodes
  <2>5. /\ a.ok \in BOOLEAN /\ a.nil \in BOOLEAN
        /\ a.ok /\ c = "*" /\ ~ a.nil => a.v \in Nat
    BY <2>1, ReaderTyped, BodyTyped
  <2> HIDE DEF q, a
  <2>6. /\ q.b \in Reader /\ Keeps(d, q.b) /\ q.ok \in BOOLEAN /\ (q.ok <=> a.ok)
        /\ q.ok => ~ q.b.err /\ Stream(q.b) = a.rest /\ q.nil = a.nil
    BY <2>1, <2>4 DEF Decodes
  <2>7. Keeps(b, q.b)
    BY <2>1, <2>6, KeptIsKept
  <2>8. CASE ~ q.ok
    <3>1. r.b = q.b /\ r.ok = FALSE
      BY <2>2, <2>8 DEF Typed, Fail
    <3>2. p.ok = FALSE
      BY <2>3, <2>6, <2>8 DEF TypedAt, None
    <3> QED
      BY <2>6, <2>7, <3>1, <3>2 DEF Decodes, r, p, s
  <2>9. CASE q.ok
    <3> DEFINE none == NoSlice
               e == q.b
               v == IF q.nil THEN NilResp(c, none)
                    ELSE IF c = "*" THEN Array(q.v, none) ELSE Resp(c, q.v)
               w == IF a.nil THEN NilResp(c, <<>>)
                    ELSE IF c = "*" THEN Array(a.v, <<>>) ELSE Resp(c, a.v)
    <3>1. r = Ok(q.b, v)
      BY <2>5, <2>6, <2>2, <2>9 DEF Typed
    <3>2. p.ok = TRUE /\ p.nil = FALSE /\ p.rest = a.rest /\ p.v = w
      BY <2>3, <2>6, <2>9 DEF TypedAt
    <3>3. r.b = e /\ r.ok = TRUE /\ r.v = v /\ r.nil = FALSE
      BY <3>1 DEF Ok
    <3>4. e \in Reader /\ Keeps(b, e) /\ ~ e.err /\ Stream(e) = a.rest /\ q.nil = a.nil
      BY <2>6, <2>7, <2>9
    <3>5. none \in Slices /\ Used(e, none) /\ BytesOf(e, none) = <<>>
      BY <3>4, NoSliceIsUsed
    <3>6. ~ q.nil => IF c = "*" THEN q.v = a.v ELSE Used(e, q.v) /\ BytesOf(e, q.v) = a.v
      BY <2>4, <2>9
    <3> HIDE DEF none, e
    <3>7. v \in Nodes(Slices) /\ Used(e, v.value) /\ Look(e, v) = w
      <4> DEFINE x == q.nil
      <4>0. x \in BOOLEAN /\ (q.nil => x = TRUE) /\ (~ q.nil => x = FALSE)
        BY <2>5, <3>4
      <4>1. CASE q.nil
        <5>1. /\ v = [type |-> c, nil |-> x, value |-> none, size |-> 0]
              /\ w = [type |-> c, nil |-> x, value |-> <<>>, size |-> 0]
          BY <3>4, <4>0, <4>1 DEF NilResp
        <5> HIDE DEF v, w, x
        <5> QED
          BY <2>1, <3>5, <4>0, <5>1, NodeLooks
      <4>2. CASE ~ q.nil /\ c = "*"
        <5>1. /\ v = [type |-> c, nil |-> x, value |-> none, size |-> a.v]
              /\ w = [type |-> c, nil |-> x, value |-> <<>>, size |-> a.v]
              /\ a.v \in Nat
          BY <2>5, <2>6, <2>9, <3>4, <3>6, <4>0, <4>2 DEF Array
        <5> HIDE DEF v, w, x
        <5> QED
          BY <2>1, <3>5, <4>0, <5>1, NodeLooks
      <4>3. CASE ~ q.nil /\ c # "*"
        <5>1. /\ v = [type |-> c, nil |-> x, value |-> q.v, size |-> 0]
              /\ w = [type |-> c, nil |-> x, value |-> a.v, size |-> 0]
          BY <3>4, <4>0, <4>3 DEF Resp
        <5>2. q.v \in Slices /\ Used(e, q.v) /\ BytesOf(e, q.v) = a.v
          BY <3>6, <4>3 DEF Used
        <5> HIDE DEF v, w, x
        <5> QED
          BY <2>1, <4>0, <5>1, <5>2, NodeLooks
      <4> QED
        BY <2>5, <3>4, <4>1, <4>2, <4>3
    <3> HIDE DEF v, w
    <3> QED
      BY <2>1, <2>6, <2>9, <3>2, <3>3, <3>4, <3>7 DEF Decodes, r, p, s
  <2> QED
    BY <2>6, <2>8, <2>9
<1> QED
  BY <1>2, <1>7, <1>8, <1>9

-----------------------------------------------------------------------------
(* When a decoder has read a value, more bytes after it change nothing.    *)

(* More bytes after those that are read do not matter.                     *)
Extends(p, q, x) ==
    p.ok => q.ok /\ q.v = p.v /\ q.nil = p.nil /\ q.rest = p.rest \o x

(* A line that was read is the same when more bytes follow.                *)
LEMMA TextOfMore ==
    ASSUME NEW s \in Bytes, NEW x \in Bytes
    PROVE  /\ Extends(TextAt(s), TextAt(s \o x), x)
           /\ LineEnd(s) > 0 => LineEnd(s \o x) = LineEnd(s)
<1> DEFINE e == LineEnd(s)
           t == s \o x
           p == TextAt(s)
           q == TextAt(t)
<1>1. t \in Bytes /\ Len(s) \in Nat /\ e \in 0..Len(s)
  BY Joined, Lens, LineEndFound
<1>2. e > 0 => LineEnd(t) = e
  BY LineEndOfMore
<1>3. /\ p.nil = FALSE /\ (p.ok <=> e > 1 /\ s[e - 1] = "CR")
      /\ p.ok => p.v = Take(s, e - 2) /\ p.rest = Drop(s, e)
  BY TextTyped
<1>4. /\ q.nil = FALSE /\ (q.ok <=> LineEnd(t) > 1 /\ t[LineEnd(t) - 1] = "CR")
      /\ q.ok => q.v = Take(t, LineEnd(t) - 2) /\ q.rest = Drop(t, LineEnd(t))
      /\ q.ok \in BOOLEAN
  BY <1>1, TextTyped
<1>5. Drop(t, e) = Drop(s, e) \o x
  BY <1>1, PartsOfMore
<1>6. e > 1 => Take(t, e - 2) = Take(s, e - 2) /\ t[e - 1] = s[e - 1]
  <2> SUFFICES ASSUME e > 1 PROVE Take(t, e - 2) = Take(s, e - 2) /\ t[e - 1] = s[e - 1]
    OBVIOUS
  <2>1. e - 2 \in 0..Len(s) /\ e - 1 \in 1..Len(s)
    BY <1>1
  <2>2. Take(s \o x, e - 2) = Take(s, e - 2)
    BY <2>1, PartsOfMore
  <2>3. (s \o x)[e - 1] = s[e - 1]
    BY <2>1, Joined
  <2> QED
    BY <2>2, <2>3
<1> HIDE DEF e, t, p, q
<1>7. ASSUME p.ok PROVE q.ok /\ q.v = p.v /\ q.nil = p.nil /\ q.rest = p.rest \o x
  <2>1. e > 1 /\ e > 0 /\ LineEnd(t) = e
    BY <1>1, <1>2, <1>3, <1>7
  <2> QED
    BY <1>3, <1>4, <1>5, <1>6, <1>7, <2>1
<1> QED
  BY <1>2, <1>7 DEF Extends, p, q, e, t

(* A number that was read is the same when more bytes follow.              *)
LEMMA IntOfMore ==
    ASSUME NEW s \in Bytes, NEW x \in Bytes
    PROVE  Extends(IntAt(s), IntAt(s \o x), x)
<1> DEFINE t == s \o x
           p == IntAt(s)
           q == IntAt(t)
           a == TextAt(s)
           d == TextAt(t)
<1>1. LineEnd(s) > 0 => LineEnd(t) = LineEnd(s)
  BY TextOfMore
<1>2. Extends(a, d, x)
  BY TextOfMore
<1>3. /\ p = IF LineEnd(s) > ReaderSize THEN None ELSE NumberOf(a)
      /\ q = IF LineEnd(t) > ReaderSize THEN None ELSE NumberOf(d)
  BY DEF IntAt
<1>4. a.ok => LineEnd(s) > 1
  BY TextTyped
<1>5. LineEnd(s) \in Nat
  BY LineEndFound, Lens
<1>6. /\ a = [ok |-> a.ok, nil |-> a.nil, v |-> a.v, rest |-> a.rest]
      /\ d = [ok |-> d.ok, nil |-> d.nil, v |-> d.v, rest |-> d.rest]
  BY DEF TextAt, LineAt, None
<1> HIDE DEF t, p, q, a, d
<1>7. ASSUME p.ok PROVE q.ok /\ q.v = p.v /\ q.nil = p.nil /\ q.rest = p.rest \o x
  <2>1. ~ (LineEnd(s) > ReaderSize) /\ p = NumberOf(a) /\ a.ok /\ Btoi64(a.v).ok
    BY <1>3, <1>7 DEF None, NumberOf
  <2>2. d.ok /\ d.v = a.v /\ d.nil = a.nil /\ d.rest = a.rest \o x
    BY <1>2, <2>1 DEF Extends
  <2>3. LineEnd(t) = LineEnd(s)
    BY <1>1, <1>4, <1>5, <2>1
  <2>4. q = NumberOf(d)
    BY <1>3, <2>1, <2>3
  <2>5. p = [a EXCEPT !.v = Btoi64(a.v).v] /\ q = [d EXCEPT !.v = Btoi64(a.v).v]
    BY <2>1, <2>2, <2>4 DEF NumberOf
  <2>6. /\ p.ok = a.ok /\ p.nil = a.nil /\ p.rest = a.rest /\ p.v = Btoi64(a.v).v
        /\ q.ok = d.ok /\ q.nil = d.nil /\ q.rest = d.rest /\ q.v = Btoi64(a.v).v
    BY <1>6, <2>5
  <2> QED
    BY <2>2, <2>6
<1> QED
  BY <1>7 DEF Extends, p, q, t

(* A value that was read is the same when more bytes follow.               *)
LEMMA ValueOfMore ==
    ASSUME NEW s \in Bytes, NEW x \in Bytes, NEW n \in Nat
    PROVE  Extends(ValueAt(s, n), ValueAt(s \o x, n), x)
<1> DEFINE t == s \o x
           m == n + 2
           p == ValueAt(s, n)
           q == ValueAt(t, n)
<1>1. t \in Bytes /\ Len(s) \in Nat /\ Len(x) \in Nat /\ Len(t) = Len(s) + Len(x) /\ m \in Nat
  BY Joined
<1>2. /\ p.nil = FALSE /\ (p.ok <=> m <= Len(s) /\ SubSeq(s, n + 1, m) = CRLF)
      /\ p.ok => p.v = Take(s, n) /\ p.rest = Drop(s, m)
  BY ValueTyped
<1>3. /\ q.nil = FALSE /\ (q.ok <=> m <= Len(t) /\ SubSeq(t, n + 1, m) = CRLF)
      /\ q.ok => q.v = Take(t, n) /\ q.rest = Drop(t, m)
  BY <1>1, ValueTyped
<1>4. ASSUME NEW u \in Bytes, m <= Len(u) PROVE SubSeq(u, n + 1, m) = Drop(Take(u, m), n)
  <2>1. m \in 0..Len(u)
    BY <1>1, <1>4
  <2> HIDE DEF m
  <2>2. Len(Take(u, m)) = m
    BY <2>1, Parts
  <2> DEFINE z == 0
  <2>3. z \in Nat /\ z <= m /\ m <= Len(u) /\ n \in 0..m - z /\ z + 1 = 1 /\ z + n + 1 = n + 1
    BY <1>1, <1>4 DEF m
  <2> HIDE DEF z
  <2>4. Drop(SubSeq(u, z + 1, m), n) = SubSeq(u, z + n + 1, m)
    BY <1>1, <2>3, PartsOfPiece
  <2> QED
    BY <2>3, <2>4 DEF Take
<1> HIDE DEF t, p, q
<1>5. ASSUME p.ok PROVE q.ok /\ q.v = p.v /\ q.nil = p.nil /\ q.rest = p.rest \o x
  <2>1. m <= Len(s) /\ m <= Len(t) /\ m \in 0..Len(s) /\ n \in 0..Len(s)
    BY <1>1, <1>2, <1>5
  <2>2. SubSeq(s, n + 1, m) = Drop(Take(s, m), n) /\ SubSeq(t, n + 1, m) = Drop(Take(t, m), n)
    BY <1>1, <1>4, <2>1
  <2> HIDE DEF m
  <2>3. Take(t, m) = Take(s, m) /\ Drop(t, m) = Drop(s, m) \o x /\ Take(t, n) = Take(s, n)
    BY <2>1, PartsOfMore DEF t
  <2> QED
    BY <1>2, <1>3, <1>5, <2>1, <2>2, <2>3
<1> QED
  BY <1>5 DEF Extends, p, q, t

(* What follows a type is the same when more bytes follow.                 *)
LEMMA BodyOfMore ==
    ASSUME NEW s \in Bytes, NEW x \in Bytes, NEW c \in Types
    PROVE  Extends(BodyAt(c, s), BodyAt(c, s \o x), x)
<1> DEFINE t == s \o x
           i == IntAt(s)
           j == IntAt(t)
<1>0. t \in Bytes
  BY Joined
<1>1. /\ i.ok \in BOOLEAN /\ i.nil = FALSE
      /\ i.ok => i.v \in Int /\ i.rest \in Bytes
  BY IntTyped
<1>2. Extends(i, j, x)
  BY IntOfMore
<1>3. i.ok => j.ok /\ j.v = i.v /\ j.nil = i.nil /\ j.rest = i.rest \o x
  BY <1>2 DEF Extends
<1>4. CASE c \in Text
  BY <1>4, TextOfMore DEF BodyAt
<1>5. CASE c = "$"
  <2> DEFINE p == BulkAt(s)
             q == BulkAt(t)
  <2>1. /\ p = IF ~i.ok \/ i.v \notin -1..MaxBulkBytesLen THEN None
               ELSE IF i.v = -1 THEN Nothing(i.rest) ELSE ValueAt(i.rest, i.v)
        /\ q = IF ~j.ok \/ j.v \notin -1..MaxBulkBytesLen THEN None
               ELSE IF j.v = -1 THEN Nothing(j.rest) ELSE ValueAt(j.rest, j.v)
    BY DEF BulkAt
  <2>2. BodyAt(c, s) = p /\ BodyAt(c, t) = q
    BY <1>5 DEF BodyAt, Text
  <2> HIDE DEF p, q, i, j, t
  <2>3. ASSUME p.ok PROVE Extends(p, q, x)
    <3>1. i.ok /\ i.v \in -1..MaxBulkBytesLen
      BY <2>1, <2>3 DEF None
    <3>2. CASE i.v = -1
      <4>1. p = Nothing(i.rest) /\ q = Nothing(i.rest \o x)
        BY <1>3, <2>1, <3>1, <3>2
      <4> QED
        BY <4>1 DEF Nothing, Extends
    <3>3. CASE i.v # -1
      <4>1. p = ValueAt(i.rest, i.v) /\ q = ValueAt(i.rest \o x, i.v)
        BY <1>3, <2>1, <3>1, <3>3
      <4>2. i.v \in Nat /\ i.rest \in Bytes
        BY <1>1, <3>1, <3>3, Maxima
      <4> QED
        BY <4>1, <4>2, ValueOfMore
    <3> QED
      BY <3>2, <3>3
  <2>4. ~ p.ok => Extends(p, q, x)
    BY DEF Extends
  <2> QED
    BY <2>2, <2>3, <2>4 DEF t
<1>6. CASE c = "*"
  <2> DEFINE p == ArrayAt(s)
             q == ArrayAt(t)
  <2>1. /\ p = IF ~i.ok \/ i.v \notin -1..MaxArrayLen THEN None
               ELSE IF i.v = -1 THEN Nothing(i.rest) ELSE i
        /\ q = IF ~j.ok \/ j.v \notin -1..MaxArrayLen THEN None
               ELSE IF j.v = -1 THEN Nothing(j.rest) ELSE j
    BY DEF ArrayAt
  <2>2. BodyAt(c, s) = p /\ BodyAt(c, t) = q
    BY <1>6 DEF BodyAt, Text
  <2> HIDE DEF p, q, i, j, t
  <2>3. ASSUME p.ok PROVE Extends(p, q, x)
    <3>1. i.ok /\ i.v \in -1..MaxArrayLen
      BY <2>1, <2>3 DEF None
    <3>2. CASE i.v = -1
      <4>1. p = Nothing(i.rest) /\ q = Nothing(i.rest \o x)
        BY <1>3, <2>1, <3>1, <3>2
      <4> QED
        BY <4>1 DEF Nothing, Extends
    <3>3. CASE i.v # -1
      <4>1. p = i /\ q = j
        BY <1>3, <2>1, <3>1, <3>3
      <4> QED
        BY <1>2, <4>1
    <3> QED
      BY <3>2, <3>3
  <2>4. ~ p.ok => Extends(p, q, x)
    BY DEF Extends
  <2> QED
    BY <2>2, <2>3, <2>4 DEF t
<1> QED
  BY <1>4, <1>5, <1>6 DEF Types

(* A node that was read is the same when more bytes follow.                *)
LEMMA NodeOfMore ==
    ASSUME NEW s \in Bytes, NEW x \in Bytes
    PROVE  Extends(NodeAt(s), NodeAt(s \o x), x)
<1> DEFINE t == s \o x
           p == NodeAt(s)
           q == NodeAt(t)
<1> SUFFICES ASSUME p.ok PROVE Extends(p, q, x)
  BY DEF Extends
<1>1. s # <<>> /\ s[1] \in Types
  BY DEF NodeAt, None
<1>2. 1 \in 1..Len(s) /\ 1 \in 0..Len(s) /\ Len(s) \in Nat
  BY <1>1, Lens
<1>3. t[1] = s[1] /\ Drop(t, 1) = Drop(s, 1) \o x /\ Drop(s, 1) \in Bytes /\ t # <<>>
  <2>1. (s \o x)[1] = s[1] /\ Len(s \o x) = Len(s) + Len(x) /\ Len(x) \in Nat /\ s \o x \in Bytes
    BY <1>2, Joined
  <2>2. Drop(s \o x, 1) = Drop(s, 1) \o x /\ Drop(s, 1) \in Bytes
    <3> DEFINE k == 1
    <3>1. k \in 0..Len(s)
      BY <1>2
    <3> HIDE DEF k
    <3>2. Drop(s \o x, k) = Drop(s, k) \o x
      BY <3>1, PartsOfMore
    <3>3. Drop(s, k) \in Bytes
      BY <3>1, Parts
    <3> QED
      BY <3>2, <3>3 DEF k
  <2>3. s \o x # <<>>
    BY <1>2, <2>1, Lens
  <2> QED
    BY <2>1, <2>2, <2>3
<1> DEFINE a == BodyAt(s[1], Drop(s, 1))
           d == BodyAt(s[1], Drop(s, 1) \o x)
<1>4. Extends(a, d, x)
  BY <1>1, <1>3, BodyOfMore
<1>5. p = TypedAt(s[1], a) /\ q = TypedAt(s[1], d)
  BY <1>1, <1>3 DEF NodeAt
<1> HIDE DEF p, q, a, d
<1>6. a.ok
  BY <1>5 DEF TypedAt, None
<1>7. d.ok /\ d.v = a.v /\ d.nil = a.nil /\ d.rest = a.rest \o x
  BY <1>4, <1>6 DEF Extends
<1> QED
  BY <1>5, <1>6, <1>7 DEF Extends, TypedAt

-----------------------------------------------------------------------------
(* What the encoder writes of a node, and that the decoder reads it.       *)

(* The bytes of a node.                                                    *)
EncText(s) == s \o CRLF
EncInt(i) == FormatInt(i) \o CRLF
EncBody(r) ==
    IF r.type \in Text THEN EncText(r.value)
    ELSE IF r.nil THEN EncInt(-1)
    ELSE IF r.type = "*" THEN EncInt(r.size)
    ELSE EncInt(Len(r.value)) \o EncText(r.value)
EncNode(r) == <<r.type>> \o EncBody(r)

NoLineEnd(s) == \A i \in 1..Len(s) : s[i] # "LF"

(* Text that was encoded is read.                                          *)
LEMMA TextIsRead ==
    ASSUME NEW s \in Bytes, NoLineEnd(s)
    PROVE  LET p == TextAt(EncText(s))
           IN  /\ EncText(s) \in Bytes /\ LineEnd(EncText(s)) = Len(s) + 2
               /\ p.ok /\ p.v = s /\ p.nil = FALSE /\ p.rest = <<>>
<1> DEFINE t == EncText(s)
           p == TextAt(t)
           n == Len(s)
<1>0. t = s \o CRLF
  BY DEF EncText
<1>1. /\ t \in Bytes /\ n \in Nat /\ Len(t) = n + 2
      /\ \A i \in 1..n : t[i] = s[i]
      /\ \A i \in 1..2 : t[n + i] = CRLF[i]
  <2>1. CRLF \in Bytes /\ Len(CRLF) = 2
    BY CRLFTyped
  <2> DEFINE y == CRLF
             m == Len(y)
  <2>2. y \in Bytes
    BY <2>1
  <2> HIDE DEF y
  <2>3. /\ s \o y \in Bytes /\ Len(s) \in Nat /\ Len(s \o y) = Len(s) + m
        /\ \A i \in 1..Len(s) : (s \o y)[i] = s[i]
        /\ \A i \in 1..m : (s \o y)[Len(s) + i] = y[i]
    BY <2>2, Joined
  <2>4. m = 2 /\ t = s \o y
    BY <1>0, <2>1 DEF y
  <2> HIDE DEF m, t
  <2> QED
    BY <2>3, <2>4 DEF y
<1>2. t[n + 1] = "CR" /\ t[n + 2] = "LF"
  BY <1>1, CRLFTyped
<1>3. Take(t, n) = s /\ Drop(t, n) = CRLF
  BY <1>0, CRLFTyped, PartsOfBoth
<1> DEFINE e == n + 2
<1>4. e \in 1..Len(t) /\ t[e] = "LF" /\ e - 2 = n /\ e - 1 = n + 1 /\ e > 1 /\ e = Len(t)
  BY <1>1, <1>2
<1> HIDE DEF t
<1>5. \A i \in 1..e - 1 : t[i] # "LF"
  <2> SUFFICES ASSUME NEW i \in 1..n + 1 PROVE t[i] # "LF"
    BY <1>4
  <2>1. CASE i = n + 1
    BY <1>2, <2>1
  <2>2. CASE i # n + 1
    <3>1. i \in 1..n
      BY <1>1, <2>2
    <3> QED
      BY <1>1, <3>1 DEF NoLineEnd
  <2> QED
    BY <2>1, <2>2
<1> HIDE DEF e
<1>6. LineEnd(t) = e
  BY <1>1, <1>4, <1>5, LineEndIs
<1>7. /\ p.nil = FALSE /\ (p.ok <=> LineEnd(t) > 1 /\ t[LineEnd(t) - 1] = "CR")
      /\ p.ok => p.v = Take(t, LineEnd(t) - 2) /\ p.rest = Drop(t, LineEnd(t))
  BY <1>1, TextTyped
<1>8. Drop(t, Len(t)) = <<>>
  BY <1>1, PartsOfNone
<1> QED
  BY <1>1, <1>2, <1>3, <1>4, <1>6, <1>7, <1>8 DEF t, e

(* A number that was encoded is read.                                      *)
LEMMA IntIsRead ==
    ASSUME NEW i \in Nat \cup {-1}, InBuffer(i)
    PROVE  LET p == IntAt(EncInt(i))
           IN  /\ EncInt(i) \in Bytes
               /\ p.ok /\ p.v = i /\ p.nil = FALSE /\ p.rest = <<>>
<1> DEFINE s == FormatInt(i)
           t == EncInt(i)
           a == TextAt(t)
           p == IntAt(t)
<1>1. /\ s \in Bytes /\ (\A j \in 1..Len(s) : s[j] \notin {"LF", "CR"})
      /\ Btoi64(s).ok /\ Btoi64(s).v = i
  BY FormattedIsRead
<1>2. NoLineEnd(s) /\ t = EncText(s)
  BY <1>1 DEF NoLineEnd, EncInt, EncText
<1>3. Len(s) + 2 <= ReaderSize /\ ReaderSize \in Nat /\ Len(s) \in Nat
  BY <1>1, Lens, BufioAssumption DEF InBuffer, BufioAssumption
<1> HIDE DEF s, t
<1>4. /\ t \in Bytes /\ LineEnd(t) = Len(s) + 2
      /\ a.ok /\ a.v = s /\ a.nil = FALSE /\ a.rest = <<>>
  BY <1>1, <1>2, TextIsRead
<1>5. a = [ok |-> a.ok, nil |-> a.nil, v |-> a.v, rest |-> a.rest]
  BY DEF TextAt, LineAt, None
<1> HIDE DEF a
<1>6. p = NumberOf(a)
  BY <1>3, <1>4 DEF IntAt, a
<1>7. p = [a EXCEPT !.v = Btoi64(s).v]
  BY <1>1, <1>4, <1>6 DEF NumberOf
<1> HIDE DEF p
<1>8. p.ok = a.ok /\ p.nil = a.nil /\ p.rest = a.rest /\ p.v = i
  BY <1>1, <1>5, <1>7
<1> QED
  BY <1>4, <1>8 DEF p, t

(* A value that was encoded is read.                                       *)
LEMMA ValueIsRead ==
    ASSUME NEW s \in Bytes
    PROVE  LET p == ValueAt(EncText(s), Len(s))
           IN  EncText(s) \in Bytes /\ p.ok /\ p.v = s /\ p.nil = FALSE /\ p.rest = <<>>
<1> DEFINE t == s \o CRLF
           n == Len(s)
           p == ValueAt(t, n)
<1>1. t \in Bytes /\ n \in Nat /\ Len(t) = n + 2
  <2>1. CRLF \in Bytes /\ Len(CRLF) = 2
    BY CRLFTyped
  <2> DEFINE y == CRLF
  <2>2. y \in Bytes
    BY <2>1
  <2> HIDE DEF y
  <2>3. s \o y \in Bytes /\ Len(s) \in Nat /\ Len(s \o y) = Len(s) + Len(y)
    BY <2>2, Joined
  <2> QED
    BY <2>1, <2>3 DEF y
<1>2. Take(t, n) = s /\ Drop(t, n) = CRLF
  BY CRLFTyped, PartsOfBoth
<1>3. Drop(t, Len(t)) = <<>>
  BY <1>1, PartsOfNone
<1> HIDE DEF t, n
<1>4. SubSeq(t, n + 1, n + 2) = CRLF
  BY <1>1, <1>2 DEF Drop
<1>5. p = [ok |-> TRUE, nil |-> FALSE, v |-> Take(t, n), rest |-> Drop(t, n + 2)]
  BY <1>1, <1>4 DEF ValueAt
<1> QED
  BY <1>1, <1>2, <1>3, <1>5 DEF EncText, t, n

(* What encodeNode writes after the type is read as the node.              *)
LEMMA BodyIsRead ==
    ASSUME NEW r \in Nodes(Bytes), Sendable(r)
    PROVE  LET p == BodyAt(r.type, EncBody(r))
           IN  /\ EncBody(r) \in Bytes
               /\ p.ok /\ p.nil \in BOOLEAN /\ (p.nil <=> r.nil) /\ p.rest = <<>>
               /\ ~ r.nil => p.v = IF r.type = "*" THEN r.size ELSE r.value
<1>0. r.type \in Types /\ r.nil \in BOOLEAN /\ r.value \in Bytes /\ r.size \in Nat
  BY DEF Nodes
<1> DEFINE p == BodyAt(r.type, EncBody(r))
<1>1. "$" \notin Text /\ "*" \notin Text /\ r.type \in Text \cup {"$", "*"}
  BY <1>0 DEF Text, Types
<1>2. CASE r.type \in Text
  <2>1. NoLineEnd(r.value) /\ ~ r.nil
    <3>1. DOMAIN r.value = 1..Len(r.value)
      BY <1>0, LenProperties DEF Bytes
    <3> QED
      BY <1>2, <3>1 DEF Sendable, NoLineEnd, ToSet
  <2> DEFINE q == TextAt(EncText(r.value))
  <2>2. EncBody(r) = EncText(r.value) /\ p = q /\ r.type # "*"
    BY <1>1, <1>2 DEF EncBody, BodyAt
  <2>3. EncText(r.value) \in Bytes /\ q.ok /\ q.v = r.value /\ q.nil = FALSE /\ q.rest = <<>>
    BY <1>0, <2>1, TextIsRead
  <2> HIDE DEF p, q
  <2>4. p.ok /\ p.v = r.value /\ p.nil = FALSE /\ p.rest = <<>>
    BY <2>2, <2>3
  <2> QED
    BY <2>1, <2>2, <2>3, <2>4 DEF p
<1>3. ASSUME r.type \notin Text, r.nil
      PROVE  /\ EncBody(r) \in Bytes /\ p.ok /\ p.nil = TRUE /\ p.rest = <<>>
  <2> DEFINE n == -1
             i == IntAt(EncInt(n))
  <2>1. n \in Nat \cup {-1} /\ InBuffer(n) /\ EncBody(r) = EncInt(n)
    BY <1>3 DEF Sendable, EncBody
  <2>2. EncInt(n) \in Bytes /\ i.ok /\ i.v = n /\ i.nil = FALSE /\ i.rest = <<>>
    <3> HIDE DEF n
    <3> QED
      BY <2>1, IntIsRead
  <2> HIDE DEF i
  <2>3. p = Nothing(i.rest)
    BY <1>1, <1>3, <2>1, <2>2, Maxima DEF BodyAt, BulkAt, ArrayAt, i
  <2> QED
    BY <2>1, <2>2, <2>3 DEF Nothing
<1>4. CASE r.type = "*" /\ ~ r.nil
  <2> DEFINE n == r.size
             i == IntAt(EncInt(n))
  <2>1. n \in Nat \cup {-1} /\ InBuffer(n) /\ EncBody(r) = EncInt(n) /\ n \in 0..MaxArrayLen
    BY <1>0, <1>1, <1>4, Maxima DEF Sendable, EncBody
  <2>2. EncInt(n) \in Bytes /\ i.ok /\ i.v = n /\ i.nil = FALSE /\ i.rest = <<>>
    <3> HIDE DEF n
    <3> QED
      BY <2>1, IntIsRead
  <2> HIDE DEF i
  <2>3. p = i
    BY <1>1, <1>4, <2>1, <2>2, Maxima DEF BodyAt, ArrayAt, i
  <2> HIDE DEF p
  <2> QED
    BY <1>4, <2>1, <2>2, <2>3 DEF p
<1>5. CASE r.type = "$" /\ ~ r.nil
  <2> DEFINE n == Len(r.value)
             x == EncText(r.value)
             i == IntAt(EncInt(n))
             j == IntAt(EncInt(n) \o x)
             v == ValueAt(x, n)
  <2>1. n \in Nat \cup {-1} /\ InBuffer(n) /\ EncBody(r) = EncInt(n) \o x /\ n \in 0..MaxBulkBytesLen
    BY <1>0, <1>1, <1>5, Lens, Maxima DEF Sendable, EncBody
  <2>2. EncInt(n) \in Bytes /\ i.ok /\ i.v = n /\ i.nil = FALSE /\ i.rest = <<>>
    <3> HIDE DEF n
    <3> QED
      BY <2>1, IntIsRead
  <2>3. x \in Bytes /\ v.ok /\ v.v = r.value /\ v.nil = FALSE /\ v.rest = <<>>
    BY <1>0, ValueIsRead
  <2> HIDE DEF i, x, v, n
  <2>4. Extends(i, j, x)
    BY <2>2, <2>3, IntOfMore DEF i
  <2>5. <<>> \o x = x /\ EncInt(n) \o x \in Bytes
    BY <2>2, <2>3, Joined, ConcatEmptySeq DEF Bytes
  <2>6. j.ok /\ j.v = n /\ j.rest = x
    BY <2>2, <2>4, <2>5 DEF Extends
  <2>7. p = v
    <3>1. j.v \in -1..MaxBulkBytesLen /\ j.v # -1
      BY <2>1, <2>6, Maxima
    <3>2. p = BulkAt(EncInt(n) \o x)
      BY <1>1, <1>5, <2>1 DEF BodyAt
    <3> QED
      BY <2>6, <3>1, <3>2 DEF BulkAt, v
  <2> HIDE DEF p
  <2> QED
    BY <1>5, <2>1, <2>3, <2>5, <2>7 DEF p
<1> QED
  BY <1>0, <1>1, <1>2, <1>3, <1>4, <1>5

(* A node is read as what was written (encoder.go 66-166).                 *)
LEMMA NodeIsRead ==
    ASSUME NEW r \in Nodes(Bytes), Sendable(r)
    PROVE  LET p == NodeAt(EncNode(r))
           IN  EncNode(r) \in Bytes /\ p.ok /\ p.v = r /\ p.nil = FALSE /\ p.rest = <<>>
<1> DEFINE c == <<r.type>>
           x == EncBody(r)
           s == EncNode(r)
           a == BodyAt(r.type, x)
           p == NodeAt(s)
<1>0. r.type \in Types /\ r.nil \in BOOLEAN /\ r.value \in Bytes /\ r.size \in Nat
      /\ r = [type |-> r.type, nil |-> r.nil, value |-> r.value, size |-> r.size]
  BY DEF Nodes
<1>1. /\ x \in Bytes
      /\ a.ok /\ a.nil \in BOOLEAN /\ (a.nil <=> r.nil) /\ a.rest = <<>>
      /\ ~ r.nil => a.v = IF r.type = "*" THEN r.size ELSE r.value
  BY BodyIsRead
<1>2. c \in Bytes /\ Len(c) = 1 /\ c[1] = r.type
  <2>1. r.type \in Byte
    BY <1>0, CodecAssumption DEF CodecAssumption
  <2> QED
    BY <2>1, Ones
<1>3. s = c \o x
  BY DEF EncNode
<1> HIDE DEF c, x, s, a, p
<1>4. s \in Bytes /\ s[1] = r.type /\ s # <<>>
  <2>1. s \in Bytes /\ Len(s) = 1 + Len(x) /\ Len(x) \in Nat /\ \A i \in 1..1 : s[i] = c[i]
    <3>1. /\ c \o x \in Bytes /\ Len(c \o x) = Len(c) + Len(x) /\ Len(x) \in Nat
          /\ \A i \in 1..Len(c) : (c \o x)[i] = c[i]
      BY <1>1, <1>2, Joined
    <3> QED
      BY <1>2, <1>3, <3>1
  <2>2. s # <<>>
    BY <2>1, Lens
  <2> QED
    BY <1>2, <2>1, <2>2
<1>5. Drop(s, 1) = x
  BY <1>1, <1>2, <1>3, PartsOfBoth
<1>6. p = TypedAt(r.type, a)
  BY <1>0, <1>4, <1>5 DEF NodeAt, p, a
<1>7. /\ p.ok = TRUE /\ p.nil = FALSE /\ p.rest = <<>>
      /\ p.v = IF a.nil THEN NilResp(r.type, <<>>)
               ELSE IF r.type = "*" THEN Array(a.v, <<>>) ELSE Resp(r.type, a.v)
  BY <1>1, <1>6 DEF TypedAt
<1>8. p.v = r
  <2>1. CASE r.nil
    BY <1>0, <1>1, <1>7, <2>1 DEF Sendable, NilResp
  <2>2. CASE ~ r.nil /\ r.type = "*"
    BY <1>0, <1>1, <1>7, <2>2 DEF Sendable, Array
  <2>3. CASE ~ r.nil /\ r.type # "*"
    BY <1>0, <1>1, <1>7, <2>3 DEF Sendable, Resp
  <2> QED
    BY <1>0, <2>1, <2>2, <2>3
<1> QED
  BY <1>4, <1>7, <1>8 DEF p, s

-----------------------------------------------------------------------------
(* The decoder: the nodes of a message, which are slices of memory.        *)

AllUsed(b, v) == \A i \in 1..Len(v) : Used(b, v[i].value)

(* In a slice in use are bytes.                                            *)
LEMMA UsedTyped ==
    ASSUME NEW b \in Reader, NEW s \in Slices, Used(b, s)
    PROVE  BytesOf(b, s) \in Bytes
<1> DEFINE n == s.len
<1>1. s.len \in Nat /\ s.at + s.len <= IF s.of = "mem" THEN Len(b.mem) ELSE ReaderSize
  BY DEF Used, Slices
<1>2. n \in Nat /\ n <= n /\ n <= s.len
  BY <1>1
<1> HIDE DEF n
<1> QED
  BY <1>1, <1>2, SliceOfSlice

(* A message of slices in use is seen as a message of bytes.               *)
LEMMA SeenTyped ==
    ASSUME NEW b \in Reader, NEW v \in Seq(Nodes(Slices)), AllUsed(b, v)
    PROVE  /\ Seen(b, v) \in Seq(Nodes(Bytes)) /\ Len(Seen(b, v)) = Len(v) /\ Len(v) \in Nat
           /\ \A i \in 1..Len(v) : Seen(b, v)[i] = Look(b, v[i])
<1>1. Len(v) \in Nat /\ DOMAIN v = 1..Len(v)
  BY LenProperties
<1>2. Seen(b, v) = [i \in 1..Len(v) |-> Look(b, v[i])]
  BY <1>1 DEF Seen, Look
<1>3. ASSUME NEW i \in 1..Len(v) PROVE Look(b, v[i]) \in Nodes(Bytes)
  <2> DEFINE n == v[i]
  <2>1. n \in Nodes(Slices) /\ Used(b, n.value)
    BY ElementOfSeq DEF AllUsed
  <2> HIDE DEF n
  <2>2. n.value \in Slices
    BY <2>1 DEF Nodes
  <2>3. BytesOf(b, n.value) \in Bytes
    BY <2>1, <2>2, UsedTyped
  <2> DEFINE x == BytesOf(b, n.value)
  <2>4. Look(b, n) = [n EXCEPT !.value = x]
    BY DEF Look
  <2>5. x \in Bytes
    BY <2>3
  <2> HIDE DEF x
  <2>6. Look(b, n) \in Nodes(Bytes)
    BY <2>1, <2>4, <2>5 DEF Nodes
  <2> QED
    BY <2>6 DEF n
<1> DEFINE e(i) == Look(b, v[i])
           S == Nodes(Bytes)
<1>4. \A i \in 1..Len(v) : e(i) \in S
  BY <1>3
<1> HIDE DEF e, S
<1>5. [i \in 1..Len(v) |-> e(i)] \in Seq(S)
  BY <1>1, <1>4, IsASeq
<1>6. Seen(b, v) \in Seq(Nodes(Bytes)) /\ \A i \in 1..Len(v) : Seen(b, v)[i] = Look(b, v[i])
  BY <1>2, <1>5 DEF e, S
<1>7. DOMAIN Seen(b, v) = 1..Len(v)
  BY <1>2
<1>8. DOMAIN Seen(b, v) = 1..Len(Seen(b, v)) /\ Len(Seen(b, v)) \in Nat
  BY <1>6, LenProperties
<1>9. Len(Seen(b, v)) = Len(v)
  BY <1>1, <1>7, <1>8
<1> QED
  BY <1>1, <1>6, <1>9

(* A message is seen the same when memory in use is kept.                  *)
LEMMA SeenKept ==
    ASSUME NEW b \in Reader, NEW c \in Reader, Keeps(b, c),
           NEW v \in Seq(Nodes(Slices)), AllUsed(b, v)
    PROVE  AllUsed(c, v) /\ Seen(c, v) = Seen(b, v)
<1>1. ASSUME NEW i \in 1..Len(v)
      PROVE  Used(c, v[i].value) /\ BytesOf(c, v[i].value) = BytesOf(b, v[i].value)
  <2>1. v[i] \in Nodes(Slices) /\ Used(b, v[i].value)
    BY ElementOfSeq DEF AllUsed
  <2>2. v[i].value \in Slices
    BY <2>1 DEF Nodes
  <2> QED
    BY <2>1, <2>2 DEF Keeps
<1>2. DOMAIN v = 1..Len(v)
  BY LenProperties
<1>3. Seen(c, v) = [i \in 1..Len(v) |-> [v[i] EXCEPT !.value = BytesOf(c, v[i].value)]]
  BY <1>2 DEF Seen
<1>4. Seen(b, v) = [i \in 1..Len(v) |-> [v[i] EXCEPT !.value = BytesOf(b, v[i].value)]]
  BY <1>2 DEF Seen
<1> QED
  BY <1>1, <1>3, <1>4 DEF AllUsed

(* One node more is seen after the others.                                 *)
LEMMA SeenMore ==
    ASSUME NEW b \in Reader, NEW v \in Seq(Nodes(Slices)), AllUsed(b, v),
           NEW n \in Nodes(Slices), Used(b, n.value)
    PROVE  /\ Append(v, n) \in Seq(Nodes(Slices)) /\ AllUsed(b, Append(v, n))
           /\ Seen(b, Append(v, n)) = Append(Seen(b, v), Look(b, n))
           /\ Look(b, n) \in Nodes(Bytes)
<1> DEFINE w == Append(v, n)
           k == Len(v)
<1>1. /\ w \in Seq(Nodes(Slices)) /\ Len(w) = k + 1 /\ k \in Nat
      /\ \A i \in 1..k : w[i] = v[i]
      /\ w[k + 1] = n
  BY AppendProperties, LenProperties
<1>2. /\ Seen(b, v) \in Seq(Nodes(Bytes)) /\ Len(Seen(b, v)) = k
      /\ \A i \in 1..k : Seen(b, v)[i] = Look(b, v[i])
  BY SeenTyped
<1> HIDE DEF w, k
<1>3. AllUsed(b, w)
  <2> SUFFICES ASSUME NEW i \in 1..k + 1 PROVE Used(b, w[i].value)
    BY <1>1 DEF AllUsed
  <2>1. CASE i = k + 1
    BY <1>1, <2>1
  <2>2. CASE i # k + 1
    <3>1. i \in 1..k
      BY <1>1, <2>2
    <3> QED
      BY <1>1, <3>1 DEF AllUsed, k
  <2> QED
    BY <2>1, <2>2
<1>4. /\ Seen(b, w) \in Seq(Nodes(Bytes)) /\ Len(Seen(b, w)) = k + 1
      /\ \A i \in 1..k + 1 : Seen(b, w)[i] = Look(b, w[i])
  <2>1. /\ Seen(b, w) \in Seq(Nodes(Bytes)) /\ Len(Seen(b, w)) = Len(w)
        /\ \A i \in 1..Len(w) : Seen(b, w)[i] = Look(b, w[i])
    BY <1>1, <1>3, SeenTyped
  <2> QED
    BY <1>1, <2>1
<1> DEFINE x == Seen(b, v)
           y == Seen(b, w)
           e == Look(b, n)
           z == Append(x, e)
           S == Nodes(Bytes)
<1>5. e \in S
  <2>1. k + 1 \in 1..k + 1 /\ k + 1 \in 1..Len(y)
    BY <1>1, <1>4
  <2>2. y[k + 1] \in S
    <3> DEFINE j == k + 1
    <3>1. j \in 1..Len(y) /\ y \in Seq(S)
      BY <2>1, <1>4
    <3> HIDE DEF j, y, S
    <3>2. y[j] \in S
      BY <3>1, ElementOfSeq
    <3> QED
      BY <3>2 DEF j
  <2> QED
    BY <1>1, <1>4, <2>1, <2>2
<1>6. x \in Seq(S) /\ y \in Seq(S) /\ Len(x) = k /\ Len(y) = k + 1
  BY <1>2, <1>4
<1>7. \A i \in 1..k : x[i] = y[i]
  BY <1>1, <1>2, <1>4
<1>8. y[k + 1] = e
  BY <1>1, <1>4
<1> HIDE DEF x, y, e, S
<1>9. /\ z \in Seq(S) /\ Len(z) = k + 1 /\ \A i \in 1..k : z[i] = x[i]
      /\ z[k + 1] = e
  BY <1>5, <1>6, AppendProperties
<1>10. ASSUME NEW i \in 1..k + 1 PROVE y[i] = z[i]
  <2>1. CASE i = k + 1
    BY <1>8, <1>9, <2>1
  <2>2. CASE i # k + 1
    <3>1. i \in 1..k
      BY <1>1, <2>2
    <3> QED
      BY <1>7, <1>9, <3>1
  <2> QED
    BY <2>1, <2>2
<1> HIDE DEF z
<1>11. y = z
  BY <1>6, <1>9, <1>10, SeqEqual
<1> QED
  BY <1>1, <1>3, <1>5, <1>11 DEF w, x, y, z, e, S

Parsings ==
    [ok : BOOLEAN, s : Bytes, due : Nat, types : SUBSET Types, seen : Seq(Nodes(Bytes))]
ParsingRank(t) == IF t.ok THEN 1 + Len(t.s) ELSE 0
ParsingDone(t) == ~t.ok \/ t.due = 0
ParsingOut(t) ==
    IF t.ok THEN [ok |-> TRUE, nil |-> FALSE, v |-> t.seen, rest |-> t.s] ELSE None
ParsingStep(t) ==
    LET p == NodeAt(t.s)
    IN  IF ~p.ok \/ p.v.type \notin t.types THEN [t EXCEPT !.ok = FALSE, !.s = <<>>]
        ELSE [t EXCEPT !.s = p.rest, !.due = @ - 1 + p.v.size, !.seen = Append(@, p.v)]
ElementsAt[t \in Parsings] ==
    IF ParsingDone(t) THEN ParsingOut(t) ELSE ElementsAt[ParsingStep(t)]
Parsed(t, p) ==
    /\ p.ok \in BOOLEAN
    /\ p.ok => /\ t.ok /\ p.nil = FALSE /\ p.v \in Seq(Nodes(Bytes)) /\ p.rest \in Bytes
               /\ Len(p.rest) <= Len(t.s) /\ (t.due > 0 => Len(p.rest) < Len(t.s))

Parsing == INSTANCE Recursion
    WITH States <- Parsings, Rank <- ParsingRank, Done <- ParsingDone, Out <- ParsingOut,
         Step <- ParsingStep, More <- SlicingMore, Good <- Parsed

(* One more node of what is due is taken from the stream.                  *)
LEMMA ParsesOn ==
    ASSUME NEW t \in Parsings, ~ ParsingDone(t)
    PROVE  LET p == NodeAt(t.s)
               u == ParsingStep(t)
           IN  /\ u \in Parsings /\ u.ok \in BOOLEAN /\ t.ok
               /\ p.ok \in BOOLEAN
               /\ (u.ok <=> p.ok /\ p.v.type \in t.types)
               /\ u.types = t.types
               /\ u.ok => /\ u.s = p.rest /\ u.due = t.due - 1 + p.v.size
                          /\ u.seen = Append(t.seen, p.v)
                          /\ Len(u.s) < Len(t.s) /\ p.v \in Nodes(Bytes)
               /\ Len(u.s) \in Nat /\ Len(t.s) \in Nat /\ t.s \in Bytes
<1> DEFINE p == NodeAt(t.s)
           u == ParsingStep(t)
<1>1. /\ t.ok = TRUE /\ t.s \in Bytes /\ t.due \in Nat /\ t.due > 0
      /\ t.types \in SUBSET Types /\ t.seen \in Seq(Nodes(Bytes))
  BY DEF Parsings, ParsingDone
<1>2. /\ p.ok \in BOOLEAN
      /\ p.ok => /\ p.rest \in Bytes /\ Len(p.rest) < Len(t.s) /\ p.v \in Nodes(Bytes)
  BY <1>1, NodeTyped
<1>3. <<>> \in Bytes /\ Len(<<>>) = 0
  BY EmptySeq DEF Bytes
<1>4. u = IF ~p.ok \/ p.v.type \notin t.types THEN [t EXCEPT !.ok = FALSE, !.s = <<>>]
          ELSE [t EXCEPT !.s = p.rest, !.due = @ - 1 + p.v.size, !.seen = Append(@, p.v)]
  BY DEF ParsingStep
<1> HIDE DEF p, u
<1>5. CASE ~p.ok \/ p.v.type \notin t.types
  <2>1. u = [t EXCEPT !.ok = FALSE, !.s = <<>>]
    BY <1>4, <1>5
  <2>2. u \in Parsings /\ u.ok = FALSE /\ u.types = t.types /\ u.s = <<>>
    BY <1>1, <1>3, <2>1 DEF Parsings
  <2>3. Len(t.s) \in Nat
    BY <1>1, Lens
  <2> QED
    BY <1>1, <1>2, <1>3, <1>5, <2>2, <2>3 DEF p, u
<1>6. CASE p.ok /\ p.v.type \in t.types
  <2>1. u = [t EXCEPT !.s = p.rest, !.due = @ - 1 + p.v.size, !.seen = Append(@, p.v)]
    BY <1>4, <1>6
  <2>2. p.rest \in Bytes /\ p.v \in Nodes(Bytes) /\ p.v.size \in Nat
    BY <1>2, <1>6 DEF Nodes
  <2> DEFINE S == Nodes(Bytes)
             seen == Append(t.seen, p.v)
             due == t.due - 1 + p.v.size
  <2>3. seen \in Seq(S)
    <3>1. t.seen \in Seq(S) /\ p.v \in S
      BY <1>1, <2>2
    <3> HIDE DEF S
    <3> QED
      BY <3>1, AppendProperties
  <2>4. due \in Nat
    BY <1>1, <2>2
  <2>5. u = [t EXCEPT !.s = p.rest, !.due = due, !.seen = seen]
    BY <2>1
  <2> HIDE DEF seen, due
  <2>6. /\ u \in Parsings /\ u.ok = TRUE /\ u.s = p.rest /\ u.due = due /\ u.seen = seen
        /\ u.types = t.types
    BY <1>1, <2>2, <2>3, <2>4, <2>5 DEF Parsings, S
  <2>7. Len(t.s) \in Nat /\ Len(p.rest) \in Nat
    BY <1>1, <2>2, Lens
  <2> QED
    BY <1>1, <1>2, <1>6, <2>2, <2>6, <2>7 DEF p, u, due, seen
<1> QED
  BY <1>2, <1>5, <1>6

(* Each node makes the stream shorter.                                     *)
LEMMA ParsingDescends == Parsing!Descends
<1> SUFFICES ASSUME NEW t \in Parsings
             PROVE  /\ ParsingRank(t) \in Nat
                    /\ ~ ParsingDone(t) =>
                         ParsingStep(t) \in Parsings /\ ParsingRank(ParsingStep(t)) < ParsingRank(t)
  BY DEF Parsing!Descends
<1>1. t.s \in Bytes /\ Len(t.s) \in Nat
  <2>1. t.s \in Bytes
    BY DEF Parsings
  <2> QED
    BY <2>1, Lens
<1>2. ASSUME ~ ParsingDone(t)
      PROVE  ParsingStep(t) \in Parsings /\ ParsingRank(ParsingStep(t)) < ParsingRank(t)
  <2> DEFINE u == ParsingStep(t)
  <2>1. /\ u \in Parsings /\ u.ok \in BOOLEAN /\ t.ok
        /\ u.ok => Len(u.s) < Len(t.s)
        /\ Len(u.s) \in Nat
    BY <1>2, ParsesOn
  <2> HIDE DEF u
  <2>2. ParsingRank(u) < ParsingRank(t)
    BY <1>1, <2>1 DEF ParsingRank
  <2> QED
    BY <2>1, <2>2 DEF u
<1> QED
  BY <1>1, <1>2 DEF ParsingRank

(* ElementsAt is what its recursion computes.                              *)
LEMMA ElementsAtUnfolds ==
    /\ ElementsAt = [t \in Parsings |-> Parsing!Value(ElementsAt, t)]
    /\ \A t \in Parsings : ElementsAt[t] =
          IF ParsingDone(t) THEN ParsingOut(t) ELSE ElementsAt[ParsingStep(t)]
<1>1. \E f : f = [t \in Parsings |-> Parsing!Value(f, t)]
  BY ParsingDescends, Parsing!Exists
<1>2. \E f : f = [t \in Parsings |->
          IF ParsingDone(t) THEN ParsingOut(t) ELSE f[ParsingStep(t)]]
  BY <1>1 DEF Parsing!Value, SlicingMore
<1>3. ElementsAt = [t \in Parsings |->
          IF ParsingDone(t) THEN ParsingOut(t) ELSE ElementsAt[ParsingStep(t)]]
  BY <1>2 DEF ElementsAt
<1>4. ElementsAt = [t \in Parsings |-> Parsing!Value(ElementsAt, t)]
  BY <1>3 DEF Parsing!Value, SlicingMore
<1>5. \A t \in Parsings : ElementsAt[t] =
          IF ParsingDone(t) THEN ParsingOut(t) ELSE ElementsAt[ParsingStep(t)]
  BY <1>3
<1> QED
  BY <1>4, <1>5

(* What ElementsAt says of a stream are nodes and a stream no longer.      *)
LEMMA ElementsTyped == \A t \in Parsings : Parsed(t, ElementsAt[t])
<1>1. ASSUME NEW t \in Parsings, ParsingDone(t) PROVE Parsed(t, ParsingOut(t))
  <2>1. t.ok \in BOOLEAN /\ t.s \in Bytes /\ t.seen \in Seq(Nodes(Bytes)) /\ Len(t.s) \in Nat
    <3>1. t.s \in Bytes
      BY DEF Parsings
    <3> QED
      BY <3>1, Lens DEF Parsings
  <2> QED
    BY <1>1, <2>1 DEF ParsingDone, ParsingOut, Parsed, None
<1>2. ASSUME NEW t \in Parsings, NEW p, ~ ParsingDone(t), Parsed(ParsingStep(t), p)
      PROVE  Parsed(t, SlicingMore(t, p))
  <2> DEFINE u == ParsingStep(t)
  <2>1. /\ u \in Parsings /\ u.ok \in BOOLEAN /\ t.ok
        /\ u.ok => Len(u.s) < Len(t.s)
        /\ Len(u.s) \in Nat /\ Len(t.s) \in Nat
    BY <1>2, ParsesOn
  <2>2. Parsed(u, p)
    BY <1>2
  <2> HIDE DEF u
  <2>3. p.ok => Len(p.rest) \in Nat
    BY <2>2, Lens DEF Parsed
  <2>4. Parsed(t, p)
    BY <2>1, <2>2, <2>3 DEF Parsed
  <2> QED
    BY <2>4 DEF SlicingMore
<1>3. ElementsAt = [t \in Parsings |-> Parsing!Value(ElementsAt, t)]
  BY ElementsAtUnfolds
<1> QED
  BY <1>1, <1>2, <1>3, ParsingDescends, Parsing!Reaches

WithMore(t, x) == [t EXCEPT !.s = @ \o x]
ParsedMore(t, p) ==
    /\ t.ok => \A x \in Bytes : Extends(p, ElementsAt[WithMore(t, x)], x)
    /\ p.ok => t.ok

ParsingOfMore == INSTANCE Recursion
    WITH States <- Parsings, Rank <- ParsingRank, Done <- ParsingDone, Out <- ParsingOut,
         Step <- ParsingStep, More <- SlicingMore, Good <- ParsedMore

(* A parse of more bytes.                                                  *)
LEMMA WithMoreTyped ==
    ASSUME NEW t \in Parsings, NEW x \in Bytes
    PROVE  /\ WithMore(t, x) \in Parsings
           /\ WithMore(t, x).ok = t.ok /\ WithMore(t, x).due = t.due
           /\ WithMore(t, x).types = t.types /\ WithMore(t, x).seen = t.seen
           /\ WithMore(t, x).s = t.s \o x
<1>1. t.s \in Bytes
  BY DEF Parsings
<1> DEFINE y == t.s \o x
<1>2. y \in Bytes
  BY <1>1, Joined
<1>3. WithMore(t, x) = [t EXCEPT !.s = y]
  BY DEF WithMore
<1> HIDE DEF y
<1>4. [t EXCEPT !.s = y] \in Parsings
  BY <1>2 DEF Parsings
<1> QED
  BY <1>3, <1>4 DEF y, Parsings

(* The nodes that were read are the same when more bytes follow.           *)
LEMMA ElementsOfMore ==
    ASSUME NEW t \in Parsings, NEW x \in Bytes, t.ok
    PROVE  Extends(ElementsAt[t], ElementsAt[WithMore(t, x)], x)
<1>1. ASSUME NEW u \in Parsings, ParsingDone(u) PROVE ParsedMore(u, ParsingOut(u))
  <2>0. ParsingOut(u).ok => u.ok
    BY DEF ParsingOut, None
  <2> SUFFICES ASSUME u.ok, NEW y \in Bytes
               PROVE  Extends(ParsingOut(u), ElementsAt[WithMore(u, y)], y)
    BY <2>0 DEF ParsedMore
  <2> DEFINE w == WithMore(u, y)
  <2>1. w \in Parsings /\ w.ok = u.ok /\ w.due = u.due /\ w.seen = u.seen /\ w.s = u.s \o y
    BY WithMoreTyped
  <2> HIDE DEF w
  <2>2. ParsingDone(w)
    BY <1>1, <2>1 DEF ParsingDone
  <2>3. ElementsAt[w] = ParsingOut(w)
    BY <2>1, <2>2, ElementsAtUnfolds
  <2>4. Extends(ParsingOut(u), ElementsAt[w], y)
    BY <2>1, <2>3 DEF ParsingOut, Extends
  <2> QED
    BY <2>4 DEF w
<1>2. ASSUME NEW u \in Parsings, NEW p, ~ ParsingDone(u), ParsedMore(ParsingStep(u), p)
      PROVE  ParsedMore(u, SlicingMore(u, p))
  <2>0. u.ok
    BY <1>2, ParsesOn
  <2> SUFFICES ASSUME p.ok, NEW y \in Bytes
               PROVE  Extends(p, ElementsAt[WithMore(u, y)], y)
    BY <2>0 DEF ParsedMore, SlicingMore, Extends
  <2> DEFINE n == NodeAt(u.s)
             v == ParsingStep(u)
             w == WithMore(u, y)
             m == NodeAt(w.s)
             z == ParsingStep(w)
  <2>1. /\ v \in Parsings /\ v.ok \in BOOLEAN /\ u.ok
        /\ n.ok \in BOOLEAN
        /\ (v.ok <=> n.ok /\ n.v.type \in u.types)
        /\ v.types = u.types
        /\ v.ok => /\ v.s = n.rest /\ v.due = u.due - 1 + n.v.size
                   /\ v.seen = Append(u.seen, n.v)
        /\ u.s \in Bytes
    BY <1>2, ParsesOn
  <2>2. /\ w \in Parsings /\ w.ok = u.ok /\ w.due = u.due /\ w.types = u.types
        /\ w.seen = u.seen /\ w.s = u.s \o y
    BY WithMoreTyped
  <2>3. ~ ParsingDone(w)
    BY <1>2, <2>2 DEF ParsingDone
  <2>4. /\ z \in Parsings /\ z.ok \in BOOLEAN
        /\ m.ok \in BOOLEAN
        /\ (z.ok <=> m.ok /\ m.v.type \in w.types)
        /\ z.types = w.types
        /\ z.ok => /\ z.s = m.rest /\ z.due = w.due - 1 + m.v.size
                   /\ z.seen = Append(w.seen, m.v)
    <3> HIDE DEF w
    <3> QED
      BY <2>2, <2>3, ParsesOn
  <2>5. Extends(n, m, y)
    BY <2>1, <2>2, NodeOfMore
  <2>6. ElementsAt[w] = ElementsAt[z]
    BY <2>2, <2>3, ElementsAtUnfolds
  <2>7. ParsedMore(v, p)
    BY <1>2
  <2> HIDE DEF v, n, m, z, w
  <2>8. CASE v.ok
    <3>1. n.ok /\ m.ok /\ m.v = n.v /\ m.rest = n.rest \o y
      BY <2>1, <2>5, <2>8 DEF Extends
    <3>2. z.ok /\ z.s = v.s \o y /\ z.due = v.due /\ z.types = v.types /\ z.seen = v.seen
      BY <2>1, <2>2, <2>4, <2>8, <3>1
    <3>3. /\ WithMore(v, y) \in Parsings
          /\ WithMore(v, y).ok = v.ok /\ WithMore(v, y).due = v.due
          /\ WithMore(v, y).types = v.types /\ WithMore(v, y).seen = v.seen
          /\ WithMore(v, y).s = v.s \o y
      BY <2>1, WithMoreTyped
    <3> DEFINE a == WithMore(v, y)
    <3>4. /\ a \in Parsings /\ z \in Parsings /\ a.ok = z.ok /\ a.due = z.due
          /\ a.types = z.types /\ a.seen = z.seen /\ a.s = z.s
      BY <2>1, <2>4, <2>8, <3>2, <3>3
    <3> HIDE DEF a
    <3>5. a = z
      BY <3>4 DEF Parsings
    <3>6. Extends(p, ElementsAt[WithMore(v, y)], y)
      BY <2>7, <2>8 DEF ParsedMore
    <3> QED
      BY <2>6, <3>5, <3>6 DEF a, w
  <2>9. CASE ~ v.ok
    BY <2>7, <2>9 DEF ParsedMore
  <2> QED
    BY <2>1, <2>8, <2>9
<1>3. ElementsAt = [u \in Parsings |-> ParsingOfMore!Value(ElementsAt, u)]
  BY ElementsAtUnfolds DEF ParsingOfMore!Value, SlicingMore
<1>4. ParsingOfMore!Descends
  BY ParsingDescends DEF Parsing!Descends, ParsingOfMore!Descends
<1>5. \A u \in Parsings : ParsedMore(u, ElementsAt[u])
  BY <1>1, <1>2, <1>3, <1>4, ParsingOfMore!Reaches
<1> QED
  BY <1>5 DEF ParsedMore

Sound(t) == (t.ok => ~t.b.err) /\ AllUsed(t.b, t.nodes)
Abstract(t) ==
    [ok |-> t.ok, s |-> IF t.ok THEN Stream(t.b) ELSE <<>>, due |-> t.due,
     types |-> t.types, seen |-> Seen(t.b, t.nodes)]

ElementsDone(t) == ~t.ok \/ t.due = 0
ElementsOut(t) == IF t.ok THEN Ok(t.b, t.nodes) ELSE Fail(t.b)
ElementsStep(t) == WithNode(t, decodeNode(t.b))
ElementsRank(t) == IF t.ok THEN 1 + Len(Stream(t.b)) ELSE 0
DecodesAll(b, r, p) ==
    /\ Decodes(b, r, p)
    /\ r.ok => r.v \in Seq(Nodes(Slices)) /\ AllUsed(r.b, r.v) /\ Seen(r.b, r.v) = p.v
ElementsDecoded(t, r) == Sound(t) => DecodesAll(t.b, r, ElementsAt[Abstract(t)])

Descending == INSTANCE Recursion
    WITH States <- Decoding, Rank <- ElementsRank, Done <- ElementsDone, Out <- ElementsOut,
         Step <- ElementsStep, More <- SlicingMore, Good <- ElementsDecoded

(* What Elements works on.                                                 *)
LEMMA DecodingTyped ==
    ASSUME NEW t \in Decoding
    PROVE  /\ t.b \in Reader /\ t.b.err \in BOOLEAN /\ t.ok \in BOOLEAN /\ t.due \in Nat
           /\ t.types \in SUBSET Types /\ t.nodes \in Seq(Nodes(Slices))
           /\ Stream(t.b) \in Bytes /\ Len(Stream(t.b)) \in Nat
<1>1. /\ t.b \in Reader /\ t.ok \in BOOLEAN /\ t.due \in Nat
      /\ t.types \in SUBSET Types /\ t.nodes \in Seq(Nodes(Slices))
  BY DEF Decoding
<1>2. t.b.err \in BOOLEAN /\ Stream(t.b) \in Bytes
  BY <1>1, ReaderTyped
<1>3. Len(Stream(t.b)) \in Nat
  BY <1>2, Lens
<1> QED
  BY <1>1, <1>2, <1>3

(* What a decoding is to the stream is a parse.                            *)
LEMMA AbstractTyped ==
    ASSUME NEW t \in Decoding, Sound(t)
    PROVE  Abstract(t) \in Parsings
<1>1. /\ t.b \in Reader /\ t.ok \in BOOLEAN /\ t.due \in Nat
      /\ t.types \in SUBSET Types /\ t.nodes \in Seq(Nodes(Slices))
      /\ Stream(t.b) \in Bytes
  BY DecodingTyped
<1>2. <<>> \in Bytes
  BY EmptySeq DEF Bytes
<1>3. AllUsed(t.b, t.nodes)
  BY DEF Sound
<1>4. Seen(t.b, t.nodes) \in Seq(Nodes(Bytes))
  BY <1>1, <1>3, SeenTyped
<1> DEFINE s == IF t.ok THEN Stream(t.b) ELSE <<>>
           x == Seen(t.b, t.nodes)
<1>5. s \in Bytes /\ x \in Seq(Nodes(Bytes))
  BY <1>1, <1>2, <1>4
<1>6. Abstract(t) = [ok |-> t.ok, s |-> s, due |-> t.due, types |-> t.types, seen |-> x]
  BY DEF Abstract
<1> HIDE DEF s, x
<1> QED
  BY <1>1, <1>5, <1>6 DEF Parsings

(* A node that is decoded is one step of the parse, and what was decoded   *)
(* keeps its memory.                                                       *)
LEMMA ElementsOn ==
    ASSUME NEW t \in Decoding, ~ ElementsDone(t)
    PROVE  LET u == ElementsStep(t)
           IN  /\ u \in Decoding /\ Keeps(t.b, u.b)
               /\ u.ok => Len(Stream(u.b)) < Len(Stream(t.b))
               /\ Sound(t) => Sound(u) /\ Abstract(u) = ParsingStep(Abstract(t))
<1> DEFINE b == t.b
           r == decodeNode(b)
           p == NodeAt(Stream(b))
           u == ElementsStep(t)
<1>1. /\ b \in Reader /\ b.err \in BOOLEAN /\ t.ok = TRUE /\ t.due \in Nat /\ t.due > 0
      /\ t.types \in SUBSET Types /\ t.nodes \in Seq(Nodes(Slices))
      /\ Stream(b) \in Bytes /\ Len(Stream(b)) \in Nat
  BY DecodingTyped DEF ElementsDone
<1>2. /\ Decodes(b, r, p)
      /\ r.ok => /\ r.v \in Nodes(Slices) /\ Used(r.b, r.v.value) /\ Look(r.b, r.v) = p.v
  BY <1>1, NodeDecodes
<1>3. /\ p.ok \in BOOLEAN
      /\ p.ok => /\ p.rest \in Bytes /\ Len(p.rest) < Len(Stream(b)) /\ p.v \in Nodes(Bytes)
  BY <1>1, NodeTyped
<1>4. u = IF ~r.ok \/ r.v.type \notin t.types THEN [t EXCEPT !.b = r.b, !.ok = FALSE]
          ELSE [t EXCEPT !.b = r.b, !.due = @ - 1 + r.v.size, !.nodes = Append(@, r.v)]
  BY DEF ElementsStep, WithNode
<1>5. ParsingStep(Abstract(t)) =
        LET a == Abstract(t)
        IN  IF ~p.ok \/ p.v.type \notin t.types THEN [a EXCEPT !.ok = FALSE, !.s = <<>>]
            ELSE [a EXCEPT !.s = p.rest, !.due = @ - 1 + p.v.size, !.seen = Append(@, p.v)]
  <2> DEFINE a == Abstract(t)
  <2>1. a.s = Stream(b) /\ a.types = t.types
    BY <1>1 DEF Abstract
  <2> QED
    BY <2>1 DEF ParsingStep
<1>6. r.ok => p.ok /\ p.v.type = r.v.type /\ p.v.size = r.v.size
  <2>1. r.ok => p.ok /\ p.v = [r.v EXCEPT !.value = BytesOf(r.b, r.v.value)] /\ r.v \in Nodes(Slices)
    BY <1>2 DEF Decodes, Look
  <2> QED
    BY <2>1 DEF Nodes
<1>7. /\ r.b \in Reader /\ Keeps(b, r.b) /\ r.ok \in BOOLEAN /\ (r.ok <=> ~ b.err /\ p.ok)
      /\ r.ok => ~ r.b.err /\ Stream(r.b) = p.rest
  BY <1>2 DEF Decodes
<1> HIDE DEF r, p, u
<1>8. ASSUME Sound(t) PROVE AllUsed(r.b, t.nodes) /\ Seen(r.b, t.nodes) = Seen(b, t.nodes)
  <2>1. AllUsed(b, t.nodes)
    BY <1>8 DEF Sound
  <2> HIDE DEF b
  <2> QED
    BY <1>1, <1>7, <2>1, SeenKept
<1>9. CASE ~r.ok \/ r.v.type \notin t.types
  <2>1. u = [t EXCEPT !.b = r.b, !.ok = FALSE]
    BY <1>4, <1>9
  <2>2. u \in Decoding /\ u.ok = FALSE /\ u.b = r.b /\ u.due = t.due /\ u.types = t.types /\ u.nodes = t.nodes
    BY <1>1, <1>7, <2>1 DEF Decoding
  <2>3. ASSUME Sound(t) PROVE Sound(u) /\ Abstract(u) = ParsingStep(Abstract(t))
    <3>1. ~ b.err
      BY <1>1, <2>3 DEF Sound
    <3>2. ~p.ok \/ p.v.type \notin t.types
      BY <1>6, <1>7, <1>9, <3>1
    <3>3. Sound(u)
      BY <1>8, <2>2, <2>3 DEF Sound
    <3>4. ParsingStep(Abstract(t)) = [Abstract(t) EXCEPT !.ok = FALSE, !.s = <<>>]
      BY <1>5, <3>2
    <3>5. Seen(u.b, u.nodes) = Seen(t.b, t.nodes)
      BY <1>8, <2>2, <2>3
    <3>6. Abstract(u) = [ok |-> FALSE, s |-> <<>>, due |-> t.due,
                         types |-> t.types, seen |-> Seen(t.b, t.nodes)]
      BY <2>2, <3>5 DEF Abstract
    <3> QED
      BY <3>3, <3>4, <3>6 DEF Abstract
  <2> QED
    BY <1>7, <2>2, <2>3 DEF u, b
<1>10. CASE r.ok /\ r.v.type \in t.types
  <2> DEFINE nodes == Append(t.nodes, r.v)
             due == t.due - 1 + r.v.size
  <2>1. u = [t EXCEPT !.b = r.b, !.due = due, !.nodes = nodes]
    BY <1>4, <1>10
  <2>2. due \in Nat
    BY <1>1, <1>2, <1>10 DEF Nodes
  <2>3. nodes \in Seq(Nodes(Slices))
    <3> DEFINE S == Nodes(Slices)
    <3>1. t.nodes \in Seq(S) /\ r.v \in S
      BY <1>1, <1>2, <1>10
    <3> HIDE DEF S
    <3>2. nodes \in Seq(S)
      BY <3>1, AppendProperties
    <3> QED
      BY <3>2 DEF S
  <2> HIDE DEF nodes, due
  <2>4. u \in Decoding /\ u.ok = TRUE /\ u.b = r.b /\ u.due = due /\ u.types = t.types /\ u.nodes = nodes
    BY <1>1, <1>7, <2>1, <2>2, <2>3 DEF Decoding
  <2>5. Len(Stream(u.b)) < Len(Stream(b))
    BY <1>3, <1>7, <1>10, <2>4
  <2>6. ASSUME Sound(t) PROVE Sound(u) /\ Abstract(u) = ParsingStep(Abstract(t))
    <3>1. /\ r.b \in Reader /\ t.nodes \in Seq(Nodes(Slices)) /\ AllUsed(r.b, t.nodes)
          /\ r.v \in Nodes(Slices) /\ Used(r.b, r.v.value)
      BY <1>1, <1>2, <1>7, <1>8, <1>10, <2>6
    <3> DEFINE c == r.b
               n == r.v
               v == t.nodes
    <3>2. /\ AllUsed(r.b, nodes)
          /\ Seen(r.b, nodes) = Append(Seen(r.b, t.nodes), Look(r.b, r.v))
      <4>1. /\ c \in Reader /\ v \in Seq(Nodes(Slices)) /\ AllUsed(c, v)
            /\ n \in Nodes(Slices) /\ Used(c, n.value)
        BY <3>1
      <4> HIDE DEF c, n, v
      <4>2. AllUsed(c, Append(v, n)) /\ Seen(c, Append(v, n)) = Append(Seen(c, v), Look(c, n))
        BY <4>1, SeenMore
      <4> QED
        BY <4>2 DEF c, n, v, nodes
    <3>3. Seen(r.b, nodes) = Append(Seen(b, t.nodes), p.v)
      BY <1>2, <1>8, <1>10, <2>6, <3>2
    <3>4. Sound(u)
      BY <1>7, <1>10, <2>4, <3>2 DEF Sound
    <3>5. p.ok /\ p.v.type \in t.types /\ p.v.size = r.v.size
      BY <1>6, <1>10
    <3>6. ParsingStep(Abstract(t)) =
             [Abstract(t) EXCEPT !.s = p.rest, !.due = @ - 1 + p.v.size, !.seen = Append(@, p.v)]
      BY <1>5, <3>5
    <3>7. Abstract(u) = [ok |-> TRUE, s |-> p.rest, due |-> due, types |-> t.types,
                         seen |-> Append(Seen(b, t.nodes), p.v)]
      BY <1>7, <1>10, <2>4, <3>3 DEF Abstract
    <3>8. Abstract(t) = [ok |-> TRUE, s |-> Stream(b), due |-> t.due, types |-> t.types,
                         seen |-> Seen(b, t.nodes)]
      BY <1>1 DEF Abstract
    <3> DEFINE x == Append(Seen(b, t.nodes), p.v)
               y == Seen(b, t.nodes)
    <3>9. due = t.due - 1 + p.v.size
      BY <3>5 DEF due
    <3> HIDE DEF b
    <3>10. ParsingStep(Abstract(t)) = [ok |-> TRUE, s |-> p.rest, due |-> due, types |-> t.types,
                                       seen |-> x]
      <4> DEFINE a == Abstract(t)
                 k == a.due - 1 + p.v.size
                 z == Append(a.seen, p.v)
                 w == Seen(b, t.nodes)
      <4>1. k = due /\ z = x
        BY <3>8, <3>9
      <4>2. ParsingStep(a) = [a EXCEPT !.s = p.rest, !.due = k, !.seen = z]
        BY <3>6
      <4>3. a = [ok |-> TRUE, s |-> Stream(b), due |-> t.due, types |-> t.types, seen |-> w]
        BY <3>8
      <4> HIDE DEF a, k, z, w, x
      <4>4. ParsingStep(a) = [ok |-> TRUE, s |-> p.rest, due |-> due, types |-> t.types, seen |-> x]
        BY <4>1, <4>2, <4>3
      <4> QED
        BY <4>4 DEF a
    <3> QED
      BY <3>4, <3>7, <3>10
  <2> QED
    BY <1>7, <2>4, <2>5, <2>6 DEF u, b
<1> QED
  BY <1>7, <1>9, <1>10

(* Each node that is decoded makes the stream shorter.                     *)
LEMMA ElementsDescend == Descending!Descends
<1> SUFFICES ASSUME NEW t \in Decoding
             PROVE  /\ ElementsRank(t) \in Nat
                    /\ ~ ElementsDone(t) =>
                         ElementsStep(t) \in Decoding /\ ElementsRank(ElementsStep(t)) < ElementsRank(t)
  BY DEF Descending!Descends
<1>1. t.ok \in BOOLEAN /\ Len(Stream(t.b)) \in Nat
  BY DecodingTyped
<1>2. ASSUME ~ ElementsDone(t)
      PROVE  ElementsStep(t) \in Decoding /\ ElementsRank(ElementsStep(t)) < ElementsRank(t)
  <2> DEFINE u == ElementsStep(t)
  <2>1. /\ u \in Decoding /\ (u.ok => Len(Stream(u.b)) < Len(Stream(t.b)))
    BY <1>2, ElementsOn
  <2>2. t.ok
    BY <1>2 DEF ElementsDone
  <2> HIDE DEF u
  <2>3. u.ok \in BOOLEAN /\ Len(Stream(u.b)) \in Nat
    BY <2>1, DecodingTyped
  <2>4. ElementsRank(u) < ElementsRank(t)
    BY <1>1, <2>1, <2>2, <2>3 DEF ElementsRank
  <2> QED
    BY <2>1, <2>4 DEF u
<1> QED
  BY <1>1, <1>2 DEF ElementsRank

(* Elements is what its recursion computes.                                *)
LEMMA ElementsUnfold == Elements = [t \in Decoding |-> Descending!Value(Elements, t)]
<1>1. \E f : f = [t \in Decoding |-> Descending!Value(f, t)]
  BY ElementsDescend, Descending!Exists
<1>2. \A f : \A t \in Decoding :
          Descending!Value(f, t) =
             CASE ~t.ok -> Fail(t.b)
               [] t.ok /\ t.due = 0 -> Ok(t.b, t.nodes)
               [] OTHER -> f[WithNode(t, decodeNode(t.b))]
  <2> SUFFICES ASSUME NEW f, NEW t \in Decoding
               PROVE  Descending!Value(f, t) =
                         CASE ~t.ok -> Fail(t.b)
                           [] t.ok /\ t.due = 0 -> Ok(t.b, t.nodes)
                           [] OTHER -> f[WithNode(t, decodeNode(t.b))]
    OBVIOUS
  <2>1. t.ok \in BOOLEAN
    BY DecodingTyped
  <2> QED
    BY <2>1 DEF Descending!Value, ElementsDone, ElementsOut, ElementsStep, SlicingMore
<1>3. \E f : f = [t \in Decoding |->
             CASE ~t.ok -> Fail(t.b)
               [] t.ok /\ t.due = 0 -> Ok(t.b, t.nodes)
               [] OTHER -> f[WithNode(t, decodeNode(t.b))]]
  BY <1>1, <1>2
<1>4. Elements = [t \in Decoding |->
             CASE ~t.ok -> Fail(t.b)
               [] t.ok /\ t.due = 0 -> Ok(t.b, t.nodes)
               [] OTHER -> Elements[WithNode(t, decodeNode(t.b))]]
  BY <1>3 DEF Elements
<1> QED
  BY <1>2, <1>4

(* The decoder's descent decodes what the parse says of the stream         *)
(* (decoder.go 118-207).                                                   *)
LEMMA ElementsDecode == \A t \in Decoding : ElementsDecoded(t, Elements[t])
<1>1. ASSUME NEW t \in Decoding, ElementsDone(t) PROVE ElementsDecoded(t, ElementsOut(t))
  <2> SUFFICES ASSUME Sound(t) PROVE DecodesAll(t.b, ElementsOut(t), ElementsAt[Abstract(t)])
    BY DEF ElementsDecoded
  <2> DEFINE a == Abstract(t)
             r == ElementsOut(t)
             p == ElementsAt[a]
  <2>1. /\ t.b \in Reader /\ t.b.err \in BOOLEAN /\ t.ok \in BOOLEAN
        /\ t.nodes \in Seq(Nodes(Slices))
    BY DecodingTyped
  <2>2. a \in Parsings /\ ParsingDone(a) /\ a.ok = t.ok
    <3>1. ParsingDone(a) /\ a.ok = t.ok
      BY <1>1 DEF ParsingDone, ElementsDone, Abstract
    <3> QED
      BY <3>1, AbstractTyped
  <2>3. p = ParsingOut(a)
    BY <2>2, ElementsAtUnfolds
  <2>4. Keeps(t.b, t.b)
    BY DEF Keeps
  <2>5. CASE t.ok
    <3>1. p.ok = TRUE /\ p.nil = FALSE /\ p.v = Seen(t.b, t.nodes) /\ p.rest = Stream(t.b)
      BY <2>2, <2>3, <2>5 DEF ParsingOut, Abstract
    <3>2. r.b = t.b /\ r.ok = TRUE /\ r.nil = FALSE /\ r.v = t.nodes
      BY <2>5 DEF ElementsOut, Ok
    <3> HIDE DEF r, p
    <3>3. ~ t.b.err /\ AllUsed(t.b, t.nodes)
      BY <2>5 DEF Sound
    <3>4. DecodesAll(t.b, r, p)
      BY <2>1, <2>4, <3>1, <3>2, <3>3 DEF DecodesAll, Decodes
    <3> QED
      BY <3>4 DEF r, p
  <2>6. CASE ~ t.ok
    <3>1. p.ok = FALSE /\ r.b = t.b /\ r.ok = FALSE
      BY <2>2, <2>3, <2>6 DEF ParsingOut, None, ElementsOut, Fail
    <3> HIDE DEF r, p
    <3>2. DecodesAll(t.b, r, p)
      BY <2>1, <2>4, <3>1 DEF DecodesAll, Decodes
    <3> QED
      BY <3>2 DEF r, p
  <2> QED
    BY <2>1, <2>5, <2>6
<1>2. ASSUME NEW t \in Decoding, NEW r, ~ ElementsDone(t), ElementsDecoded(ElementsStep(t), r)
      PROVE  ElementsDecoded(t, SlicingMore(t, r))
  <2> SUFFICES ASSUME Sound(t) PROVE DecodesAll(t.b, r, ElementsAt[Abstract(t)])
    BY DEF ElementsDecoded, SlicingMore
  <2> DEFINE u == ElementsStep(t)
             p == ElementsAt[Abstract(t)]
  <2>1. u \in Decoding /\ Keeps(t.b, u.b) /\ Sound(u) /\ Abstract(u) = ParsingStep(Abstract(t))
    BY <1>2, ElementsOn
  <2>2. Abstract(t) \in Parsings /\ ~ ParsingDone(Abstract(t)) /\ Abstract(u) \in Parsings
    <3>1. ~ ParsingDone(Abstract(t))
      BY <1>2 DEF ParsingDone, ElementsDone, Abstract
    <3> HIDE DEF u
    <3> QED
      BY <2>1, <3>1, AbstractTyped
  <2>3. p = ElementsAt[Abstract(u)]
    BY <2>1, <2>2, ElementsAtUnfolds
  <2>4. DecodesAll(u.b, r, p)
    BY <1>2, <2>1, <2>3 DEF ElementsDecoded
  <2>5. t.ok /\ ~ t.b.err
    BY <1>2 DEF Sound, ElementsDone
  <2>6. p.ok => Abstract(u).ok
    <3>1. Parsed(Abstract(u), p)
      BY <2>2, <2>3, ElementsTyped
    <3> QED
      BY <3>1 DEF Parsed
  <2>7. p.ok => ~ u.b.err
    BY <2>1, <2>6 DEF Sound, Abstract
  <2> HIDE DEF u, p
  <2>8. DecodesAll(t.b, r, p)
    <3>1. Keeps(u.b, r.b)
      BY <2>4 DEF DecodesAll, Decodes
    <3>2. Keeps(t.b, r.b)
      BY <2>1, <3>1, KeptIsKept
    <3> QED
      BY <2>4, <2>5, <2>7, <3>2 DEF DecodesAll, Decodes
  <2> QED
    BY <2>8 DEF p
<1> QED
  BY <1>1, <1>2, ElementsDescend, ElementsUnfold, Descending!Reaches

-----------------------------------------------------------------------------
(* What the encoder writes of a message.                                   *)

(* A sequence is its first element and the others.                         *)
LEMMA HeadAndTail ==
    ASSUME NEW S, NEW s \in Seq(S), s # <<>>
    PROVE  /\ Head(s) \in S /\ Tail(s) \in Seq(S) /\ Len(s) \in Nat /\ Len(Tail(s)) = Len(s) - 1
           /\ Head(s) = s[1] /\ \A i \in 1..Len(Tail(s)) : Tail(s)[i] = s[i + 1]
           /\ Len(s) > 0
           /\ \A t \in Seq(S) : Append(t, Head(s)) \o Tail(s) = t \o s
<1>1. /\ Head(s) \in S /\ Tail(s) \in Seq(S) /\ Len(Tail(s)) = Len(s) - 1
      /\ \A i \in 1..Len(Tail(s)) : Tail(s)[i] = s[i + 1]
  BY HeadTailProperties
<1>2. Len(s) \in Nat \ {0}
  BY EmptySeq
<1>3. Head(s) = s[1]
  OBVIOUS
<1>4. ASSUME NEW t \in Seq(S) PROVE Append(t, Head(s)) \o Tail(s) = t \o s
  <2> DEFINE a == Append(t, s[1])
             u == Tail(s)
             l == a \o u
             r == t \o s
  <2>0. a = Append(t, Head(s))
    BY <1>3
  <2>1. /\ a \in Seq(S) /\ Len(a) = Len(t) + 1 /\ Len(t) \in Nat
        /\ \A i \in 1..Len(t) : a[i] = t[i]
        /\ a[Len(t) + 1] = s[1]
    BY <1>1, <1>3, AppendProperties, LenProperties
  <2> HIDE DEF a, u
  <2>2. u \in Seq(S) /\ Len(u) = Len(s) - 1 /\ \A i \in 1..Len(u) : u[i] = s[i + 1]
    BY <1>1 DEF u
  <2>3. /\ l \in Seq(S) /\ Len(l) = Len(a) + Len(u)
        /\ \A i \in 1..Len(a) : l[i] = a[i]
        /\ \A i \in Len(a) + 1..Len(a) + Len(u) : l[i] = u[i - Len(a)]
    <3>1. a \in Seq(S) /\ u \in Seq(S)
      BY <2>1, <2>2
    <3> QED
      BY <3>1, SeqJoined
  <2>4. /\ r \in Seq(S) /\ Len(r) = Len(t) + Len(s)
        /\ \A i \in 1..Len(t) : r[i] = t[i]
        /\ \A i \in Len(t) + 1..Len(t) + Len(s) : r[i] = s[i - Len(t)]
    BY SeqJoined
  <2> HIDE DEF l, r
  <2>5. Len(l) = Len(r) /\ Len(r) = Len(t) + Len(s)
    BY <1>2, <2>1, <2>2, <2>3, <2>4
  <2>6. ASSUME NEW i \in 1..Len(t) + Len(s) PROVE l[i] = r[i]
    <3>1. CASE i <= Len(t)
      <4>1. i \in 1..Len(t) /\ i \in 1..Len(a)
        BY <1>2, <2>1, <3>1
      <4> QED
        BY <2>1, <2>3, <2>4, <4>1
    <3>2. CASE i = Len(t) + 1
      <4>1. i \in 1..Len(a) /\ i \in Len(t) + 1..Len(t) + Len(s) /\ i - Len(t) = 1
        BY <1>2, <2>1, <3>2
      <4> QED
        BY <2>1, <2>3, <2>4, <3>2, <4>1
    <3>3. CASE i > Len(t) + 1
      <4> DEFINE k == i - Len(a)
      <4>1. /\ i \in Len(a) + 1..Len(a) + Len(u) /\ i \in Len(t) + 1..Len(t) + Len(s)
            /\ k \in 1..Len(u) /\ k + 1 = i - Len(t)
        BY <1>2, <2>1, <2>2, <3>3
      <4>2. l[i] = u[k] /\ r[i] = s[i - Len(t)] /\ u[k] = s[k + 1]
        BY <2>2, <2>3, <2>4, <4>1
      <4> QED
        BY <4>1, <4>2
    <3> QED
      BY <2>1, <3>1, <3>2, <3>3
  <2>7. l = r
    BY <2>3, <2>4, <2>5, <2>6, SeqEqual
  <2> QED
    BY <2>0, <2>7 DEF l, r, u
<1> QED
  BY <1>1, <1>2, <1>3, <1>4

(* The bytes of a node.                                                    *)
LEMMA EncNodeTyped ==
    ASSUME NEW r \in Nodes(Bytes)
    PROVE  EncNode(r) \in Bytes /\ EncBody(r) \in Bytes /\ Len(EncNode(r)) > 0
<1>1. /\ r.type \in Byte /\ r.value \in Bytes /\ r.size \in Nat /\ r.nil \in BOOLEAN
  BY CodecAssumption DEF Nodes
<1>2. Len(r.value) \in Nat /\ CRLF \in Bytes /\ -1 \in Int
  BY <1>1, Lens, CRLFTyped
<1>3. \A i \in Int : EncInt(i) \in Bytes
  BY <1>2, Formatted, Joined DEF EncInt
<1>4. EncText(r.value) \in Bytes
  BY <1>1, <1>2, Joined DEF EncText
<1>5. EncInt(Len(r.value)) \in Bytes /\ EncInt(-1) \in Bytes /\ EncInt(r.size) \in Bytes
  BY <1>1, <1>2, <1>3
<1>6. EncInt(Len(r.value)) \o EncText(r.value) \in Bytes
  BY <1>4, <1>5, Joined
<1>7. EncBody(r) \in Bytes
  BY <1>4, <1>5, <1>6 DEF EncBody
<1>8. <<r.type>> \in Bytes /\ Len(<<r.type>>) = 1
  BY <1>1, Ones
<1>9. EncNode(r) \in Bytes /\ Len(EncNode(r)) = 1 + Len(EncBody(r)) /\ Len(EncBody(r)) \in Nat
  <2> DEFINE x == <<r.type>>
             y == EncBody(r)
  <2>1. x \in Bytes /\ y \in Bytes /\ Len(x) = 1
    BY <1>7, <1>8
  <2>2. EncNode(r) = x \o y
    BY DEF EncNode
  <2> HIDE DEF x, y
  <2>3. x \o y \in Bytes /\ Len(x \o y) = Len(x) + Len(y) /\ Len(y) \in Nat
    <3>1. x \in Bytes /\ y \in Bytes
      BY <2>1
    <3> QED
      BY <3>1, Joined
  <2>4. x \o y \in Bytes /\ Len(x \o y) = 1 + Len(y) /\ Len(y) \in Nat
    BY <2>1, <2>3
  <2> QED
    BY <2>2, <2>4 DEF y
<1> QED
  BY <1>7, <1>9

(* What the Encoder makes of nodes.                                        *)
Enc[nodes \in Seq(Nodes(Bytes))] ==
    IF nodes = <<>> THEN <<>> ELSE EncNode(Head(nodes)) \o Enc[Tail(nodes)]

EncodingDone(nodes) == nodes = <<>>
EncodingOut(nodes) == <<>>
EncodingStep(nodes) == Tail(nodes)
EncodingRank(nodes) == Len(nodes)
EncodingMore(nodes, s) == EncNode(Head(nodes)) \o s
Encoded(nodes, s) == s \in Bytes /\ (nodes # <<>> => Len(s) > 0)

Encodes == INSTANCE Recursion
    WITH States <- Seq(Nodes(Bytes)), Rank <- EncodingRank, Done <- EncodingDone,
         Out <- EncodingOut, Step <- EncodingStep, More <- EncodingMore, Good <- Encoded

(* Enc works on one node less each time.                                   *)
LEMMA EncodingDescends == Encodes!Descends
<1> DEFINE S == Nodes(Bytes)
<1> SUFFICES ASSUME NEW s \in Seq(S)
             PROVE  Len(s) \in Nat /\ (s # <<>> => Tail(s) \in Seq(S) /\ Len(Tail(s)) < Len(s))
  BY DEF Encodes!Descends, EncodingRank, EncodingDone, EncodingStep
<1> HIDE DEF S
<1>1. Len(s) \in Nat
  BY LenProperties
<1> QED
  BY <1>1, HeadAndTail

(* The bytes of a message are those of its nodes.                          *)
LEMMA EncUnfolds ==
    /\ Enc[<<>>] = <<>>
    /\ \A s \in Seq(Nodes(Bytes)) :
          /\ Enc[s] \in Bytes /\ (s # <<>> => Len(Enc[s]) > 0)
          /\ s # <<>> => Enc[s] = EncNode(Head(s)) \o Enc[Tail(s)]
<1>1. \E f : f = [s \in Seq(Nodes(Bytes)) |-> Encodes!Value(f, s)]
  BY EncodingDescends, Encodes!Exists
<1>2. \E f : f = [nodes \in Seq(Nodes(Bytes)) |->
          IF nodes = <<>> THEN <<>> ELSE EncNode(Head(nodes)) \o f[Tail(nodes)]]
  BY <1>1 DEF Encodes!Value, EncodingDone, EncodingOut, EncodingStep, EncodingMore
<1>3. Enc = [nodes \in Seq(Nodes(Bytes)) |->
          IF nodes = <<>> THEN <<>> ELSE EncNode(Head(nodes)) \o Enc[Tail(nodes)]]
  BY <1>2 DEF Enc
<1>4. Enc = [s \in Seq(Nodes(Bytes)) |-> Encodes!Value(Enc, s)]
  BY <1>3 DEF Encodes!Value, EncodingDone, EncodingOut, EncodingStep, EncodingMore
<1>5. <<>> \in Seq(Nodes(Bytes)) /\ <<>> \in Bytes
  BY EmptySeq DEF Bytes
<1>6. \A s \in Seq(Nodes(Bytes)) : EncodingDone(s) => Encoded(s, EncodingOut(s))
  BY <1>5 DEF EncodingDone, EncodingOut, Encoded
<1>7. ASSUME NEW s \in Seq(Nodes(Bytes)), NEW r, ~ EncodingDone(s), Encoded(EncodingStep(s), r)
      PROVE  Encoded(s, EncodingMore(s, r))
  <2> DEFINE S == Nodes(Bytes)
             x == EncNode(Head(s))
  <2>1. s \in Seq(S) /\ s # <<>> /\ r \in Bytes
    BY <1>7 DEF EncodingDone, Encoded
  <2> HIDE DEF S
  <2>2. Head(s) \in S
    BY <2>1, HeadAndTail
  <2> USE DEF S
  <2>3. x \in Bytes /\ Len(x) > 0
    BY <2>2, EncNodeTyped
  <2> HIDE DEF x
  <2>4. x \o r \in Bytes /\ Len(x \o r) = Len(x) + Len(r) /\ Len(x) \in Nat /\ Len(r) \in Nat
    BY <2>1, <2>3, Joined
  <2>5. Len(x \o r) > 0
    BY <2>3, <2>4
  <2> QED
    BY <2>4, <2>5 DEF Encoded, EncodingMore, x
<1>8. \A s \in Seq(Nodes(Bytes)) : Encoded(s, Enc[s])
  BY <1>4, <1>6, <1>7, EncodingDescends, Encodes!Reaches
<1>9. Enc[<<>>] = <<>>
  BY <1>3, <1>5
<1>10. \A s \in Seq(Nodes(Bytes)) : s # <<>> => Enc[s] = EncNode(Head(s)) \o Enc[Tail(s)]
  BY <1>3
<1> QED
  BY <1>8, <1>9, <1>10 DEF Encoded

CompletingDone(t) == t.due = 0 \/ t.nodes = <<>>
CompletingOut(t) == t.due = 0 /\ t.nodes = <<>>
CompletingStep(t) == [due |-> t.due - 1 + Head(t.nodes).size, nodes |-> Tail(t.nodes)]
CompletingRank(t) == Len(t.nodes)

(* u has before it what t is complete with.                                *)
IsBefore(t, u) ==
    /\ u.ok /\ u.due = t.due /\ u.s = Enc[t.nodes]
    /\ \A i \in 1..Len(t.nodes) : Sendable(t.nodes[i]) /\ t.nodes[i].type \in u.types
ReadsBack(t, u) ==
    LET p == ElementsAt[u]
    IN  p.ok /\ p.nil = FALSE /\ p.v = u.seen \o t.nodes /\ p.rest = <<>>
CompleteIsRead(t, c) == c => \A u \in Parsings : IsBefore(t, u) => ReadsBack(t, u)

Completes == INSTANCE Recursion
    WITH States <- Completing, Rank <- CompletingRank, Done <- CompletingDone,
         Out <- CompletingOut, Step <- CompletingStep, More <- SlicingMore,
         Good <- CompleteIsRead

(* Complete works on one node less each time.                              *)
LEMMA CompletesOn ==
    ASSUME NEW t \in Completing
    PROVE  /\ t.due \in Nat /\ t.nodes \in Seq(Nodes(Bytes)) /\ Len(t.nodes) \in Nat
           /\ ~ CompletingDone(t) =>
                 /\ CompletingStep(t) \in Completing
                 /\ Len(CompletingStep(t).nodes) = Len(t.nodes) - 1 /\ Len(t.nodes) > 0
                 /\ Head(t.nodes) = t.nodes[1] /\ Head(t.nodes) \in Nodes(Bytes)
                 /\ \A i \in 1..Len(t.nodes) - 1 : CompletingStep(t).nodes[i] = t.nodes[i + 1]
<1> DEFINE S == Nodes(Bytes)
           s == t.nodes
<1>1. t.due \in Nat /\ s \in Seq(S)
  BY DEF Completing
<1>2. Len(s) \in Nat
  <2> HIDE DEF S
  <2> QED
    BY <1>1, LenProperties
<1>3. ASSUME ~ CompletingDone(t)
      PROVE  /\ CompletingStep(t) \in Completing
             /\ Len(CompletingStep(t).nodes) = Len(t.nodes) - 1 /\ Len(t.nodes) > 0
             /\ Head(t.nodes) = t.nodes[1] /\ Head(t.nodes) \in Nodes(Bytes)
             /\ \A i \in 1..Len(t.nodes) - 1 : CompletingStep(t).nodes[i] = t.nodes[i + 1]
  <2>1. s # <<>> /\ t.due > 0
    BY <1>1, <1>3 DEF CompletingDone
  <2> HIDE DEF S, s
  <2>2. /\ Head(s) \in S /\ Tail(s) \in Seq(S) /\ Len(s) \in Nat /\ Len(Tail(s)) = Len(s) - 1
        /\ Head(s) = s[1] /\ \A i \in 1..Len(Tail(s)) : Tail(s)[i] = s[i + 1]
        /\ Len(s) > 0
    BY <1>1, <2>1, HeadAndTail
  <2> DEFINE n == t.due - 1 + Head(s).size
             r == Tail(s)
  <2>3. n \in Nat
    BY <1>1, <2>1, <2>2 DEF S, Nodes
  <2>4. CompletingStep(t) = [due |-> n, nodes |-> r]
    BY DEF CompletingStep, s
  <2> HIDE DEF n, r
  <2>5. CompletingStep(t) \in Completing
    <3>1. r \in Seq(Nodes(Bytes))
      BY <2>2 DEF r, S
    <3> QED
      BY <2>3, <2>4, <3>1 DEF Completing
  <2>6. CompletingStep(t).nodes = r
    BY <2>4
  <2> QED
    BY <2>2, <2>5, <2>6 DEF r, s, S
<1> QED
  BY <1>1, <1>2, <1>3

(* Complete ends.                                                          *)
LEMMA CompletingDescends == Completes!Descends
<1> SUFFICES ASSUME NEW t \in Completing
             PROVE  /\ Len(t.nodes) \in Nat
                    /\ ~ CompletingDone(t) =>
                         CompletingStep(t) \in Completing /\ Len(CompletingStep(t).nodes) < Len(t.nodes)
  BY DEF Completes!Descends, CompletingRank
<1> QED
  BY CompletesOn

(* Complete is what its recursion computes.                                *)
LEMMA CompleteUnfolds == Complete = [t \in Completing |-> Completes!Value(Complete, t)]
<1>1. \E f : f = [t \in Completing |-> Completes!Value(f, t)]
  BY CompletingDescends, Completes!Exists
<1>2. \E f : f = [t \in Completing |->
          IF t.due = 0 \/ t.nodes = <<>> THEN t.due = 0 /\ t.nodes = <<>>
          ELSE f[[due |-> t.due - 1 + Head(t.nodes).size, nodes |-> Tail(t.nodes)]]]
  BY <1>1 DEF Completes!Value, CompletingDone, CompletingOut, CompletingStep, SlicingMore
<1>3. Complete = [t \in Completing |->
          IF t.due = 0 \/ t.nodes = <<>> THEN t.due = 0 /\ t.nodes = <<>>
          ELSE Complete[[due |-> t.due - 1 + Head(t.nodes).size, nodes |-> Tail(t.nodes)]]]
  BY <1>2 DEF Complete
<1> QED
  BY <1>3 DEF Completes!Value, CompletingDone, CompletingOut, CompletingStep, SlicingMore

(* When nothing is due, nothing is read.                                   *)
LEMMA ReadsNone ==
    ASSUME NEW t \in Completing, t.due = 0, t.nodes = <<>>, NEW u \in Parsings, IsBefore(t, u)
    PROVE  ReadsBack(t, u)
<1>1. u.ok /\ u.due = 0 /\ u.s = <<>>
  BY EncUnfolds DEF IsBefore
<1>2. ParsingDone(u)
  BY <1>1 DEF ParsingDone
<1>3. ElementsAt[u] = ParsingOut(u)
  BY <1>2, ElementsAtUnfolds
<1>4. u.seen \o <<>> = u.seen
  BY ConcatEmptySeq DEF Parsings
<1> QED
  BY <1>1, <1>3, <1>4 DEF ParsingOut, ReadsBack

(* One node is read, and then the others.                                  *)
LEMMA ReadsOn ==
    ASSUME NEW t \in Completing, ~ CompletingDone(t), NEW u \in Parsings, IsBefore(t, u)
    PROVE  /\ ParsingStep(u) \in Parsings /\ IsBefore(CompletingStep(t), ParsingStep(u))
           /\ ReadsBack(CompletingStep(t), ParsingStep(u)) => ReadsBack(t, u)
<1> DEFINE S == Nodes(Bytes)
           s == t.nodes
           h == Head(s)
           n == CompletingStep(t)
           x == Enc[n.nodes]
           v == ParsingStep(u)
           p == NodeAt(u.s)
<1>1. /\ t.due \in Nat /\ s \in Seq(S) /\ Len(s) \in Nat /\ n \in Completing
      /\ Len(n.nodes) = Len(s) - 1 /\ Len(s) > 0 /\ h = s[1] /\ h \in S
      /\ \A i \in 1..Len(s) - 1 : n.nodes[i] = s[i + 1]
  BY CompletesOn
<1>2. s # <<>> /\ t.due > 0 /\ n.nodes = Tail(s) /\ n.due = t.due - 1 + h.size
  BY <1>1 DEF CompletingDone, CompletingStep
<1>3. /\ u.ok /\ u.due = t.due /\ u.s = Enc[s]
      /\ \A i \in 1..Len(s) : Sendable(s[i]) /\ s[i].type \in u.types
  BY DEF IsBefore
<1>4. Enc[s] = EncNode(h) \o x /\ x \in Bytes
  <2>1. n.nodes \in Seq(Nodes(Bytes))
    BY <1>1, CompletesOn
  <2> QED
    BY <1>1, <1>2, <2>1, EncUnfolds
<1>5. Sendable(h) /\ h.type \in u.types
  BY <1>1, <1>3
<1>6. EncNode(h) \in Bytes /\ NodeAt(EncNode(h)).ok /\ NodeAt(EncNode(h)).v = h
      /\ NodeAt(EncNode(h)).rest = <<>>
  <2> HIDE DEF h
  <2> QED
    BY <1>1, <1>5, NodeIsRead
<1>7. p.ok /\ p.v = h /\ p.rest = x
  <2> DEFINE e == EncNode(h)
  <2>1. u.s = e \o x /\ e \in Bytes /\ x \in Bytes
    BY <1>3, <1>4, <1>6
  <2>2. NodeAt(e).ok /\ NodeAt(e).v = h /\ NodeAt(e).rest = <<>>
    BY <1>6
  <2> HIDE DEF e, x, h
  <2>3. Extends(NodeAt(e), NodeAt(e \o x), x)
    BY <2>1, NodeOfMore
  <2>4. <<>> \o x = x
    BY <2>1, ConcatEmptySeq DEF Bytes
  <2> QED
    BY <2>1, <2>2, <2>3, <2>4 DEF Extends
<1>8. ~ ParsingDone(u)
  BY <1>1, <1>2, <1>3 DEF ParsingDone
<1>9. /\ v \in Parsings /\ (v.ok <=> p.ok /\ p.v.type \in u.types) /\ v.types = u.types
      /\ v.ok => /\ v.s = p.rest /\ v.due = u.due - 1 + p.v.size
                 /\ v.seen = Append(u.seen, p.v)
  BY <1>8, ParsesOn
<1>10. ElementsAt[u] = ElementsAt[v]
  BY <1>8, ElementsAtUnfolds
<1> HIDE DEF v, p, n, x, s, h
<1>11. /\ v.ok /\ v.s = x /\ v.due = n.due /\ v.seen = Append(u.seen, h) /\ v.types = u.types
  BY <1>2, <1>3, <1>5, <1>7, <1>9
<1>12. IsBefore(n, v)
  <2>1. ASSUME NEW i \in 1..Len(n.nodes) PROVE Sendable(n.nodes[i]) /\ n.nodes[i].type \in v.types
    <3>1. i \in 1..Len(s) - 1 /\ i + 1 \in 1..Len(s)
      BY <1>1
    <3> QED
      BY <1>1, <1>3, <1>11, <3>1
  <2> QED
    BY <1>11, <2>1 DEF IsBefore, x
<1>13. ASSUME ReadsBack(n, v) PROVE ReadsBack(t, u)
  <2>1. Append(u.seen, h) \o n.nodes = u.seen \o s
    <3> DEFINE w == u.seen
    <3>1. s \in Seq(S) /\ s # <<>> /\ w \in Seq(S)
      BY <1>1, <1>2 DEF Parsings
    <3> HIDE DEF S, w
    <3>2. Append(w, Head(s)) \o Tail(s) = w \o s
      BY <3>1, HeadAndTail
    <3> QED
      BY <1>2, <3>2 DEF w, h
  <2> QED
    BY <1>10, <1>11, <1>13, <2>1 DEF ReadsBack, s
<1> QED
  BY <1>9, <1>12, <1>13 DEF n, v

(* As many messages as are due are read of their bytes.                    *)
LEMMA ElementsAreRead ==
    ASSUME NEW t \in Completing, Complete[t], NEW u \in Parsings, IsBefore(t, u)
    PROVE  ReadsBack(t, u)
<1>1. ASSUME NEW y \in Completing, CompletingDone(y) PROVE CompleteIsRead(y, CompletingOut(y))
  BY <1>1, ReadsNone DEF CompleteIsRead, CompletingOut
<1>2. ASSUME NEW y \in Completing, NEW c, ~ CompletingDone(y), CompleteIsRead(CompletingStep(y), c)
      PROVE  CompleteIsRead(y, SlicingMore(y, c))
  BY <1>2, ReadsOn DEF CompleteIsRead, SlicingMore
<1>3. \A y \in Completing : CompleteIsRead(y, Complete[y])
  BY <1>1, <1>2, CompletingDescends, CompleteUnfolds, Completes!Reaches
<1> QED
  BY <1>3 DEF CompleteIsRead

-----------------------------------------------------------------------------
(* The decoder: words and whole messages.                                  *)

InLine(s, words) ==
    \A i \in 1..Len(words) : words[i][1] <= words[i][2] /\ words[i][2] <= Len(s)

SplittingRank(t) == Len(t.s) + 1 - t.r
SplittingDone(t) == t.r > Len(t.s)
SplittingOut(t) == t.words
WordsFound(t, words) ==
    InLine(t.s, t.words) => words \in Seq(Nat \X Nat) /\ InLine(t.s, words)

Splits == INSTANCE Recursion
    WITH States <- Splitting, Rank <- SplittingRank, Done <- SplittingDone,
         Out <- SplittingOut, Step <- AtByte, More <- SlicingMore, Good <- WordsFound

(* What Split works on.                                                    *)
LEMMA SplittingTyped ==
    ASSUME NEW t \in Splitting
    PROVE  /\ t.s \in Bytes /\ Len(t.s) \in Nat /\ t.l \in Nat /\ t.r \in Nat
           /\ t.words \in Seq(Nat \X Nat) /\ t.l <= t.r /\ t.r <= Len(t.s) + 1
<1>1. /\ t.s \in Bytes /\ t.l \in Nat /\ t.r \in Nat
      /\ t.words \in Seq(Nat \X Nat) /\ t.l <= t.r /\ t.r <= Len(t.s) + 1
  BY DEF Splitting
<1> QED
  BY <1>1, Lens

(* A word found is in the line.                                            *)
LEMMA OneMoreWord ==
    ASSUME NEW s \in Bytes, NEW words \in Seq(Nat \X Nat), NEW l \in Nat, NEW r \in Nat,
           l <= r, r <= Len(s)
    PROVE  /\ Append(words, <<l, r>>) \in Seq(Nat \X Nat)
           /\ InLine(s, words) => InLine(s, Append(words, <<l, r>>))
<1> DEFINE S == Nat \X Nat
           e == <<l, r>>
           w == Append(words, e)
           k == Len(words)
<1>1. e \in S /\ e[1] = l /\ e[2] = r
  OBVIOUS
<1> HIDE DEF S, e
<1>2. words \in Seq(S)
  BY DEF S
<1>3. /\ w \in Seq(S) /\ Len(w) = k + 1 /\ k \in Nat
      /\ \A i \in 1..k : w[i] = words[i]
      /\ w[k + 1] = e
  BY <1>1, <1>2, AppendProperties, LenProperties
<1> HIDE DEF w, k
<1>4. ASSUME InLine(s, words), NEW i \in 1..Len(w) PROVE w[i][1] <= w[i][2] /\ w[i][2] <= Len(s)
  <2>1. CASE i = k + 1
    BY <1>1, <1>3, <2>1
  <2>2. CASE i # k + 1
    <3>1. i \in 1..k
      BY <1>3, <2>2
    <3>2. words[i][1] <= words[i][2] /\ words[i][2] <= Len(s)
      BY <1>4, <3>1 DEF InLine, k
    <3> QED
      BY <1>3, <3>1, <3>2
  <2> QED
    BY <2>1, <2>2
<1> QED
  BY <1>3, <1>4 DEF InLine, w, e, S

(* Split goes on by one byte, and its words are in the line.               *)
LEMMA SplitsOn ==
    ASSUME NEW t \in Splitting, ~ SplittingDone(t)
    PROVE  /\ AtByte(t) \in Splitting /\ AtByte(t).s = t.s /\ AtByte(t).r = t.r + 1
           /\ InLine(t.s, t.words) => InLine(t.s, AtByte(t).words)
<1>1. /\ t.s \in Bytes /\ Len(t.s) \in Nat /\ t.l \in Nat /\ t.r \in Nat
      /\ t.words \in Seq(Nat \X Nat) /\ t.l <= t.r /\ t.r <= Len(t.s)
  BY SplittingTyped DEF SplittingDone
<1> DEFINE w == IF t.l = t.r THEN t.words ELSE Append(t.words, <<t.l, t.r>>)
<1>2. w \in Seq(Nat \X Nat) /\ (InLine(t.s, t.words) => InLine(t.s, w))
  <2> DEFINE s == t.s
             words == t.words
             l == t.l
             r == t.r
  <2>1. s \in Bytes /\ words \in Seq(Nat \X Nat) /\ l \in Nat /\ r \in Nat /\ l <= r /\ r <= Len(s)
    BY <1>1
  <2> HIDE DEF s, words, l, r
  <2>2. /\ Append(words, <<l, r>>) \in Seq(Nat \X Nat)
        /\ InLine(s, words) => InLine(s, Append(words, <<l, r>>))
    BY <2>1, OneMoreWord
  <2> QED
    BY <1>1, <2>2 DEF s, words, l, r
<1>3. CASE t.r < Len(t.s) /\ t.s[t.r + 1] # " "
  <2>1. AtByte(t) = [t EXCEPT !.r = t.r + 1]
    BY <1>3 DEF AtByte
  <2> DEFINE u == AtByte(t)
             k == t.r + 1
  <2>2. k \in Nat /\ t.l <= k /\ k <= Len(t.s) + 1
    BY <1>1
  <2>3. u = [t EXCEPT !.r = k]
    BY <2>1
  <2> HIDE DEF u, k
  <2>4. t \in [s : Bytes, l : Nat, r : Nat, words : Seq(Nat \X Nat)]
    BY DEF Splitting
  <2>5. /\ u \in [s : Bytes, l : Nat, r : Nat, words : Seq(Nat \X Nat)]
        /\ u.s = t.s /\ u.l = t.l /\ u.r = k /\ u.words = t.words
    BY <2>2, <2>3, <2>4
  <2>6. u \in Splitting
    BY <2>2, <2>5 DEF Splitting
  <2> QED
    BY <2>5, <2>6 DEF u, k
<1>4. CASE ~ (t.r < Len(t.s) /\ t.s[t.r + 1] # " ")
  <2>1. AtByte(t) = [t EXCEPT !.l = t.r + 1, !.r = t.r + 1, !.words = w]
    BY <1>4 DEF AtByte
  <2> DEFINE u == AtByte(t)
             k == t.r + 1
  <2>2. k \in Nat /\ k <= k /\ k <= Len(t.s) + 1
    BY <1>1
  <2>3. u = [t EXCEPT !.l = k, !.r = k, !.words = w]
    BY <2>1
  <2> HIDE DEF u, k, w
  <2>4. t \in [s : Bytes, l : Nat, r : Nat, words : Seq(Nat \X Nat)]
    BY DEF Splitting
  <2>5. /\ u \in [s : Bytes, l : Nat, r : Nat, words : Seq(Nat \X Nat)]
        /\ u.s = t.s /\ u.l = k /\ u.r = k /\ u.words = w
    BY <1>2, <2>2, <2>3, <2>4
  <2>6. u \in Splitting
    BY <2>2, <2>5 DEF Splitting
  <2> QED
    BY <1>2, <2>5, <2>6 DEF u, k
<1> QED
  BY <1>3, <1>4

(* Split ends with the line.                                               *)
LEMMA SplittingDescends == Splits!Descends
<1> SUFFICES ASSUME NEW t \in Splitting
             PROVE  /\ SplittingRank(t) \in Nat
                    /\ ~ SplittingDone(t) => AtByte(t) \in Splitting /\ SplittingRank(AtByte(t)) < SplittingRank(t)
  BY DEF Splits!Descends
<1>1. Len(t.s) \in Nat /\ t.r \in Nat /\ t.r <= Len(t.s) + 1
  BY SplittingTyped
<1>2. ~ SplittingDone(t) => AtByte(t) \in Splitting /\ AtByte(t).s = t.s /\ AtByte(t).r = t.r + 1
  BY SplitsOn
<1> QED
  BY <1>1, <1>2 DEF SplittingRank

(* Split is what its loop computes.                                        *)
LEMMA SplitUnfolds == Split = [t \in Splitting |-> Splits!Value(Split, t)]
<1>1. \E f : f = [t \in Splitting |-> Splits!Value(f, t)]
  BY SplittingDescends, Splits!Exists
<1>2. \E f : f = [t \in Splitting |-> IF t.r > Len(t.s) THEN t.words ELSE f[AtByte(t)]]
  BY <1>1 DEF Splits!Value, SplittingDone, SplittingOut, SlicingMore
<1>3. Split = [t \in Splitting |-> IF t.r > Len(t.s) THEN t.words ELSE Split[AtByte(t)]]
  BY <1>2 DEF Split
<1> QED
  BY <1>3 DEF Splits!Value, SplittingDone, SplittingOut, SlicingMore

(* The words of a line.                                                    *)
WordsIn(s) == Split[[s |-> s, l |-> 0, r |-> 0, words |-> <<>>]]

(* The words of a line are in it.                                          *)
LEMMA WordsAreIn ==
    ASSUME NEW s \in Bytes
    PROVE  WordsIn(s) \in Seq(Nat \X Nat) /\ InLine(s, WordsIn(s))
<1>1. \A t \in Splitting : SplittingDone(t) => WordsFound(t, SplittingOut(t))
  BY SplittingTyped DEF WordsFound, SplittingOut
<1>2. ASSUME NEW t \in Splitting, NEW w, ~ SplittingDone(t), WordsFound(AtByte(t), w)
      PROVE  WordsFound(t, SlicingMore(t, w))
  BY <1>2, SplitsOn DEF WordsFound, SlicingMore
<1>3. \A t \in Splitting : WordsFound(t, Split[t])
  BY <1>1, <1>2, SplittingDescends, SplitUnfolds, Splits!Reaches
<1> DEFINE t == [s |-> s, l |-> 0, r |-> 0, words |-> <<>>]
<1>4. t \in Splitting /\ InLine(t.s, t.words) /\ t.s = s
  <2>1. <<>> \in Seq(Nat \X Nat) /\ Len(<<>>) = 0
    BY EmptySeq
  <2>2. Len(s) \in Nat
    BY Lens
  <2>3. t \in Splitting
    BY <2>1, <2>2 DEF Splitting
  <2> QED
    BY <2>1, <2>3 DEF InLine
<1> HIDE DEF t
<1>5. WordsFound(t, Split[t])
  BY <1>3, <1>4
<1> QED
  BY <1>4, <1>5 DEF WordsFound, WordsIn, t

(* Two sequences of nodes are seen one after the other.                    *)
LEMMA SeenOfBoth ==
    ASSUME NEW b \in Reader, NEW v \in Seq(Nodes(Slices)), NEW w \in Seq(Nodes(Slices)),
           AllUsed(b, v), AllUsed(b, w)
    PROVE  /\ v \o w \in Seq(Nodes(Slices)) /\ AllUsed(b, v \o w)
           /\ Seen(b, v \o w) = Seen(b, v) \o Seen(b, w)
<1> DEFINE S == Nodes(Slices)
           T == Nodes(Bytes)
           u == v \o w
           x == Seen(b, v)
           y == Seen(b, w)
           z == Seen(b, u)
           k == Len(v)
           n == Len(w)
<1>1. /\ u \in Seq(S) /\ Len(u) = k + n /\ k \in Nat /\ n \in Nat
      /\ \A i \in 1..k : u[i] = v[i]
      /\ \A i \in k + 1..k + n : u[i] = w[i - k]
  <2> HIDE DEF S
  <2>1. v \in Seq(S) /\ w \in Seq(S)
    BY DEF S
  <2> QED
    BY <2>1, SeqJoined
<1>2. x \in Seq(T) /\ Len(x) = k /\ \A i \in 1..k : x[i] = Look(b, v[i])
  BY SeenTyped
<1>3. y \in Seq(T) /\ Len(y) = n /\ \A i \in 1..n : y[i] = Look(b, w[i])
  BY SeenTyped
<1> HIDE DEF u
<1>4. ASSUME NEW i \in 1..k + n PROVE Used(b, u[i].value)
  <2>1. CASE i <= k
    <3>1. i \in 1..k
      BY <1>1, <2>1
    <3> QED
      BY <1>1, <3>1 DEF AllUsed
  <2>2. CASE i > k
    <3> DEFINE j == i - k
    <3>1. i \in k + 1..k + n /\ j \in 1..n
      BY <1>1, <2>2
    <3>2. Used(b, w[j].value)
      BY <3>1 DEF AllUsed
    <3> QED
      BY <1>1, <3>1, <3>2
  <2> QED
    BY <1>1, <2>1, <2>2
<1>5. AllUsed(b, u)
  BY <1>1, <1>4 DEF AllUsed
<1>6. z \in Seq(T) /\ Len(z) = k + n /\ \A i \in 1..k + n : z[i] = Look(b, u[i])
  <2>1. z \in Seq(T) /\ Len(z) = Len(u) /\ \A i \in 1..Len(u) : z[i] = Look(b, u[i])
    BY <1>1, <1>5, SeenTyped
  <2> QED
    BY <1>1, <2>1
<1> DEFINE a == x \o y
<1> HIDE DEF x, y, z, T, S
<1>7. /\ a \in Seq(T) /\ Len(a) = k + n
      /\ \A i \in 1..k : a[i] = x[i]
      /\ \A i \in k + 1..k + n : a[i] = y[i - k]
  <2>1. /\ a \in Seq(T) /\ Len(a) = Len(x) + Len(y)
        /\ \A i \in 1..Len(x) : a[i] = x[i]
        /\ \A i \in Len(x) + 1..Len(x) + Len(y) : a[i] = y[i - Len(x)]
    <3>1. x \in Seq(T) /\ y \in Seq(T)
      BY <1>2, <1>3
    <3> QED
      BY <3>1, SeqJoined
  <2> QED
    BY <1>2, <1>3, <2>1
<1> HIDE DEF a, k, n
<1>8. ASSUME NEW i \in 1..k + n PROVE z[i] = a[i]
  <2>1. CASE i <= k
    <3>1. i \in 1..k
      BY <1>1, <2>1
    <3> QED
      BY <1>1, <1>2, <1>6, <1>7, <3>1
  <2>2. CASE i > k
    <3> DEFINE j == i - k
    <3>1. i \in k + 1..k + n /\ j \in 1..n
      BY <1>1, <2>2
    <3>2. a[i] = y[j] /\ y[j] = Look(b, w[j]) /\ u[i] = w[j]
      BY <1>1, <1>3, <1>7, <3>1
    <3> QED
      BY <1>6, <3>2
  <2> QED
    BY <1>1, <2>1, <2>2
<1>9. z = a
  BY <1>6, <1>7, <1>8, SeqEqual
<1> QED
  BY <1>1, <1>5, <1>9 DEF u, x, y, z, a, S

(* One node is seen.                                                       *)
LEMMA SeenOne ==
    ASSUME NEW b \in Reader, NEW n \in Nodes(Slices), Used(b, n.value)
    PROVE  /\ <<n>> \in Seq(Nodes(Slices)) /\ AllUsed(b, <<n>>)
           /\ Seen(b, <<n>>) = <<Look(b, n)>> /\ Look(b, n) \in Nodes(Bytes)
<1>1. <<n>> \in Seq(Nodes(Slices)) /\ Len(<<n>>) = 1 /\ <<n>>[1] = n
  OBVIOUS
<1>2. AllUsed(b, <<n>>)
  BY <1>1 DEF AllUsed
<1>3. /\ Seen(b, <<n>>) \in Seq(Nodes(Bytes)) /\ Len(Seen(b, <<n>>)) = 1
      /\ Seen(b, <<n>>)[1] = Look(b, n)
  <2> DEFINE v == <<n>>
  <2>1. v \in Seq(Nodes(Slices)) /\ AllUsed(b, v) /\ Len(v) = 1 /\ v[1] = n
    BY <1>1, <1>2
  <2> HIDE DEF v
  <2>2. /\ Seen(b, v) \in Seq(Nodes(Bytes)) /\ Len(Seen(b, v)) = Len(v)
        /\ \A i \in 1..Len(v) : Seen(b, v)[i] = Look(b, v[i])
    BY <2>1, SeenTyped
  <2>3. Seen(b, v)[1] = Look(b, n)
    BY <2>1, <2>2
  <2> QED
    BY <2>1, <2>2, <2>3 DEF v
<1> DEFINE s == Seen(b, <<n>>)
           S == Nodes(Bytes)
           l == Look(b, n)
<1>4. s \in Seq(S) /\ Len(s) = 1 /\ s[1] = l
  BY <1>3
<1> HIDE DEF s, S, l
<1>5. l \in S
  BY <1>4, ElementOfSeq
<1>6. <<l>> \in Seq(S) /\ Len(<<l>>) = 1 /\ <<l>>[1] = l
  BY <1>5
<1>7. s = <<l>>
  BY <1>4, <1>6, SeqEqual
<1> QED
  BY <1>1, <1>2, <1>5, <1>7 DEF s, S, l

WordsAt(p) ==
    LET words == WordsIn(p.v)
    IN  IF ~p.ok \/ words = <<>> THEN None
        ELSE [p EXCEPT !.v = <<Array(Len(words), <<>>)>> \o
                             [i \in DOMAIN words |->
                                 Resp("$", SubSeq(p.v, words[i][1] + 1, words[i][2]))]]

(* The words, slices of the line, are seen as pieces of its bytes.         *)
LEMMA WordsSeen ==
    ASSUME NEW b \in Reader, NEW line \in Slices, Used(b, line),
           NEW words \in Seq(Nat \X Nat), InLine(BytesOf(b, line), words)
    PROVE  LET v == [i \in DOMAIN words |-> Word(line, words[i][1], words[i][2])]
           IN  /\ v \in Seq(Nodes(Slices)) /\ AllUsed(b, v)
               /\ Seen(b, v) = [i \in DOMAIN words |->
                     Resp("$", SubSeq(BytesOf(b, line), words[i][1] + 1, words[i][2]))]
<1> DEFINE s == BytesOf(b, line)
           n == Len(words)
           e(i) == Word(line, words[i][1], words[i][2])
           v == [i \in 1..n |-> e(i)]
           S == Nodes(Slices)
<1>1. DOMAIN words = 1..n /\ n \in Nat
  BY LenProperties
<1>2. ASSUME NEW i \in 1..n
      PROVE  /\ e(i) \in S /\ Used(b, e(i).value)
             /\ Look(b, e(i)) = Resp("$", SubSeq(s, words[i][1] + 1, words[i][2]))
  <2> DEFINE l == words[i][1]
             r == words[i][2]
             u == Slice(line.of, line.at + l, r - l)
             t == SubSeq(s, l + 1, r)
  <2>1. words[i] \in Nat \X Nat
    BY ElementOfSeq
  <2>2. l \in Nat /\ r \in Nat /\ l <= r /\ r <= Len(s)
    BY <2>1 DEF InLine
  <2> HIDE DEF l, r
  <2>3. line.at + line.len <= IF line.of = "mem" THEN Len(b.mem) ELSE ReaderSize
    BY DEF Used
  <2>4. Len(s) = line.len
    <3> DEFINE m == line.len
    <3>1. m \in Nat /\ m <= m /\ m <= line.len
      BY DEF Slices
    <3> HIDE DEF m
    <3> QED
      BY <2>3, <3>1, SliceOfSlice
  <2>5. l <= r /\ r <= line.len
    BY <2>2, <2>4
  <2>6. u \in Slices /\ Used(b, u) /\ BytesOf(b, u) = t
    BY <2>2, <2>3, <2>5, SliceOfSlice
  <2> DEFINE c == "$"
             nil == FALSE
             z == 0
  <2>7. c \in Types /\ nil \in BOOLEAN /\ z \in Nat
    BY DEF Types
  <2>8. e(i) = [type |-> c, nil |-> nil, value |-> u, size |-> z]
    BY DEF Word, Resp, l, r
  <2>9. Resp("$", t) = [type |-> c, nil |-> nil, value |-> t, size |-> z]
    BY DEF Resp
  <2> DEFINE d == e(i)
  <2>10. d = [type |-> c, nil |-> nil, value |-> u, size |-> z]
    BY <2>8
  <2> HIDE DEF d, c, nil, z, u, t, e
  <2>11. /\ d \in Nodes(Slices) /\ Used(b, d.value)
         /\ Look(b, d) = [type |-> c, nil |-> nil, value |-> t, size |-> z]
    BY <2>6, <2>7, <2>10, NodeLooks
  <2> QED
    BY <2>9, <2>11 DEF d, t, l, r
<1>3. \A i \in 1..n : e(i) \in S
  BY <1>2
<1> HIDE DEF e, S
<1>4. v \in Seq(S)
  BY <1>1, <1>3, IsASeq
<1>5. DOMAIN v = 1..n /\ \A i \in 1..n : v[i] = e(i)
  OBVIOUS
<1>6. Len(v) = n
  <2>1. DOMAIN v = 1..Len(v) /\ Len(v) \in Nat
    BY <1>4, LenProperties
  <2> QED
    BY <1>1, <1>5, <2>1
<1>7. AllUsed(b, v)
  BY <1>2, <1>5, <1>6 DEF AllUsed
<1>8. Seen(b, v) = [i \in 1..n |-> Look(b, e(i))]
  BY <1>5 DEF Seen, Look
<1>9. Seen(b, v) = [i \in 1..n |-> Resp("$", SubSeq(s, words[i][1] + 1, words[i][2]))]
  BY <1>2, <1>8
<1> QED
  BY <1>1, <1>4, <1>7, <1>9 DEF e, S

(* decodeSingleLineMultiBulk returns the words of the first line           *)
(* (decoder.go 209-227).                                                   *)
LEMMA WordsDecode ==
    ASSUME NEW b \in Reader
    PROVE  DecodesAll(b, decodeSingleLineMultiBulk(b), WordsAt(TextAt(Stream(b))))
<1> DEFINE q == decodeTextBytes(b)
           t == TextAt(Stream(b))
           r == Words(q)
           p == WordsAt(t)
<1>1. Decodes(b, q, t) /\ (q.ok => Used(q.b, q.v) /\ BytesOf(q.b, q.v) = t.v)
  BY TextDecodes
<1>2. t.ok \in BOOLEAN /\ t.nil = FALSE /\ (t.ok => t.v \in Bytes)
  <2> DEFINE s == Stream(b)
  <2>1. s \in Bytes
    BY ReaderTyped
  <2> HIDE DEF s
  <2>2. TextAt(s).ok \in BOOLEAN /\ TextAt(s).nil = FALSE /\ (TextAt(s).ok => TextAt(s).v \in Bytes)
    BY <2>1, TextTyped
  <2> QED
    BY <2>2 DEF s
<1>3. decodeSingleLineMultiBulk(b) = r
  BY DEF decodeSingleLineMultiBulk
<1> HIDE DEF q, t
<1>4. /\ q.b \in Reader /\ Keeps(b, q.b) /\ q.ok \in BOOLEAN /\ (q.ok <=> ~ b.err /\ t.ok)
      /\ q.ok => ~ q.b.err /\ Stream(q.b) = t.rest
  BY <1>1 DEF Decodes
<1>5. CASE ~ q.ok
  <2>1. r.b = q.b /\ r.ok = FALSE
    BY <1>5 DEF Words, Fail
  <2>2. ~ b.err => p.ok = FALSE
    BY <1>4, <1>5 DEF WordsAt, None
  <2>3. p.ok \in BOOLEAN
    <3>1. t = [ok |-> t.ok, nil |-> t.nil, v |-> t.v, rest |-> t.rest]
      BY DEF t, TextAt, LineAt, None
    <3> HIDE DEF t
    <3> DEFINE x == WordsAt(t)
               y == <<Array(Len(WordsIn(t.v)), <<>>)>> \o
                    [i \in DOMAIN WordsIn(t.v) |->
                        Resp("$", SubSeq(t.v, WordsIn(t.v)[i][1] + 1, WordsIn(t.v)[i][2]))]
    <3>2. x = None \/ x = [t EXCEPT !.v = y]
      BY DEF WordsAt
    <3> HIDE DEF x, y
    <3>3. x.ok \in BOOLEAN
      <4>1. CASE x = None
        BY <4>1 DEF None
      <4>2. CASE x = [t EXCEPT !.v = y]
        <5>1. x.ok = t.ok
          BY <3>1, <4>2
        <5> QED
          BY <1>2, <5>1
      <4> QED
        BY <3>2, <4>1, <4>2
    <3> QED
      BY <3>3 DEF x
  <2> HIDE DEF r, p
  <2>4. DecodesAll(b, r, p)
    BY <1>4, <2>1, <2>2, <2>3 DEF DecodesAll, Decodes
  <2> QED
    BY <1>3, <2>4 DEF p, t
<1>6. CASE q.ok
  <2> DEFINE c == q.b
             line == q.v
             words == WordsIn(t.v)
             n == Len(words)
             none == NoSlice
             head == Array(n, none)
             tail == [i \in DOMAIN words |-> Word(line, words[i][1], words[i][2])]
             v == <<head>> \o tail
             seen == [i \in DOMAIN words |-> Resp("$", SubSeq(t.v, words[i][1] + 1, words[i][2]))]
             w == <<Array(n, <<>>)>> \o seen
  <2>1. /\ Used(c, line) /\ BytesOf(c, line) = t.v /\ t.v \in Bytes /\ t.ok /\ ~ b.err
        /\ line \in Slices /\ c \in Reader /\ ~ c.err /\ Stream(c) = t.rest /\ Keeps(b, c)
    BY <1>1, <1>2, <1>4, <1>6 DEF Used
  <2>2. words \in Seq(Nat \X Nat) /\ InLine(t.v, words)
    BY <2>1, WordsAreIn
  <2>3. n \in Nat
    <3> HIDE DEF words
    <3> QED
      BY <2>2, LenProperties
  <2>4. r = IF words = <<>> THEN Fail(c) ELSE Ok(c, v)
    BY <1>6, <2>1 DEF Words, WordsIn
  <2>5. p = IF words = <<>> THEN None ELSE [t EXCEPT !.v = w]
    BY <2>1 DEF WordsAt
  <2> HIDE DEF words, r, p, c, line
  <2>6. tail \in Seq(Nodes(Slices)) /\ AllUsed(c, tail) /\ Seen(c, tail) = seen
    <3>1. InLine(BytesOf(c, line), words)
      BY <2>1, <2>2
    <3>2. /\ tail \in Seq(Nodes(Slices)) /\ AllUsed(c, tail)
          /\ Seen(c, tail) = [i \in DOMAIN words |->
                Resp("$", SubSeq(BytesOf(c, line), words[i][1] + 1, words[i][2]))]
      BY <2>1, <2>2, <3>1, WordsSeen
    <3> QED
      BY <2>1, <3>2
  <2>7. head \in Nodes(Slices) /\ Used(c, head.value) /\ Look(c, head) = Array(n, <<>>)
    <3>1. none \in Slices /\ Used(c, none) /\ BytesOf(c, none) = <<>>
      BY <2>1, NoSliceIsUsed
    <3> DEFINE x == FALSE
               star == "*"
    <3>2. x \in BOOLEAN /\ star \in Types
      BY DEF Types
    <3>3. head = [type |-> star, nil |-> x, value |-> none, size |-> n]
      BY DEF Array
    <3>4. Array(n, <<>>) = [type |-> star, nil |-> x, value |-> <<>>, size |-> n]
      BY DEF Array
    <3> HIDE DEF x, star, none, head, n
    <3>5. /\ head \in Nodes(Slices) /\ Used(c, head.value)
          /\ Look(c, head) = [type |-> star, nil |-> x, value |-> <<>>, size |-> n]
      BY <2>1, <2>3, <3>1, <3>2, <3>3, NodeLooks
    <3> QED
      BY <3>4, <3>5
  <2> HIDE DEF head, tail, seen
  <2>8. <<head>> \in Seq(Nodes(Slices)) /\ AllUsed(c, <<head>>) /\ Seen(c, <<head>>) = <<Array(n, <<>>)>>
    BY <2>1, <2>7, SeenOne
  <2>9. v \in Seq(Nodes(Slices)) /\ AllUsed(c, v) /\ Seen(c, v) = w
    <3> DEFINE one == <<head>>
    <3>1. /\ one \in Seq(Nodes(Slices)) /\ AllUsed(c, one)
          /\ tail \in Seq(Nodes(Slices)) /\ AllUsed(c, tail)
      BY <2>6, <2>8
    <3> HIDE DEF one
    <3>2. /\ one \o tail \in Seq(Nodes(Slices)) /\ AllUsed(c, one \o tail)
          /\ Seen(c, one \o tail) = Seen(c, one) \o Seen(c, tail)
      BY <2>1, <3>1, SeenOfBoth
    <3> QED
      BY <2>6, <2>8, <3>2 DEF one
  <2> HIDE DEF v, w
  <2>10. CASE words = <<>>
    <3>1. r.b = c /\ r.ok = FALSE /\ p.ok = FALSE
      BY <2>4, <2>5, <2>10 DEF Fail, None
    <3>2. DecodesAll(b, r, p)
      BY <2>1, <3>1 DEF DecodesAll, Decodes
    <3> QED
      BY <1>3, <3>2 DEF p, t
  <2>11. CASE words # <<>>
    <3>1. r.b = c /\ r.ok = TRUE /\ r.v = v /\ r.nil = FALSE
      BY <2>4, <2>11 DEF Ok
    <3>2. p.ok = t.ok /\ p.nil = t.nil /\ p.v = w /\ p.rest = t.rest
      <4>1. t = [ok |-> t.ok, nil |-> t.nil, v |-> t.v, rest |-> t.rest]
        BY DEF t, TextAt, LineAt, None
      <4> QED
        BY <2>5, <2>11, <4>1
    <3>3. DecodesAll(b, r, p)
      BY <1>2, <2>1, <2>9, <3>1, <3>2 DEF DecodesAll, Decodes
    <3> QED
      BY <1>3, <3>3 DEF p, t
  <2> QED
    BY <2>10, <2>11
<1> QED
  BY <1>4, <1>5, <1>6

PartsAt(s, due, types, seen) ==
    ElementsAt[[ok |-> TRUE, s |-> s, due |-> due, types |-> types, seen |-> seen]]

(* What PartsAt says of a stream.                                          *)
LEMMA PartsTyped ==
    ASSUME NEW s \in Bytes, NEW due \in Nat, NEW types \in SUBSET Types,
           NEW seen \in Seq(Nodes(Bytes))
    PROVE  LET t == [ok |-> TRUE, s |-> s, due |-> due, types |-> types, seen |-> seen]
               p == PartsAt(s, due, types, seen)
           IN  /\ t \in Parsings /\ p.ok \in BOOLEAN
               /\ p.ok => /\ p.nil = FALSE /\ p.v \in Seq(Nodes(Bytes)) /\ p.rest \in Bytes
                          /\ Len(p.rest) <= Len(s) /\ (due > 0 => Len(p.rest) < Len(s))
<1> DEFINE t == [ok |-> TRUE, s |-> s, due |-> due, types |-> types, seen |-> seen]
           p == ElementsAt[t]
<1>1. t \in Parsings /\ t.s = s /\ t.due = due
  BY DEF Parsings
<1> HIDE DEF t
<1>2. Parsed(t, p)
  BY <1>1, ElementsTyped
<1> HIDE DEF p
<1>3. /\ p.ok \in BOOLEAN
      /\ p.ok => /\ p.nil = FALSE /\ p.v \in Seq(Nodes(Bytes)) /\ p.rest \in Bytes
                 /\ Len(p.rest) <= Len(s) /\ (due > 0 => Len(p.rest) < Len(s))
  BY <1>1, <1>2 DEF Parsed
<1> QED
  BY <1>1, <1>3 DEF PartsAt, t, p

(* The nodes that are due are decoded of the stream.                       *)
LEMMA DescendDecodes ==
    ASSUME NEW b \in Reader, NEW due \in Nat, due > 0, NEW types \in SUBSET Types,
           NEW nodes \in Seq(Nodes(Slices)), AllUsed(b, nodes)
    PROVE  DecodesAll(b, Descend(b, due, types, nodes),
                      PartsAt(Stream(b), due, types, Seen(b, nodes)))
<1> DEFINE t == [b |-> b, ok |-> TRUE, due |-> due, types |-> types, nodes |-> nodes]
           r == Elements[t]
           s == Stream(b)
           seen == Seen(b, nodes)
           p == PartsAt(s, due, types, seen)
<1>1. t \in Decoding /\ t.b = b /\ t.ok = TRUE /\ t.due = due /\ t.nodes = nodes /\ t.types = types
  BY DEF Decoding
<1>2. Descend(b, due, types, nodes) = r
  BY DEF Descend
<1>3. s \in Bytes /\ b.err \in BOOLEAN
  BY ReaderTyped
<1>4. seen \in Seq(Nodes(Bytes))
  BY SeenTyped
<1> HIDE DEF t, s
<1>5. Abstract(t) = [ok |-> TRUE, s |-> s, due |-> due, types |-> types, seen |-> seen]
  BY <1>1 DEF Abstract, s
<1>6. CASE ~ b.err
  <2>1. Sound(t)
    BY <1>1, <1>6 DEF Sound
  <2>2. DecodesAll(t.b, r, ElementsAt[Abstract(t)])
    BY <1>1, <2>1, ElementsDecode DEF ElementsDecoded
  <2> QED
    BY <1>1, <1>2, <1>5, <2>2 DEF PartsAt, s
<1>7. CASE b.err
  <2> DEFINE q == decodeNode(b)
             u == WithNode(t, q)
  <2>1. q.b \in Reader /\ Keeps(b, q.b) /\ q.ok = FALSE
    BY <1>7, NodeDecodes DEF Decodes
  <2>2. ~ ElementsDone(t) /\ ElementsStep(t) = u
    BY <1>1 DEF ElementsDone, ElementsStep
  <2>3. u = [t EXCEPT !.b = q.b, !.ok = FALSE]
    BY <2>1 DEF WithNode
  <2>4. r = Elements[u]
    BY <1>1, <2>2, ElementsUnfold DEF Descending!Value, SlicingMore
  <2> HIDE DEF u, q, r
  <2>5. u \in Decoding /\ u.b = q.b /\ u.ok = FALSE /\ u.nodes = nodes
    BY <1>1, <2>1, <2>3 DEF Decoding
  <2>6. AllUsed(q.b, nodes)
    <3> DEFINE c == q.b
    <3>1. c \in Reader /\ Keeps(b, c)
      BY <2>1
    <3> HIDE DEF c
    <3>2. AllUsed(c, nodes)
      BY <3>1, SeenKept
    <3> QED
      BY <3>2 DEF c
  <2>7. Sound(u)
    BY <2>5, <2>6 DEF Sound
  <2> DEFINE a == ElementsAt[Abstract(u)]
  <2>8. DecodesAll(u.b, r, a)
    BY <2>4, <2>5, <2>7, ElementsDecode DEF ElementsDecoded
  <2>9. ~ a.ok
    <3>1. Abstract(u) \in Parsings /\ Abstract(u).ok = FALSE
      BY <2>5, <2>7, AbstractTyped DEF Abstract
    <3> HIDE DEF a
    <3>2. Parsed(Abstract(u), a)
      BY <3>1, ElementsTyped DEF a
    <3> QED
      BY <3>1, <3>2 DEF Parsed
  <2> HIDE DEF a
  <2>10. r.ok = FALSE /\ r.b \in Reader /\ Keeps(q.b, r.b)
    BY <2>5, <2>8, <2>9 DEF DecodesAll, Decodes
  <2>11. Keeps(b, r.b)
    BY <2>1, <2>10, KeptIsKept
  <2>12. p.ok \in BOOLEAN
    <3> HIDE DEF seen
    <3> QED
      BY <1>3, <1>4, PartsTyped
  <2> HIDE DEF p
  <2>13. DecodesAll(b, r, p)
    BY <1>7, <2>10, <2>11, <2>12 DEF DecodesAll, Decodes
  <2> QED
    BY <1>2, <2>13 DEF p, s
<1> QED
  BY <1>3, <1>6, <1>7

RespAt(s) == PartsAt(s, 1, Types, <<>>)

MultiAt(s) ==
    IF s = <<>> THEN None
    ELSE IF s[1] = "*"
    THEN LET i == IntAt(Drop(s, 1))
         IN  IF ~i.ok \/ i.v \notin 1..MaxArrayLen THEN None
             ELSE PartsAt(i.rest, i.v, {"$"}, <<Array(i.v, <<>>)>>)
    ELSE WordsAt(TextAt(s))

(* What WordsAt says of a line.                                            *)
LEMMA WordsTyped ==
    ASSUME NEW s \in Bytes
    PROVE  LET t == TextAt(s)
               p == WordsAt(t)
           IN  p.ok \in BOOLEAN /\ (p.ok => t.ok /\ p.rest = t.rest /\ p.nil = t.nil)
<1> DEFINE t == TextAt(s)
           p == WordsAt(t)
           y == <<Array(Len(WordsIn(t.v)), <<>>)>> \o
                [i \in DOMAIN WordsIn(t.v) |->
                    Resp("$", SubSeq(t.v, WordsIn(t.v)[i][1] + 1, WordsIn(t.v)[i][2]))]
<1>1. t.ok \in BOOLEAN /\ t = [ok |-> t.ok, nil |-> t.nil, v |-> t.v, rest |-> t.rest]
  <2>1. t.ok \in BOOLEAN
    BY TextTyped
  <2>2. t = [ok |-> t.ok, nil |-> t.nil, v |-> t.v, rest |-> t.rest]
    BY DEF TextAt, LineAt, None
  <2> QED
    BY <2>1, <2>2
<1>2. p = None \/ (t.ok /\ p = [t EXCEPT !.v = y])
  BY DEF WordsAt
<1> HIDE DEF t, p, y
<1>3. CASE p = None
  BY <1>3 DEF None, p, t
<1>4. CASE t.ok /\ p = [t EXCEPT !.v = y]
  <2>1. p.ok = t.ok /\ p.rest = t.rest /\ p.nil = t.nil
    BY <1>1, <1>4
  <2> QED
    BY <1>1, <1>4, <2>1 DEF p, t
<1> QED
  BY <1>2, <1>3, <1>4

(* What is said of an array of bulks.                                      *)
LEMMA ArrayPartsTyped ==
    ASSUME NEW i, i.ok \in BOOLEAN, i.ok => i.v \in Int /\ i.rest \in Bytes
    PROVE  LET p == IF ~i.ok \/ i.v \notin 1..MaxArrayLen THEN None
                    ELSE PartsAt(i.rest, i.v, {"$"}, <<Array(i.v, <<>>)>>)
           IN  /\ p.ok \in BOOLEAN
               /\ p.ok => i.ok /\ p.rest \in Bytes /\ Len(p.rest) < Len(i.rest)
<1> DEFINE p == IF ~i.ok \/ i.v \notin 1..MaxArrayLen THEN None
                ELSE PartsAt(i.rest, i.v, {"$"}, <<Array(i.v, <<>>)>>)
<1>1. CASE ~i.ok \/ i.v \notin 1..MaxArrayLen
  BY <1>1 DEF None
<1>2. CASE ~(~i.ok \/ i.v \notin 1..MaxArrayLen)
  <2> DEFINE n == i.v
             types == {"$"}
             seen == <<Array(i.v, <<>>)>>
             w == i.rest
  <2>1. n \in Nat /\ n > 0 /\ types \in SUBSET Types /\ w \in Bytes
    BY <1>2, Maxima DEF Types
  <2>2. Array(n, <<>>) \in Nodes(Bytes)
    <3>1. <<>> \in Bytes
      BY EmptySeq DEF Bytes
    <3> QED
      BY <2>1, <3>1 DEF Array, Nodes, Types
  <2>3. seen \in Seq(Nodes(Bytes))
    BY <2>2
  <2>4. p = PartsAt(w, n, types, seen)
    BY <1>2
  <2> HIDE DEF n, types, seen, w, p
  <2>5. /\ p.ok \in BOOLEAN
        /\ p.ok => p.rest \in Bytes /\ Len(p.rest) < Len(w)
    BY <2>1, <2>3, <2>4, PartsTyped
  <2> QED
    BY <1>2, <2>5 DEF p, w
<1> QED
  BY <1>1, <1>2

(* The stream after its first byte.                                        *)
LEMMA FirstDropped ==
    ASSUME NEW s \in Bytes, s # <<>>
    PROVE  Drop(s, 1) \in Bytes /\ Len(Drop(s, 1)) = Len(s) - 1 /\ Len(s) \in Nat \ {0}
<1>1. Len(s) \in Nat /\ Len(s) # 0
  BY Lens
<1> DEFINE k == 1
<1>2. k \in 0..Len(s)
  BY <1>1
<1> HIDE DEF k
<1>3. Drop(s, k) \in Bytes /\ Len(Drop(s, k)) = Len(s) - k
  BY <1>2, Parts
<1> QED
  BY <1>1, <1>3 DEF k

(* What MultiAt says of a stream.                                          *)
LEMMA MultiTyped ==
    ASSUME NEW s \in Bytes
    PROVE  LET p == MultiAt(s)
           IN  p.ok \in BOOLEAN /\ (p.ok => p.rest \in Bytes /\ Len(p.rest) < Len(s))
<1> DEFINE p == MultiAt(s)
<1>1. CASE s = <<>>
  BY <1>1 DEF MultiAt, None
<1>2. CASE s # <<>> /\ s[1] = "*"
  <2> DEFINE u == Drop(s, 1)
             i == IntAt(u)
             q == IF ~i.ok \/ i.v \notin 1..MaxArrayLen THEN None
                  ELSE PartsAt(i.rest, i.v, {"$"}, <<Array(i.v, <<>>)>>)
  <2>1. u \in Bytes /\ Len(u) = Len(s) - 1 /\ Len(s) \in Nat
    BY <1>2, FirstDropped
  <2>2. p = q
    BY <1>2 DEF MultiAt
  <2> HIDE DEF u, p
  <2>3. /\ i.ok \in BOOLEAN
        /\ i.ok => i.v \in Int /\ i.rest \in Bytes /\ Len(i.rest) < Len(u)
    BY <2>1, IntTyped
  <2> HIDE DEF i
  <2>4. /\ q.ok \in BOOLEAN
        /\ q.ok => i.ok /\ q.rest \in Bytes /\ Len(q.rest) < Len(i.rest)
    BY <2>3, ArrayPartsTyped
  <2> HIDE DEF q
  <2>5. q.ok => Len(q.rest) \in Nat /\ Len(i.rest) \in Nat
    BY <2>3, <2>4, Lens
  <2> QED
    BY <2>1, <2>2, <2>3, <2>4, <2>5 DEF p
<1>3. CASE s # <<>> /\ s[1] # "*"
  <2> DEFINE t == TextAt(s)
  <2>1. p = WordsAt(t)
    BY <1>3 DEF MultiAt
  <2>2. t.ok => t.rest \in Bytes /\ Len(t.rest) < Len(s)
    BY TextTyped
  <2>3. WordsAt(t).ok \in BOOLEAN /\ (WordsAt(t).ok => t.ok /\ WordsAt(t).rest = t.rest)
    BY WordsTyped
  <2> HIDE DEF t, p
  <2> QED
    BY <2>1, <2>2, <2>3 DEF p
<1> QED
  BY <1>1, <1>2, <1>3

(* Of no nodes nothing is seen.                                            *)
LEMMA NoneSeen ==
    ASSUME NEW b
    PROVE  <<>> \in Seq(Nodes(Slices)) /\ AllUsed(b, <<>>) /\ Seen(b, <<>>) = <<>>
<1>1. <<>> \in Seq(Nodes(Slices)) /\ Len(<<>>) = 0
  BY EmptySeq
<1>2. AllUsed(b, <<>>)
  BY <1>1 DEF AllUsed
<1>3. Seen(b, <<>>) = <<>>
  BY DEF Seen
<1> QED
  BY <1>1, <1>2, <1>3

(* decodeResp returns the message at the beginning of the stream.          *)
LEMMA RespDecodes ==
    ASSUME NEW b \in Reader
    PROVE  DecodesAll(b, decodeResp(b), RespAt(Stream(b)))
<1> DEFINE one == 1
           v == <<>>
<1>1. one \in Nat /\ one > 0 /\ Types \in SUBSET Types
  OBVIOUS
<1>2. v \in Seq(Nodes(Slices)) /\ AllUsed(b, v) /\ Seen(b, v) = <<>>
  BY NoneSeen
<1>3. /\ decodeResp(b) = Descend(b, one, Types, v)
      /\ RespAt(Stream(b)) = PartsAt(Stream(b), one, Types, <<>>)
  BY DEF decodeResp, RespAt
<1> HIDE DEF one, v
<1>4. DecodesAll(b, Descend(b, one, Types, v), PartsAt(Stream(b), one, Types, Seen(b, v)))
  BY <1>1, <1>2, DescendDecodes
<1> QED
  BY <1>2, <1>3, <1>4

(* After its *, a request of bulks is decoded of the stream.               *)
LEMMA MultiOfDecodes ==
    ASSUME NEW b \in Reader
    PROVE  LET i == IntAt(Stream(b))
           IN  DecodesAll(b, MultiOf(decodeInt(b)),
                          IF ~i.ok \/ i.v \notin 1..MaxArrayLen THEN None
                          ELSE PartsAt(i.rest, i.v, {"$"}, <<Array(i.v, <<>>)>>))
<1> DEFINE s == Stream(b)
           i == IntAt(s)
           q == decodeInt(b)
           r == MultiOf(q)
           p == IF ~i.ok \/ i.v \notin 1..MaxArrayLen THEN None
                ELSE PartsAt(i.rest, i.v, {"$"}, <<Array(i.v, <<>>)>>)
<1>1. s \in Bytes /\ b.err \in BOOLEAN
  BY ReaderTyped
<1>2. Decodes(b, q, i) /\ (q.ok => q.v = i.v)
  BY IntDecodes
<1>3. i.ok \in BOOLEAN /\ i.nil = FALSE /\ (i.ok => i.v \in Int /\ i.rest \in Bytes)
  <2> HIDE DEF s
  <2> QED
    BY <1>1, IntTyped
<1> HIDE DEF i, q, s
<1>4. /\ q.b \in Reader /\ Keeps(b, q.b) /\ q.ok \in BOOLEAN /\ (q.ok <=> ~ b.err /\ i.ok)
      /\ q.ok => ~ q.b.err /\ Stream(q.b) = i.rest /\ q.v = i.v
  BY <1>2 DEF Decodes
<1>5. CASE ~q.ok \/ q.v \notin 1..MaxArrayLen
  <2>1. r.b = q.b /\ r.ok = FALSE
    BY <1>5 DEF MultiOf, Fail
  <2>2. ~ b.err => p.ok = FALSE
    BY <1>3, <1>4, <1>5 DEF None
  <2>3. p.ok \in BOOLEAN
    BY <1>3, ArrayPartsTyped
  <2> HIDE DEF r, p
  <2>4. DecodesAll(b, r, p)
    BY <1>4, <2>1, <2>2, <2>3 DEF DecodesAll, Decodes
  <2> QED
    BY <2>4 DEF r, p, i, q, s
<1>6. CASE q.ok /\ q.v \in 1..MaxArrayLen
  <2> DEFINE c == q.b
             n == q.v
             types == {"$"}
             none == NoSlice
             head == Array(n, none)
             v == <<head>>
             a == PartsAt(Stream(c), n, types, Seen(c, v))
  <2>1. /\ c \in Reader /\ Keeps(b, c) /\ ~ b.err /\ ~ c.err /\ i.ok /\ n = i.v
        /\ Stream(c) = i.rest
    BY <1>4, <1>6
  <2>2. n \in Nat /\ n > 0 /\ types \in SUBSET Types
    BY <1>6, Maxima DEF Types
  <2>3. r = Descend(c, n, types, v)
    BY <1>6 DEF MultiOf
  <2>4. p = PartsAt(i.rest, n, types, <<Array(n, <<>>)>>)
    BY <1>6, <2>1
  <2> HIDE DEF c, n, types, r, p
  <2>5. head \in Nodes(Slices) /\ Used(c, head.value) /\ Look(c, head) = Array(n, <<>>)
    <3>1. none \in Slices /\ Used(c, none) /\ BytesOf(c, none) = <<>>
      BY <2>1, NoSliceIsUsed
    <3> DEFINE x == FALSE
               star == "*"
    <3>2. x \in BOOLEAN /\ star \in Types
      BY DEF Types
    <3>3. head = [type |-> star, nil |-> x, value |-> none, size |-> n]
      BY DEF Array
    <3>4. Array(n, <<>>) = [type |-> star, nil |-> x, value |-> <<>>, size |-> n]
      BY DEF Array
    <3> HIDE DEF x, star, none, head
    <3>5. /\ head \in Nodes(Slices) /\ Used(c, head.value)
          /\ Look(c, head) = [type |-> star, nil |-> x, value |-> <<>>, size |-> n]
      BY <2>2, <3>1, <3>2, <3>3, NodeLooks
    <3> QED
      BY <3>4, <3>5
  <2> HIDE DEF head
  <2>6. v \in Seq(Nodes(Slices)) /\ AllUsed(c, v) /\ Seen(c, v) = <<Array(n, <<>>)>>
    BY <2>1, <2>5, SeenOne
  <2> HIDE DEF v
  <2>7. DecodesAll(c, r, a)
    BY <2>1, <2>2, <2>3, <2>6, DescendDecodes
  <2>8. a = p
    BY <2>1, <2>4, <2>6
  <2> HIDE DEF a
  <2>9. Keeps(c, r.b)
    BY <2>7 DEF DecodesAll, Decodes
  <2>10. Keeps(b, r.b)
    BY <2>1, <2>9, KeptIsKept
  <2>11. DecodesAll(b, r, p)
    BY <2>1, <2>7, <2>8, <2>10 DEF DecodesAll, Decodes
  <2> QED
    BY <2>11 DEF r, p, i, q, s
<1> QED
  BY <1>4, <1>5, <1>6

(* decodeMultiBulk returns the request at the beginning of the stream.     *)
LEMMA MultiDecodes ==
    ASSUME NEW b \in Reader
    PROVE  DecodesAll(b, decodeMultiBulk(b), MultiAt(Stream(b)))
<1> DEFINE s == Stream(b)
           t == PeekByte(b)
           r == Multi(t)
           p == MultiAt(s)
<1>1. s \in Bytes /\ b.err \in BOOLEAN
  BY ReaderTyped
<1>2. /\ t.b \in Reader /\ SameMemory(b, t.b) /\ Stream(t.b) = s
      /\ t.ok \in BOOLEAN /\ (t.ok <=> ~ b.err /\ s # <<>>)
      /\ t.ok => ~ t.b.err /\ t.v = s[1]
  BY PeekByteReads
<1>3. decodeMultiBulk(b) = r
  BY DEF decodeMultiBulk
<1>4. Keeps(b, t.b)
  BY <1>2, KeptIsKept
<1>5. p = IF s = <<>> THEN None
          ELSE IF s[1] = "*"
          THEN LET i == IntAt(Drop(s, 1))
               IN  IF ~i.ok \/ i.v \notin 1..MaxArrayLen THEN None
                   ELSE PartsAt(i.rest, i.v, {"$"}, <<Array(i.v, <<>>)>>)
          ELSE WordsAt(TextAt(s))
  BY DEF MultiAt
<1>6. r = CASE ~t.ok -> t
            [] t.ok /\ t.v = "*" -> MultiOf(decodeInt(ReadByte(t.b).b))
            [] OTHER -> decodeSingleLineMultiBulk(t.b)
  BY DEF Multi
<1> HIDE DEF s, t, r, p
<1>7. CASE t.ok /\ t.v = "*"
  <2> DEFINE c == t.b
             d == ReadByte(c)
             e == d.b
             i == IntAt(Stream(e))
             a == IF ~i.ok \/ i.v \notin 1..MaxArrayLen THEN None
                  ELSE PartsAt(i.rest, i.v, {"$"}, <<Array(i.v, <<>>)>>)
  <2>1. c \in Reader /\ ~ c.err /\ Stream(c) = s /\ Keeps(b, c) /\ ~ b.err /\ s # <<>> /\ s[1] = "*"
    BY <1>2, <1>4, <1>7
  <2>2. r = MultiOf(decodeInt(e))
    BY <1>6, <1>7
  <2> HIDE DEF c
  <2>3. e \in Reader /\ SameMemory(c, e) /\ ~ e.err /\ Stream(e) = Drop(s, 1)
    BY <2>1, ReadByteReads
  <2> HIDE DEF d, e
  <2>4. DecodesAll(e, r, a)
    BY <2>2, <2>3, MultiOfDecodes
  <2>5. p = a
    BY <1>5, <2>1, <2>3
  <2> HIDE DEF a
  <2>6. Keeps(c, e) /\ Keeps(e, r.b)
    BY <2>3, <2>4, KeptIsKept DEF DecodesAll, Decodes
  <2>7. Keeps(b, r.b)
    BY <2>1, <2>6, KeptIsKept
  <2>8. DecodesAll(b, r, p)
    BY <2>1, <2>3, <2>4, <2>5, <2>7 DEF DecodesAll, Decodes
  <2> QED
    BY <1>3, <2>8 DEF p, s
<1>8. CASE t.ok /\ t.v # "*"
  <2> DEFINE c == t.b
             a == WordsAt(TextAt(Stream(c)))
  <2>1. c \in Reader /\ ~ c.err /\ Stream(c) = s /\ Keeps(b, c) /\ ~ b.err /\ s # <<>> /\ s[1] # "*"
    BY <1>2, <1>4, <1>8
  <2>2. r = decodeSingleLineMultiBulk(c)
    BY <1>6, <1>8
  <2> HIDE DEF c
  <2>3. DecodesAll(c, r, a)
    BY <2>1, <2>2, WordsDecode
  <2>4. p = a
    BY <1>5, <2>1
  <2> HIDE DEF a
  <2>5. Keeps(c, r.b)
    BY <2>3 DEF DecodesAll, Decodes
  <2>6. Keeps(b, r.b)
    BY <2>1, <2>5, KeptIsKept
  <2>7. DecodesAll(b, r, p)
    BY <2>1, <2>3, <2>4, <2>6 DEF DecodesAll, Decodes
  <2> QED
    BY <1>3, <2>7 DEF p, s
<1>9. CASE ~ t.ok
  <2>1. r.b = t.b /\ r.ok = FALSE
    BY <1>2, <1>6, <1>9
  <2>2. p.ok \in BOOLEAN
    BY <1>1, MultiTyped DEF p
  <2>3. ~ b.err => p.ok = FALSE
    BY <1>2, <1>5, <1>9 DEF None
  <2>4. DecodesAll(b, r, p)
    BY <1>2, <1>4, <2>1, <2>2, <2>3 DEF DecodesAll, Decodes
  <2> QED
    BY <1>3, <2>4 DEF p, s
<1> QED
  BY <1>7, <1>8, <1>9

-----------------------------------------------------------------------------
(* Messages: what is decoded of the stream, and of an encoding.            *)

MessageAt(k, s) == IF k = "multi" THEN MultiAt(s) ELSE RespAt(s)

(* Whatever is buffered already and in whatever pieces the rest comes,     *)
(* Decode and DecodeMultiBulk return just the message that MessageAt says  *)
(* is at the beginning of the stream, take just its bytes, and fail just   *)
(* when there is none; what they return is in memory of its own and what   *)
(* was returned before keeps its bytes (decoder.go 84-262 over bufio.go    *)
(* 43-173 and slice.go 10-23).                                             *)
THEOREM MessageDecodes ==
    ASSUME NEW b \in Reader, NEW k \in Kinds
    PROVE  DecodesAll(b, Decoded(k, b), MessageAt(k, Stream(b)))
<1>1. DecodesAll(b, decodeMultiBulk(b), MultiAt(Stream(b)))
  BY MultiDecodes
<1>2. DecodesAll(b, decodeResp(b), RespAt(Stream(b)))
  BY RespDecodes
<1>3. CASE k = "multi"
  BY <1>1, <1>3 DEF Decoded, MessageAt
<1>4. CASE k # "multi"
  BY <1>2, <1>4 DEF Decoded, MessageAt
<1> QED
  BY <1>3, <1>4

(* What MessageAt says of a stream.                                        *)
LEMMA MessageTyped ==
    ASSUME NEW s \in Bytes, NEW k \in Kinds
    PROVE  LET p == MessageAt(k, s)
           IN  p.ok \in BOOLEAN /\ (p.ok => p.rest \in Bytes /\ Len(p.rest) < Len(s))
<1>1. CASE k = "multi"
  <2>1. MessageAt(k, s) = MultiAt(s)
    BY <1>1 DEF MessageAt
  <2> QED
    BY <2>1, MultiTyped
<1>2. CASE k # "multi"
  <2> DEFINE one == 1
             seen == <<>>
             p == PartsAt(s, one, Types, seen)
  <2>1. MessageAt(k, s) = p
    BY <1>2 DEF MessageAt, RespAt
  <2>2. one \in Nat /\ one > 0 /\ Types \in SUBSET Types /\ seen \in Seq(Nodes(Bytes))
    BY EmptySeq
  <2> HIDE DEF one, seen
  <2>3. p.ok \in BOOLEAN /\ (p.ok => p.rest \in Bytes /\ Len(p.rest) < Len(s))
    BY <2>2, PartsTyped
  <2> QED
    BY <2>1, <2>3
<1> QED
  BY <1>1, <1>2

(* What was read of a stream is the same when more bytes follow.           *)
LEMMA PartsOfMoreBytes ==
    ASSUME NEW s \in Bytes, NEW x \in Bytes, NEW due \in Nat, NEW types \in SUBSET Types,
           NEW seen \in Seq(Nodes(Bytes))
    PROVE  Extends(PartsAt(s, due, types, seen), PartsAt(s \o x, due, types, seen), x)
<1> DEFINE t == [ok |-> TRUE, s |-> s, due |-> due, types |-> types, seen |-> seen]
           y == s \o x
           u == [ok |-> TRUE, s |-> y, due |-> due, types |-> types, seen |-> seen]
<1>1. t \in Parsings /\ t.ok
  BY DEF Parsings
<1>2. WithMore(t, x) = u
  <2>1. t.s = s
    OBVIOUS
  <2>2. WithMore(t, x) = [t EXCEPT !.s = y]
    BY <2>1 DEF WithMore
  <2> HIDE DEF y
  <2> QED
    BY <2>2
<1> HIDE DEF t, u
<1>3. Extends(ElementsAt[t], ElementsAt[WithMore(t, x)], x)
  BY <1>1, ElementsOfMore
<1> QED
  BY <1>2, <1>3 DEF PartsAt, t, u

(* The words that were read are the same when more bytes follow.           *)
LEMMA WordsOfMore ==
    ASSUME NEW s \in Bytes, NEW x \in Bytes
    PROVE  Extends(WordsAt(TextAt(s)), WordsAt(TextAt(s \o x)), x)
<1> DEFINE t == TextAt(s)
           u == TextAt(s \o x)
           y == <<Array(Len(WordsIn(t.v)), <<>>)>> \o
                [i \in DOMAIN WordsIn(t.v) |->
                    Resp("$", SubSeq(t.v, WordsIn(t.v)[i][1] + 1, WordsIn(t.v)[i][2]))]
<1>1. Extends(t, u, x)
  BY TextOfMore
<1>2. /\ t = [ok |-> t.ok, nil |-> t.nil, v |-> t.v, rest |-> t.rest]
      /\ u = [ok |-> u.ok, nil |-> u.nil, v |-> u.v, rest |-> u.rest]
  BY DEF TextAt, LineAt, None
<1> HIDE DEF t, u
<1>3. SUFFICES ASSUME WordsAt(t).ok PROVE Extends(WordsAt(t), WordsAt(u), x)
  BY DEF Extends, t, u
<1>4. t.ok /\ WordsIn(t.v) # <<>> /\ WordsAt(t) = [t EXCEPT !.v = y]
  BY <1>3 DEF WordsAt, None
<1>5. u.ok /\ u.v = t.v /\ u.nil = t.nil /\ u.rest = t.rest \o x
  BY <1>1, <1>4 DEF Extends
<1>6. WordsAt(u) = [u EXCEPT !.v = y]
  BY <1>4, <1>5 DEF WordsAt
<1> HIDE DEF y
<1>7. WordsAt(t).v = y /\ WordsAt(t).nil = t.nil /\ WordsAt(t).rest = t.rest
  BY <1>2, <1>4
<1>8. WordsAt(u).ok = u.ok /\ WordsAt(u).v = y /\ WordsAt(u).nil = u.nil /\ WordsAt(u).rest = u.rest
  BY <1>2, <1>6
<1> QED
  BY <1>5, <1>7, <1>8 DEF Extends

(* The first byte is the same when more bytes follow.                      *)
LEMMA FirstOfMore ==
    ASSUME NEW s \in Bytes, NEW x \in Bytes, s # <<>>
    PROVE  /\ s \o x # <<>> /\ (s \o x)[1] = s[1]
           /\ Drop(s \o x, 1) = Drop(s, 1) \o x /\ Drop(s, 1) \in Bytes
<1>1. 1 \in 1..Len(s) /\ 1 \in 0..Len(s) /\ Len(s) \in Nat
  BY Lens
<1>2. (s \o x)[1] = s[1] /\ Len(s \o x) = Len(s) + Len(x) /\ Len(x) \in Nat /\ s \o x \in Bytes
  BY <1>1, Joined
<1> DEFINE k == 1
<1>3. k \in 0..Len(s)
  BY <1>1
<1> HIDE DEF k
<1>4. Drop(s \o x, k) = Drop(s, k) \o x
  BY <1>3, PartsOfMore
<1>5. Drop(s, k) \in Bytes
  BY <1>3, Parts
<1>6. s \o x # <<>>
  BY <1>1, <1>2, Lens
<1> QED
  BY <1>2, <1>4, <1>5, <1>6 DEF k

(* A request that was read is the same when more bytes follow.             *)
LEMMA MultiOfMore ==
    ASSUME NEW s \in Bytes, NEW x \in Bytes
    PROVE  Extends(MultiAt(s), MultiAt(s \o x), x)
<1> SUFFICES ASSUME MultiAt(s).ok PROVE Extends(MultiAt(s), MultiAt(s \o x), x)
  BY DEF Extends
<1>1. s # <<>>
  BY DEF MultiAt, None
<1> DEFINE y == s \o x
<1>2. y # <<>> /\ y[1] = s[1] /\ Drop(y, 1) = Drop(s, 1) \o x /\ Drop(s, 1) \in Bytes
  BY <1>1, FirstOfMore
<1> HIDE DEF y
<1>3. CASE s[1] = "*"
  <2> DEFINE u == Drop(s, 1)
             i == IntAt(u)
             j == IntAt(u \o x)
             types == {"$"}
             seen == <<Array(i.v, <<>>)>>
             n == i.v
             p == PartsAt(i.rest, n, types, seen)
             q == PartsAt(i.rest \o x, n, types, seen)
  <2>1. i.ok /\ i.v \in 1..MaxArrayLen /\ MultiAt(s) = p
    BY <1>1, <1>3 DEF MultiAt, None
  <2>2. Extends(i, j, x) /\ i.rest \in Bytes
    <3> HIDE DEF u
    <3>1. u \in Bytes
      BY <1>2 DEF u
    <3>2. Extends(i, j, x)
      BY <3>1, IntOfMore
    <3>3. i.rest \in Bytes
      BY <2>1, <3>1, IntTyped
    <3> QED
      BY <3>2, <3>3
  <2>3. MultiAt(y) = IF ~j.ok \/ j.v \notin 1..MaxArrayLen THEN None
                     ELSE PartsAt(j.rest, j.v, {"$"}, <<Array(j.v, <<>>)>>)
    BY <1>2, <1>3 DEF MultiAt
  <2>4. MultiAt(y) = q
    <3> HIDE DEF i, j
    <3> QED
      BY <2>1, <2>2, <2>3 DEF Extends
  <2>5. n \in Nat /\ types \in SUBSET Types /\ seen \in Seq(Nodes(Bytes))
    <3>1. n \in Nat /\ types \in SUBSET Types
      BY <2>1, Maxima DEF Types
    <3>2. <<>> \in Bytes
      BY EmptySeq DEF Bytes
    <3>3. Array(n, <<>>) \in Nodes(Bytes)
      BY <3>1, <3>2 DEF Array, Nodes, Types
    <3> QED
      BY <3>1, <3>3
  <2> DEFINE w == i.rest
  <2>6. w \in Bytes
    BY <2>2
  <2> HIDE DEF w, n, types, seen
  <2>7. Extends(PartsAt(w, n, types, seen), PartsAt(w \o x, n, types, seen), x)
    BY <2>5, <2>6, PartsOfMoreBytes
  <2> QED
    BY <2>1, <2>4, <2>7 DEF w, y
<1>4. CASE s[1] # "*"
  <2>1. MultiAt(s) = WordsAt(TextAt(s)) /\ MultiAt(y) = WordsAt(TextAt(y))
    BY <1>1, <1>2, <1>4 DEF MultiAt
  <2> QED
    BY <2>1, WordsOfMore DEF y
<1> QED
  BY <1>3, <1>4

(* A message that was decoded is the same when more bytes follow it: no    *)
(* decoder looks past the end of its message (decoder.go 118-262).         *)
THEOREM MessageOfMore ==
    ASSUME NEW s \in Bytes, NEW x \in Bytes, NEW k \in Kinds
    PROVE  Extends(MessageAt(k, s), MessageAt(k, s \o x), x)
<1>1. CASE k = "multi"
  BY <1>1, MultiOfMore DEF MessageAt
<1>2. CASE k # "multi"
  <2> DEFINE one == 1
             seen == <<>>
  <2>1. one \in Nat /\ Types \in SUBSET Types /\ seen \in Seq(Nodes(Bytes))
    BY EmptySeq
  <2>2. /\ MessageAt(k, s) = PartsAt(s, one, Types, seen)
        /\ MessageAt(k, s \o x) = PartsAt(s \o x, one, Types, seen)
    BY <1>2 DEF MessageAt, RespAt
  <2> HIDE DEF one, seen
  <2>3. Extends(PartsAt(s, one, Types, seen), PartsAt(s \o x, one, Types, seen), x)
    BY <2>1, PartsOfMoreBytes
  <2> QED
    BY <2>2, <2>3
<1> QED
  BY <1>1, <1>2

(* Complete nodes are read of their bytes, after what was seen.            *)
LEMMA PartsAreRead ==
    ASSUME NEW due \in Nat, NEW nodes \in Seq(Nodes(Bytes)), Complete[[due |-> due, nodes |-> nodes]],
           NEW types \in SUBSET Types, NEW seen \in Seq(Nodes(Bytes)),
           \A i \in 1..Len(nodes) : Sendable(nodes[i]) /\ nodes[i].type \in types
    PROVE  LET p == PartsAt(Enc[nodes], due, types, seen)
           IN  p.ok /\ p.v = seen \o nodes /\ p.rest = <<>>
<1> DEFINE t == [due |-> due, nodes |-> nodes]
           s == Enc[nodes]
           u == [ok |-> TRUE, s |-> s, due |-> due, types |-> types, seen |-> seen]
<1>1. t \in Completing /\ t.due = due /\ t.nodes = nodes
  BY DEF Completing
<1>2. s \in Bytes
  BY EncUnfolds
<1>3. u \in Parsings /\ u.ok /\ u.s = s /\ u.due = due /\ u.types = types /\ u.seen = seen
  BY <1>2 DEF Parsings
<1> HIDE DEF t, u
<1>4. IsBefore(t, u)
  BY <1>1, <1>3 DEF IsBefore
<1>5. Complete[t]
  BY DEF t
<1>6. ReadsBack(t, u)
  BY <1>1, <1>3, <1>4, <1>5, ElementsAreRead
<1> QED
  BY <1>1, <1>3, <1>6 DEF ReadsBack, PartsAt, u

(* A message that was encoded is read by decodeResp.                       *)
LEMMA RespIsRead ==
    ASSUME NEW m, IsMessage(m)
    PROVE  LET p == RespAt(Enc[m]) IN p.ok /\ p.v = m /\ p.rest = <<>>
<1> DEFINE one == 1
           seen == <<>>
<1>1. /\ m \in Seq(Nodes(Bytes)) /\ Complete[[due |-> one, nodes |-> m]]
      /\ \A i \in DOMAIN m : Sendable(m[i])
  BY DEF IsMessage
<1>2. DOMAIN m = 1..Len(m) /\ \A i \in 1..Len(m) : m[i] \in Nodes(Bytes)
  BY <1>1, LenProperties, ElementOfSeq
<1>3. \A i \in 1..Len(m) : Sendable(m[i]) /\ m[i].type \in Types
  BY <1>1, <1>2 DEF Nodes
<1>4. one \in Nat /\ Types \in SUBSET Types /\ seen \in Seq(Nodes(Bytes))
  BY EmptySeq
<1>5. seen \o m = m
  BY <1>1, ConcatEmptySeq
<1>6. RespAt(Enc[m]) = PartsAt(Enc[m], one, Types, seen)
  BY DEF RespAt
<1> DEFINE p == PartsAt(Enc[m], one, Types, seen)
<1> HIDE DEF one, seen
<1>7. p.ok /\ p.v = seen \o m /\ p.rest = <<>>
  BY <1>1, <1>3, <1>4, PartsAreRead
<1> QED
  BY <1>5, <1>6, <1>7

(* A request is an array and its bulks.                                    *)
LEMMA RequestTyped ==
    ASSUME NEW m, IsRequest(m)
    PROVE  /\ m \in Seq(Nodes(Bytes)) /\ m # <<>> /\ Len(m) \in Nat /\ Len(m) > 1
           /\ Head(m) = m[1] /\ m[1] = Array(Len(m) - 1, <<>>) /\ Sendable(m[1]) /\ m[1] \in Nodes(Bytes)
           /\ Len(m) - 1 \in 1..MaxArrayLen /\ InBuffer(Len(m) - 1)
           /\ Tail(m) \in Seq(Nodes(Bytes)) /\ Len(Tail(m)) = Len(m) - 1
           /\ \A i \in 1..Len(m) - 1 : Sendable(Tail(m)[i]) /\ Tail(m)[i].type \in {"$"}
           /\ Complete[[due |-> Len(m) - 1, nodes |-> Tail(m)]]
           /\ <<m[1]>> \o Tail(m) = m
<1> DEFINE S == Nodes(Bytes)
           h == m[1]
           n == Len(m) - 1
<1>1. /\ m \in Seq(S) /\ Complete[[due |-> 1, nodes |-> m]] /\ h.size = n /\ Len(m) > 1
      /\ \A i \in DOMAIN m : Sendable(m[i])
      /\ \A i \in 2..Len(m) : m[i].type = "$"
  BY DEF IsRequest, IsMessage
<1> HIDE DEF S
<1>2. DOMAIN m = 1..Len(m) /\ Len(m) \in Nat
  BY <1>1, LenProperties
<1>3. m # <<>>
  <2>1. Len(<<>>) = 0
    BY EmptySeq
  <2> QED
    BY <1>1, <2>1
<1>4. /\ Head(m) \in S /\ Tail(m) \in Seq(S) /\ Len(Tail(m)) = n
      /\ Head(m) = m[1] /\ \A i \in 1..n : Tail(m)[i] = m[i + 1]
      /\ \A t \in Seq(S) : Append(t, Head(m)) \o Tail(m) = t \o m
  BY <1>1, <1>2, <1>3, HeadAndTail
<1>5. Sendable(h) /\ h \in S /\ n \in Nat /\ n > 0
  BY <1>1, <1>2, <1>4
<1>6. h = Array(n, <<>>) /\ n <= MaxArrayLen /\ InBuffer(n)
  <2>1. /\ h.nil \in BOOLEAN /\ h.type \in Types
        /\ h = [type |-> h.type, nil |-> h.nil, value |-> h.value, size |-> h.size]
    BY <1>5 DEF S, Nodes
  <2>2. h.type = "*" /\ ~ h.nil
    BY <1>1, <1>5 DEF Sendable
  <2>3. h.value = <<>> /\ h.size <= MaxArrayLen /\ InBuffer(h.size)
    BY <1>5, <2>2 DEF Sendable
  <2>4. h.nil = FALSE
    BY <2>1, <2>2
  <2> HIDE DEF h, n
  <2>5. h = Array(n, <<>>)
    BY <1>1, <2>1, <2>2, <2>3, <2>4 DEF Array
  <2> QED
    BY <1>1, <2>3, <2>5
<1>7. ASSUME NEW i \in 1..n PROVE Sendable(Tail(m)[i]) /\ Tail(m)[i].type \in {"$"}
  <2>1. i + 1 \in 2..Len(m) /\ i + 1 \in 1..Len(m) /\ Tail(m)[i] = m[i + 1]
    BY <1>2, <1>4
  <2> QED
    BY <1>1, <1>2, <2>1
<1>8. Complete[[due |-> n, nodes |-> Tail(m)]]
  <2> DEFINE one == 1
             t == [due |-> one, nodes |-> m]
             u == CompletingStep(t)
  <2>1. t \in Completing /\ ~ CompletingDone(t)
    <3>1. t \in Completing
      BY <1>1 DEF Completing, S
    <3> QED
      BY <1>3, <3>1 DEF CompletingDone
  <2>2. u = [due |-> n, nodes |-> Tail(m)]
    <3>1. u = [due |-> 1 - 1 + Head(m).size, nodes |-> Tail(m)]
      BY DEF CompletingStep
    <3>2. 1 - 1 + Head(m).size = n
      BY <1>1, <1>4, <1>5
    <3> QED
      BY <3>1, <3>2
  <2>3. Complete[t]
    BY <1>1
  <2> HIDE DEF t, u
  <2>4. Complete[t] = Complete[CompletingStep(t)]
    BY <2>1, CompleteUnfolds DEF Completes!Value, SlicingMore
  <2> QED
    BY <2>2, <2>3, <2>4 DEF u
<1>9. <<m[1]>> \o Tail(m) = m
  <2>1. <<>> \in Seq(S)
    BY EmptySeq
  <2>2. Append(<<>>, Head(m)) \o Tail(m) = <<>> \o m
    BY <1>4, <2>1
  <2>3. Append(<<>>, Head(m)) = <<m[1]>>
    BY <1>4
  <2>4. <<>> \o m = m
    BY <1>1, ConcatEmptySeq
  <2> QED
    BY <2>2, <2>3, <2>4
<1> QED
  BY <1>1, <1>2, <1>3, <1>4, <1>5, <1>6, <1>7, <1>8, <1>9 DEF S

(* A request that was encoded is read by decodeMultiBulk.                  *)
LEMMA MultiIsRead ==
    ASSUME NEW m, IsRequest(m)
    PROVE  LET p == MultiAt(Enc[m]) IN p.ok /\ p.v = m /\ p.rest = <<>>
<1> DEFINE h == m[1]
           n == Len(m) - 1
           star == <<"*">>
           e == EncInt(n)
           r == Tail(m)
           w == Enc[r]
           s == Enc[m]
           types == {"$"}
           seen == <<h>>
<1>1. /\ m \in Seq(Nodes(Bytes)) /\ m # <<>> /\ Len(m) \in Nat /\ Len(m) > 1
      /\ Head(m) = h /\ h = Array(n, <<>>) /\ Sendable(h) /\ h \in Nodes(Bytes)
      /\ n \in 1..MaxArrayLen /\ InBuffer(n)
      /\ r \in Seq(Nodes(Bytes)) /\ Len(r) = n
      /\ \A i \in 1..n : Sendable(r[i]) /\ r[i].type \in types
      /\ Complete[[due |-> n, nodes |-> r]]
      /\ seen \o r = m
  BY RequestTyped
<1>2. s = EncNode(h) \o w /\ w \in Bytes /\ s \in Bytes
  BY <1>1, EncUnfolds
<1>3. n \in Nat /\ n > 0
  BY <1>1, Maxima
<1>4. EncNode(h) = star \o e
  <2>1. h.type = "*" /\ h.nil = FALSE /\ h.size = n
    BY <1>1 DEF Array
  <2> QED
    BY <2>1 DEF EncNode, EncBody, Text
<1>5. star \in Bytes /\ Len(star) = 1 /\ star[1] = "*"
  <2>1. "*" \in Byte
    BY CodecAssumption DEF Types
  <2> QED
    BY <2>1, Ones
<1> HIDE DEF star, n, w, r, seen, h, s
<1>6. /\ e \in Bytes /\ IntAt(e).ok /\ IntAt(e).v = n /\ IntAt(e).rest = <<>>
  BY <1>1, <1>3, IntIsRead
<1> HIDE DEF e
<1> DEFINE i == IntAt(e \o w)
<1>7. i.ok /\ i.v = n /\ i.rest = w
  <2>1. Extends(IntAt(e), IntAt(e \o w), w)
    BY <1>2, <1>6, IntOfMore
  <2>2. <<>> \o w = w
    BY <1>2, ConcatEmptySeq DEF Bytes
  <2> QED
    BY <1>6, <2>1, <2>2 DEF Extends
<1>8. s # <<>> /\ s[1] = "*" /\ Drop(s, 1) = e \o w
  <2> DEFINE x == e \o w
  <2>1. x \in Bytes
    BY <1>2, <1>6, Joined
  <2>2. s = star \o x
    BY <1>2, <1>4, <1>5, <1>6, Regroup
  <2> HIDE DEF x
  <2>3. /\ Len(s) = Len(star) + Len(x) /\ Len(x) \in Nat
        /\ \A k \in 1..Len(star) : s[k] = star[k]
    BY <1>5, <2>1, <2>2, Joined
  <2>4. s[1] = "*" /\ Len(s) > 0
    BY <1>5, <2>3
  <2>5. s # <<>>
    BY <1>2, <2>4, Lens
  <2>6. Drop(s, Len(star)) = x
    BY <1>5, <2>1, <2>2, PartsOfBoth
  <2> QED
    BY <1>5, <2>4, <2>5, <2>6 DEF x
<1>9. MultiAt(s) = PartsAt(w, n, types, seen)
  BY <1>1, <1>7, <1>8 DEF MultiAt, seen
<1>10. types \in SUBSET Types /\ seen \in Seq(Nodes(Bytes))
  BY <1>1 DEF Types, seen
<1> DEFINE p == PartsAt(w, n, types, seen)
<1> HIDE DEF types
<1>11. p.ok /\ p.v = seen \o r /\ p.rest = <<>>
  <2>1. \A k \in 1..Len(r) : Sendable(r[k]) /\ r[k].type \in types
    BY <1>1
  <2>2. r \in Seq(Nodes(Bytes)) /\ Complete[[due |-> n, nodes |-> r]]
    BY <1>1
  <2> QED
    BY <1>3, <1>10, <2>1, <2>2, PartsAreRead DEF w
<1> QED
  BY <1>1, <1>9, <1>11 DEF s

(* What the Encoder makes of a message of this kind...                     *)
IsOf(k, m) == IsMessage(m) /\ (k = "multi" => IsRequest(m))

(* Decoding undoes encoding: of the bytes that Encode or EncodeMultiBulk   *)
(* writes of a message, Decode or DecodeMultiBulk returns this message,    *)
(* and no byte is left (encoder.go 112-184, decoder.go 118-262).           *)
THEOREM MessageIsRead ==
    ASSUME NEW k \in Kinds, NEW m, IsOf(k, m)
    PROVE  LET p == MessageAt(k, Enc[m])
           IN  /\ m \in Seq(Nodes(Bytes)) /\ Enc[m] \in Bytes
               /\ p.ok /\ p.v = m /\ p.rest = <<>>
<1>1. m \in Seq(Nodes(Bytes)) /\ Enc[m] \in Bytes
  BY EncUnfolds DEF IsOf, IsMessage
<1>2. CASE k = "multi"
  BY <1>1, <1>2, MultiIsRead DEF IsOf, MessageAt
<1>3. CASE k # "multi"
  BY <1>1, <1>3, RespIsRead DEF IsOf, MessageAt
<1> QED
  BY <1>2, <1>3

-----------------------------------------------------------------------------
(* Two readers of the same stream decode the same.                         *)

AtOnceDone(t) == ~Decoded(t.kind, t.b).ok
AtOnceOut(t) == t.values
AtOnceStep(t) ==
    LET r == Decoded(t.kind, t.b)
    IN  [t EXCEPT !.b = r.b, !.values = Append(@, Seen(r.b, r.v))]
AtOnceRank(t) == Len(Stream(t.b))
Alike(t, u) ==
    /\ u.kind = t.kind /\ u.values = t.values /\ Stream(u.b) = Stream(t.b)
    /\ ~ t.b.err /\ ~ u.b.err
AtOnceAlike(t, v) == \A u \in AtOnceStates : Alike(t, u) => AtOnce[u] = v

AllAtOnce == INSTANCE Recursion
    WITH States <- AtOnceStates, Rank <- AtOnceRank, Done <- AtOnceDone, Out <- AtOnceOut,
         Step <- AtOnceStep, More <- SlicingMore, Good <- AtOnceAlike

(* AtOnce goes on by one message of the stream.                            *)
LEMMA AtOnceOn ==
    ASSUME NEW t \in AtOnceStates
    PROVE  LET s == Stream(t.b)
               r == Decoded(t.kind, t.b)
               p == MessageAt(t.kind, s)
           IN  /\ t.b \in Reader /\ t.kind \in Kinds /\ s \in Bytes /\ Len(s) \in Nat
               /\ DecodesAll(t.b, r, p)
               /\ r.ok \in BOOLEAN /\ (r.ok <=> ~ t.b.err /\ p.ok)
               /\ r.ok => /\ AtOnceStep(t) \in AtOnceStates /\ ~ AtOnceStep(t).b.err
                          /\ AtOnceStep(t).b = r.b /\ AtOnceStep(t).kind = t.kind
                          /\ Stream(r.b) = p.rest /\ Len(Stream(r.b)) < Len(s)
                          /\ AtOnceStep(t).values = Append(t.values, p.v)
<1> DEFINE b == t.b
           k == t.kind
           s == Stream(b)
           r == Decoded(k, b)
           p == MessageAt(k, s)
           u == AtOnceStep(t)
<1>1. b \in Reader /\ k \in Kinds /\ t.values \in Seq(Seq(Nodes(Bytes)))
  BY DEF AtOnceStates
<1>2. s \in Bytes
  BY <1>1, ReaderTyped
<1>3. Len(s) \in Nat
  BY <1>2, Lens
<1>4. DecodesAll(b, r, p)
  <2> HIDE DEF b, k
  <2> QED
    BY <1>1, MessageDecodes
<1>5. p.ok \in BOOLEAN /\ (p.ok => p.rest \in Bytes /\ Len(p.rest) < Len(s))
  <2> HIDE DEF s, k
  <2> QED
    BY <1>1, <1>2, MessageTyped
<1>6. u = [t EXCEPT !.b = r.b, !.values = Append(@, Seen(r.b, r.v))]
  BY DEF AtOnceStep
<1> HIDE DEF r, p, s, u
<1>7. /\ r.b \in Reader /\ r.ok \in BOOLEAN /\ (r.ok <=> ~ b.err /\ p.ok)
      /\ r.ok => /\ ~ r.b.err /\ Stream(r.b) = p.rest
                 /\ r.v \in Seq(Nodes(Slices)) /\ AllUsed(r.b, r.v) /\ Seen(r.b, r.v) = p.v
  BY <1>4 DEF DecodesAll, Decodes
<1>8. ASSUME r.ok
      PROVE  /\ u \in AtOnceStates /\ ~ u.b.err /\ u.b = r.b /\ u.kind = k
             /\ Stream(r.b) = p.rest /\ Len(Stream(r.b)) < Len(s)
             /\ u.values = Append(t.values, p.v)
  <2> DEFINE c == r.b
             v == Seen(r.b, r.v)
             S == Seq(Nodes(Bytes))
             values == Append(t.values, v)
  <2>1. v \in S
    <3> DEFINE w == r.v
    <3>1. c \in Reader /\ w \in Seq(Nodes(Slices)) /\ AllUsed(c, w)
      BY <1>7, <1>8
    <3> HIDE DEF c, w
    <3>2. Seen(c, w) \in Seq(Nodes(Bytes))
      BY <3>1, SeenTyped
    <3> QED
      BY <3>2 DEF c, w
  <2>2. values \in Seq(S)
    <3>1. t.values \in Seq(S)
      BY <1>1
    <3> HIDE DEF S, v
    <3> QED
      BY <2>1, <3>1, AppendProperties
  <2>3. u = [t EXCEPT !.b = c, !.values = values]
    BY <1>6
  <2> HIDE DEF c, values, v
  <2>4. u \in AtOnceStates /\ u.b = c /\ u.kind = k /\ u.values = values
    <3>1. c \in Reader
      BY <1>7 DEF c
    <3> QED
      BY <2>2, <2>3, <3>1 DEF AtOnceStates
  <2>5. values = Append(t.values, p.v)
    BY <1>7, <1>8 DEF values, v
  <2> QED
    BY <1>5, <1>7, <1>8, <2>4, <2>5 DEF c
<1> QED
  BY <1>1, <1>2, <1>3, <1>4, <1>7, <1>8 DEF r, p, s, u

(* Each message makes the stream shorter.                                  *)
LEMMA AtOnceDescends == AllAtOnce!Descends
<1> SUFFICES ASSUME NEW t \in AtOnceStates
             PROVE  /\ AtOnceRank(t) \in Nat
                    /\ ~ AtOnceDone(t) =>
                         AtOnceStep(t) \in AtOnceStates /\ AtOnceRank(AtOnceStep(t)) < AtOnceRank(t)
  BY DEF AllAtOnce!Descends
<1> QED
  BY AtOnceOn DEF AtOnceRank, AtOnceDone

(* AtOnce is what its recursion computes.                                  *)
LEMMA AtOnceUnfolds ==
    /\ AtOnce = [t \in AtOnceStates |-> AllAtOnce!Value(AtOnce, t)]
    /\ \A t \in AtOnceStates : AtOnce[t] = IF AtOnceDone(t) THEN t.values ELSE AtOnce[AtOnceStep(t)]
<1>1. \E f : f = [t \in AtOnceStates |-> AllAtOnce!Value(f, t)]
  BY AtOnceDescends, AllAtOnce!Exists
<1>2. \E f : f = [t \in AtOnceStates |->
          LET r == Decoded(t.kind, t.b)
          IN  IF ~r.ok THEN t.values
              ELSE f[[t EXCEPT !.b = r.b, !.values = Append(@, Seen(r.b, r.v))]]]
  BY <1>1 DEF AllAtOnce!Value, AtOnceDone, AtOnceOut, AtOnceStep, SlicingMore
<1>3. AtOnce = [t \in AtOnceStates |->
          LET r == Decoded(t.kind, t.b)
          IN  IF ~r.ok THEN t.values
              ELSE AtOnce[[t EXCEPT !.b = r.b, !.values = Append(@, Seen(r.b, r.v))]]]
  BY <1>2 DEF AtOnce
<1>4. AtOnce = [t \in AtOnceStates |-> AllAtOnce!Value(AtOnce, t)]
  BY <1>3 DEF AllAtOnce!Value, AtOnceDone, AtOnceOut, AtOnceStep, SlicingMore
<1>5. \A t \in AtOnceStates : AtOnce[t] = AllAtOnce!Value(AtOnce, t)
  BY <1>4
<1>6. \A t \in AtOnceStates : AtOnce[t] = IF AtOnceDone(t) THEN t.values ELSE AtOnce[AtOnceStep(t)]
  BY <1>5 DEF AllAtOnce!Value, AtOnceOut, SlicingMore
<1> QED
  BY <1>4, <1>6

(* Two readers of the same stream stay so when each decodes a message.     *)
LEMMA AlikeOn ==
    ASSUME NEW t \in AtOnceStates, NEW u \in AtOnceStates, Alike(t, u)
    PROVE  /\ AtOnceDone(u) <=> AtOnceDone(t)
           /\ ~ AtOnceDone(t) => Alike(AtOnceStep(t), AtOnceStep(u))
<1> DEFINE p == MessageAt(t.kind, Stream(t.b))
           r == Decoded(t.kind, t.b)
           q == Decoded(u.kind, u.b)
<1>1. /\ u.kind = t.kind /\ u.values = t.values /\ Stream(u.b) = Stream(t.b)
      /\ ~ t.b.err /\ ~ u.b.err
  BY DEF Alike
<1>2. /\ r.ok \in BOOLEAN /\ (r.ok <=> ~ t.b.err /\ p.ok)
      /\ r.ok => /\ ~ AtOnceStep(t).b.err
                 /\ AtOnceStep(t).b = r.b /\ AtOnceStep(t).kind = t.kind
                 /\ Stream(r.b) = p.rest
                 /\ AtOnceStep(t).values = Append(t.values, p.v)
  BY AtOnceOn
<1>3. /\ q.ok \in BOOLEAN /\ (q.ok <=> ~ u.b.err /\ p.ok)
      /\ q.ok => /\ ~ AtOnceStep(u).b.err
                 /\ AtOnceStep(u).b = q.b /\ AtOnceStep(u).kind = u.kind
                 /\ Stream(q.b) = p.rest
                 /\ AtOnceStep(u).values = Append(u.values, p.v)
  <2> DEFINE z == MessageAt(u.kind, Stream(u.b))
  <2>1. z = p
    BY <1>1
  <2>2. /\ q.ok \in BOOLEAN /\ (q.ok <=> ~ u.b.err /\ z.ok)
        /\ q.ok => /\ ~ AtOnceStep(u).b.err
                   /\ AtOnceStep(u).b = q.b /\ AtOnceStep(u).kind = u.kind
                   /\ Stream(q.b) = z.rest
                   /\ AtOnceStep(u).values = Append(u.values, z.v)
    BY AtOnceOn
  <2> HIDE DEF z, p, q
  <2> QED
    BY <2>1, <2>2
<1>4. (AtOnceDone(t) <=> ~ r.ok) /\ (AtOnceDone(u) <=> ~ q.ok)
  BY DEF AtOnceDone
<1> HIDE DEF p, q, r
<1> QED
  BY <1>1, <1>2, <1>3, <1>4 DEF Alike

(* What is decoded of a stream depends on its bytes only, not on how much  *)
(* of it is in the buffer.                                                 *)
LEMMA AtOnceIsAlike ==
    ASSUME NEW t \in AtOnceStates, NEW u \in AtOnceStates, Alike(t, u)
    PROVE  AtOnce[u] = AtOnce[t]
<1>1. ASSUME NEW x \in AtOnceStates, AtOnceDone(x) PROVE AtOnceAlike(x, AtOnceOut(x))
  <2> SUFFICES ASSUME NEW y \in AtOnceStates, Alike(x, y) PROVE AtOnce[y] = x.values
    BY DEF AtOnceAlike, AtOnceOut
  <2>1. AtOnceDone(y) /\ y.values = x.values
    BY <1>1, AlikeOn DEF Alike
  <2> QED
    BY <2>1, AtOnceUnfolds
<1>2. ASSUME NEW x \in AtOnceStates, NEW v, ~ AtOnceDone(x), AtOnceAlike(AtOnceStep(x), v)
      PROVE  AtOnceAlike(x, SlicingMore(x, v))
  <2> SUFFICES ASSUME NEW y \in AtOnceStates, Alike(x, y) PROVE AtOnce[y] = v
    BY DEF AtOnceAlike, SlicingMore
  <2>1. ~ AtOnceDone(y) /\ Alike(AtOnceStep(x), AtOnceStep(y))
    BY <1>2, AlikeOn
  <2>2. AtOnceStep(y) \in AtOnceStates
    BY <2>1, AtOnceOn DEF AtOnceDone
  <2>3. AtOnce[y] = AtOnce[AtOnceStep(y)]
    BY <2>1, AtOnceUnfolds
  <2> QED
    BY <1>2, <2>1, <2>2, <2>3 DEF AtOnceAlike
<1>3. \A x \in AtOnceStates : AtOnceAlike(x, AtOnce[x])
  BY <1>1, <1>2, AtOnceDescends, AtOnceUnfolds, AllAtOnce!Reaches
<1> QED
  BY <1>3 DEF AtOnceAlike

-----------------------------------------------------------------------------
(* The Writer and the encoder.                                             *)

(* What is written is on the wire and in the buffer; what is lost is none  *)
(* of it.                                                                  *)
Taking(w) == w.wire \o w.buf
Grows(w, x) == \E g \in Bytes : x.wire = w.wire \o g
Breaks(s, x) == \E g \in Bytes : g # <<>> /\ x.wire \o g = s
Wrote(w, p, x) ==
    /\ x \in Writer /\ x.limit = w.limit /\ x.err \in BOOLEAN
    /\ w.err => x = w
    /\ Grows(w, x)
    /\ ~ x.err => Taking(x) = Taking(w) \o p
    /\ ~ w.err /\ x.err => Breaks(Taking(w) \o p, x)

(* The fields of a Writer.                                                 *)
LEMMA WriterTyped ==
    ASSUME NEW w \in Writer
    PROVE  /\ w.buf \in Bytes /\ Len(w.buf) \in 0..WriterSize /\ w.err \in BOOLEAN
           /\ w.limit \in Nat /\ w.wire \in Bytes /\ Len(w.wire) \in 0..w.limit
           /\ Taking(w) \in Bytes /\ WriterSize \in Nat \ {0}
           /\ w = [buf |-> w.buf, err |-> w.err, limit |-> w.limit, wire |-> w.wire]
<1>1. /\ w.buf \in Bytes /\ Len(w.buf) <= WriterSize /\ w.err \in BOOLEAN
      /\ w.limit \in Nat /\ w.wire \in Bytes /\ Len(w.wire) <= w.limit
      /\ w = [buf |-> w.buf, err |-> w.err, limit |-> w.limit, wire |-> w.wire]
  BY DEF Writer
<1>2. Len(w.buf) \in Nat /\ Len(w.wire) \in Nat
  BY <1>1, Lens
<1>3. Taking(w) \in Bytes
  BY <1>1, Joined DEF Taking
<1>4. WriterSize \in Nat \ {0}
  BY BufioAssumption
<1> QED
  BY <1>1, <1>2, <1>3, <1>4

(* No bytes joined change nothing.                                         *)
LEMMA NoBytesMore ==
    ASSUME NEW s \in Bytes
    PROVE  s \o <<>> = s /\ <<>> \o s = s /\ <<>> \in Bytes /\ Len(<<>>) = 0
BY ConcatEmptySeq, EmptySeq DEF Bytes

(* Three pieces joined.                                                    *)
LEMMA Three ==
    ASSUME NEW s \in Bytes, NEW t \in Bytes, NEW u \in Bytes
    PROVE  /\ s \o t \in Bytes /\ t \o u \in Bytes /\ s \o (t \o u) \in Bytes
           /\ (s \o t) \o u = s \o (t \o u)
<1>1. s \o t \in Bytes /\ t \o u \in Bytes
  BY Joined
<1>2. s \o (t \o u) \in Bytes
  BY <1>1, Joined
<1>3. (s \o t) \o u = s \o (t \o u)
  BY Regroup
<1> QED
  BY <1>1, <1>2, <1>3

(* What is on the wire stays there.                                        *)
LEMMA GrowsOn ==
    ASSUME NEW w \in Writer, NEW x \in Writer, NEW y \in Writer, Grows(w, x), Grows(x, y)
    PROVE  Grows(w, y)
<1>1. PICK g \in Bytes : x.wire = w.wire \o g
  BY DEF Grows
<1>2. PICK h \in Bytes : y.wire = x.wire \o h
  BY DEF Grows
<1>3. w.wire \in Bytes
  BY WriterTyped
<1>5. (w.wire \o g) \o h = w.wire \o (g \o h) /\ g \o h \in Bytes
  BY <1>3, Three
<1>4. y.wire = w.wire \o (g \o h) /\ g \o h \in Bytes
  BY <1>1, <1>2, <1>5
<1> QED
  BY <1>4 DEF Grows

(* One write after another writes both.                                    *)
LEMMA WritesOn ==
    ASSUME NEW w \in Writer, NEW x, NEW y, NEW p \in Bytes, NEW q \in Bytes,
           Wrote(w, p, x), Wrote(x, q, y)
    PROVE  Wrote(w, p \o q, y)
<1> DEFINE s == Taking(w)
<1>1. x \in Writer /\ y \in Writer /\ x.err \in BOOLEAN /\ y.err \in BOOLEAN /\ w.err \in BOOLEAN
  BY WriterTyped DEF Wrote
<1>2. Grows(w, y)
  BY <1>1, GrowsOn DEF Wrote
<1>3. s \in Bytes
  BY WriterTyped
<1>4. (s \o p) \o q = s \o (p \o q) /\ s \o p \in Bytes
  BY <1>3, Three
<1>5. y.limit = w.limit /\ (w.err => y = w)
  BY DEF Wrote
<1>6. ASSUME ~ y.err PROVE Taking(y) = s \o (p \o q)
  <2>1. ~ x.err
    BY <1>6 DEF Wrote
  <2>2. Taking(x) = s \o p /\ Taking(y) = Taking(x) \o q
    BY <1>6, <2>1 DEF Wrote
  <2> QED
    BY <1>4, <2>2
<1>7. ASSUME ~ w.err, y.err PROVE Breaks(s \o (p \o q), y)
  <2>1. CASE ~ x.err
    <3>1. Taking(x) = s \o p /\ Breaks(Taking(x) \o q, y)
      BY <1>7, <2>1 DEF Wrote
    <3> QED
      BY <1>4, <3>1
  <2>2. CASE x.err
    <3>1. y = x /\ Breaks(s \o p, x)
      BY <1>7, <2>2 DEF Wrote
    <3>2. PICK g \in Bytes : g # <<>> /\ x.wire \o g = s \o p
      BY <3>1 DEF Breaks
    <3>3. x.wire \in Bytes
      BY <1>1, WriterTyped
    <3> HIDE DEF s
    <3>6. g \o q \in Bytes /\ (x.wire \o g) \o q = x.wire \o (g \o q)
      BY <3>2, <3>3, Three
    <3>4. x.wire \o (g \o q) = s \o (p \o q) /\ g \o q \in Bytes
      BY <1>4, <3>2, <3>6
    <3>5. g \o q # <<>>
      BY <3>2, ConcatEqualIffEmpty DEF Bytes
    <3> QED
      BY <3>1, <3>4, <3>5 DEF Breaks
  <2> QED
    BY <1>1, <2>1, <2>2
<1> QED
  BY <1>1, <1>2, <1>5, <1>6, <1>7 DEF Wrote

(* The socket takes all, or the beginning and fails.                       *)
LEMMA Sends ==
    ASSUME NEW w \in Writer, NEW p \in Bytes
    PROVE  LET s == ToSocket(w, p)
               n == Len(s.wire) - Len(w.wire)
           IN  /\ s \in Writer /\ s.buf = w.buf /\ s.limit = w.limit /\ s.err \in BOOLEAN
               /\ n \in 0..Len(p) /\ s.wire = w.wire \o Take(p, n)
               /\ s.err <=> n < Len(p)
               /\ s.err => \E g \in Bytes : g # <<>> /\ s.wire \o g = w.wire \o p
               /\ ~ s.err => s.wire = w.wire \o p
<1> DEFINE k == LeastOf(Len(p), w.limit - Len(w.wire))
           x == w.wire \o Take(p, k)
           e == k < Len(p)
           s == ToSocket(w, p)
<1>1. /\ w.buf \in Bytes /\ Len(w.buf) \in 0..WriterSize /\ w.err \in BOOLEAN
      /\ w.limit \in Nat /\ w.wire \in Bytes /\ Len(w.wire) \in 0..w.limit
      /\ WriterSize \in Nat
  BY WriterTyped
<1>2. Len(p) \in Nat
  BY Lens
<1>3. k \in 0..Len(p) /\ Len(w.wire) + k <= w.limit
  BY <1>1, <1>2 DEF LeastOf
<1>4. s = [w EXCEPT !.wire = x, !.err = e]
  BY DEF ToSocket, Take
<1> HIDE DEF k, s
<1>5. /\ Take(p, k) \in Bytes /\ Len(Take(p, k)) = k /\ Drop(p, k) \in Bytes
      /\ Len(Drop(p, k)) = Len(p) - k /\ Take(p, k) \o Drop(p, k) = p
  BY <1>3, Parts
<1>6. x \in Bytes /\ Len(x) = Len(w.wire) + k
  BY <1>1, <1>5, Joined
<1>7. e \in BOOLEAN
  OBVIOUS
<1>8. x \o Drop(p, k) = w.wire \o p
  <2>1. (w.wire \o Take(p, k)) \o Drop(p, k) = w.wire \o (Take(p, k) \o Drop(p, k))
    BY <1>1, <1>5, Regroup
  <2> QED
    BY <1>5, <2>1
<1> DEFINE f == k < Len(p)
<1> HIDE DEF x, e
<1>9. /\ s \in Writer /\ s.buf = w.buf /\ s.limit = w.limit /\ s.err = e /\ s.wire = x
  <2>1. w \in [buf : Bytes, err : BOOLEAN, limit : Nat, wire : Bytes]
    BY DEF Writer
  <2>2. /\ s \in [buf : Bytes, err : BOOLEAN, limit : Nat, wire : Bytes]
        /\ s.buf = w.buf /\ s.limit = w.limit /\ s.err = e /\ s.wire = x
    BY <1>4, <1>6, <1>7, <2>1
  <2>3. Len(s.buf) <= WriterSize /\ Len(s.wire) <= s.limit
    BY <1>1, <1>3, <1>6, <2>2
  <2> QED
    BY <2>2, <2>3 DEF Writer
<1>10. Len(s.wire) - Len(w.wire) = k
  BY <1>1, <1>3, <1>6, <1>9
<1>11. e <=> k < Len(p)
  BY DEF e
<1>12. ASSUME e PROVE \E g \in Bytes : g # <<>> /\ x \o g = w.wire \o p
  <2>1. Drop(p, k) # <<>>
    <3>1. Len(Drop(p, k)) > 0
      BY <1>2, <1>3, <1>5, <1>11, <1>12
    <3> QED
      BY <3>1, NoBytesMore
  <2> QED
    BY <1>5, <1>8, <2>1
<1>13. ASSUME ~ e PROVE x = w.wire \o p
  <2>1. k = Len(p)
    BY <1>2, <1>3, <1>11, <1>13
  <2>2. Take(p, k) = p
    BY <2>1, PartsOfNone
  <2> QED
    BY <2>2 DEF x
<1> QED
  BY <1>3, <1>7, <1>9, <1>10, <1>11, <1>12, <1>13 DEF s, x

(* flush puts what is buffered on the wire, or the beginning of it.        *)
LEMMA Flushes ==
    ASSUME NEW w \in Writer
    PROVE  /\ Wrote(w, <<>>, flush(w))
           /\ ~ flush(w).err => flush(w).buf = <<>> /\ flush(w).wire = Taking(w)
<1> DEFINE f == flush(w)
           s == ToSocket(w, w.buf)
<1>1. /\ w.buf \in Bytes /\ w.err \in BOOLEAN /\ w.wire \in Bytes /\ Taking(w) \in Bytes
  BY WriterTyped
<1>2. /\ Taking(w) \o <<>> = Taking(w) /\ w.wire \o <<>> = w.wire /\ <<>> \in Bytes /\ Len(<<>>) = 0
  BY <1>1, NoBytesMore
<1>3. Grows(w, w)
  BY <1>2 DEF Grows
<1>4. CASE w.err
  <2>1. f = w
    BY <1>4 DEF flush
  <2> HIDE DEF f
  <2> QED
    BY <1>1, <1>3, <1>4, <2>1 DEF Wrote, f
<1>5. CASE ~ w.err /\ w.buf = <<>>
  <2>1. f = w
    BY <1>5 DEF flush
  <2>2. Taking(w) = w.wire
    BY <1>2, <1>5 DEF Taking
  <2> HIDE DEF f
  <2> QED
    BY <1>1, <1>2, <1>3, <1>5, <2>1, <2>2 DEF Wrote, f
<1>6. CASE ~ w.err /\ w.buf # <<>>
  <2> DEFINE n == Len(s.wire) - Len(w.wire)
  <2>1. /\ s \in Writer /\ s.buf = w.buf /\ s.limit = w.limit /\ s.err \in BOOLEAN
        /\ n \in 0..Len(w.buf) /\ s.wire = w.wire \o Take(w.buf, n)
        /\ s.err => \E g \in Bytes : g # <<>> /\ s.wire \o g = w.wire \o w.buf
        /\ ~ s.err => s.wire = w.wire \o w.buf
    BY <1>1, Sends
  <2>2. f = IF s.err THEN s ELSE [s EXCEPT !.buf = <<>>]
    BY <1>6 DEF flush
  <2>3. Take(w.buf, n) \in Bytes
    <3> HIDE DEF n
    <3> QED
      BY <1>1, <2>1, Parts
  <2> HIDE DEF f, s, n
  <2>4. CASE s.err
    <3>1. f = s
      BY <2>2, <2>4
    <3>2. Grows(w, s)
      BY <2>1, <2>3 DEF Grows
    <3>3. Breaks(Taking(w) \o <<>>, s)
      BY <1>2, <2>1, <2>4 DEF Breaks, Taking
    <3> QED
      BY <1>6, <2>1, <2>4, <3>1, <3>2, <3>3 DEF Wrote, f
  <2>5. CASE ~ s.err
    <3>1. f = [s EXCEPT !.buf = <<>>]
      BY <2>2, <2>5
    <3>2. f \in Writer /\ f.buf = <<>> /\ f.limit = w.limit /\ f.err = s.err /\ f.wire = s.wire
      <4>1. /\ s \in [buf : Bytes, err : BOOLEAN, limit : Nat, wire : Bytes]
            /\ Len(s.wire) <= s.limit
        BY <2>1 DEF Writer
      <4>2. /\ f \in [buf : Bytes, err : BOOLEAN, limit : Nat, wire : Bytes]
            /\ f.buf = <<>> /\ f.limit = s.limit /\ f.err = s.err /\ f.wire = s.wire
        BY <1>2, <3>1, <4>1
      <4>3. Len(f.buf) <= WriterSize
        BY <1>2, <4>2, BufioAssumption
      <4> QED
        BY <2>1, <4>1, <4>2, <4>3 DEF Writer
    <3>3. f.wire = Taking(w)
      BY <2>1, <2>5, <3>2 DEF Taking
    <3>4. Taking(f) = Taking(w) \o <<>>
      BY <1>1, <1>2, <3>2, <3>3, NoBytesMore DEF Taking
    <3>5. Grows(w, f)
      BY <2>1, <2>3, <3>2 DEF Grows
    <3> QED
      BY <1>6, <2>1, <2>5, <3>2, <3>3, <3>4, <3>5 DEF Wrote, f
  <2> QED
    BY <2>1, <2>4, <2>5
<1> QED
  BY <1>1, <1>4, <1>5, <1>6

(* A Writer that has failed writes nothing.                                *)
LEMMA WroteNothing ==
    ASSUME NEW w \in Writer, NEW p \in Bytes, w.err
    PROVE  Wrote(w, p, w)
<1>1. w.wire \o <<>> = w.wire /\ <<>> \in Bytes /\ w.err \in BOOLEAN
  <2>1. w.wire \in Bytes /\ w.err \in BOOLEAN
    BY WriterTyped
  <2> QED
    BY <2>1, NoBytesMore
<1>2. Grows(w, w)
  BY <1>1 DEF Grows
<1> QED
  BY <1>1, <1>2 DEF Wrote

(* What fits is buffered.                                                  *)
LEMMA Appends ==
    ASSUME NEW w \in Writer, NEW p \in Bytes, ~ w.err, Len(w.buf) + Len(p) <= WriterSize
    PROVE  Wrote(w, p, [w EXCEPT !.buf = @ \o p])
<1> DEFINE a == w.buf \o p
           x == [w EXCEPT !.buf = a]
<1>1. /\ w.buf \in Bytes /\ w.err \in BOOLEAN /\ w.wire \in Bytes
      /\ w.limit \in Nat /\ Len(w.wire) <= w.limit
      /\ w \in [buf : Bytes, err : BOOLEAN, limit : Nat, wire : Bytes]
  BY DEF Writer
<1>2. a \in Bytes /\ Len(a) = Len(w.buf) + Len(p) /\ w.wire \o a = (w.wire \o w.buf) \o p
  <2>1. a \in Bytes /\ Len(a) = Len(w.buf) + Len(p)
    BY <1>1, Joined
  <2>2. w.wire \o a = (w.wire \o w.buf) \o p
    BY <1>1, Regroup
  <2> QED
    BY <2>1, <2>2
<1>3. w.wire \o <<>> = w.wire /\ <<>> \in Bytes
  BY <1>1, NoBytesMore
<1> HIDE DEF a
<1>4. /\ x \in [buf : Bytes, err : BOOLEAN, limit : Nat, wire : Bytes]
      /\ x.buf = a /\ x.err = w.err /\ x.limit = w.limit /\ x.wire = w.wire
  BY <1>1, <1>2
<1>5. x \in Writer
  BY <1>1, <1>2, <1>4 DEF Writer
<1>6. Grows(w, x)
  BY <1>3, <1>4 DEF Grows
<1>7. Taking(x) = Taking(w) \o p
  BY <1>2, <1>4 DEF Taking
<1>8. Wrote(w, p, x)
  <2> HIDE DEF x
  <2> QED
    BY <1>1, <1>4, <1>5, <1>6, <1>7 DEF Wrote
<1> QED
  BY <1>8 DEF a

(* What is yet to do for the rest of what is written.                      *)
LeftToWrite(t) ==
    IF t.w.err THEN 0 ELSE 2 * Len(t.p) + (IF t.w.buf = <<>> THEN 1 ELSE 2)
WritesPart(t, u) ==
    /\ u \in Writing /\ LeftToWrite(u) < LeftToWrite(t)
    /\ \E n \in 0..Len(t.p) : Wrote(t.w, Take(t.p, n), u.w) /\ u.p = Drop(t.p, n)

(* What a write works on.                                                  *)
LEMMA WritingTyped ==
    ASSUME NEW t \in Writing
    PROVE  /\ t.w \in Writer /\ t.p \in Bytes /\ Len(t.p) \in Nat /\ LeftToWrite(t) \in Nat
           /\ t.w.err \in BOOLEAN /\ available(t.w) \in 0..WriterSize /\ WriterSize \in Nat \ {0}
           /\ t.w.buf = <<>> => available(t.w) = WriterSize
           /\ Len(t.w.buf) + available(t.w) = WriterSize
<1>1. t.w \in Writer /\ t.p \in Bytes
  BY DEF Writing
<1>2. Len(t.p) \in Nat
  BY <1>1, Lens
<1>3. /\ t.w.buf \in Bytes /\ Len(t.w.buf) \in 0..WriterSize /\ t.w.err \in BOOLEAN
      /\ WriterSize \in Nat \ {0}
  BY <1>1, WriterTyped
<1>4. Len(t.w.buf) \in Nat /\ (Len(t.w.buf) = 0 <=> t.w.buf = <<>>)
  BY <1>3, Lens
<1>5. /\ available(t.w) \in 0..WriterSize
      /\ t.w.buf = <<>> => available(t.w) = WriterSize
      /\ Len(t.w.buf) + available(t.w) = WriterSize
  BY <1>3, <1>4 DEF available
<1>6. LeftToWrite(t) \in Nat
  <2> DEFINE m == Len(t.p)
             k == IF t.w.buf = <<>> THEN 1 ELSE 2
  <2>1. m \in Nat /\ k \in Nat
    BY <1>2
  <2>2. LeftToWrite(t) = IF t.w.err THEN 0 ELSE 2 * m + k
    BY DEF LeftToWrite
  <2> HIDE DEF m, k
  <2>3. 2 * m + k \in Nat
    BY <2>1
  <2> QED
    BY <2>2, <2>3
<1> QED
  BY <1>1, <1>2, <1>3, <1>5, <1>6

(* A round of WriteString fills the buffer and flushes it.                 *)
LEMMA BufferMoves ==
    ASSUME NEW t \in Writing, ~ Fits(t)
    PROVE  WritesPart(t, Buffer(t))
<1> DEFINE n == available(t.w)
           a == Take(t.p, n)
           b == Drop(t.p, n)
           x == [t.w EXCEPT !.buf = @ \o a]
           y == flush(x)
           u == [w |-> y, p |-> b]
<1>1. /\ t.w \in Writer /\ t.p \in Bytes /\ Len(t.p) \in Nat /\ LeftToWrite(t) \in Nat
      /\ n \in 0..WriterSize /\ WriterSize \in Nat \ {0}
      /\ t.w.buf = <<>> => n = WriterSize
      /\ Len(t.w.buf) + n = WriterSize
  BY WritingTyped
<1>2. ~ t.w.err /\ ~ (Len(t.p) <= n)
  BY DEF Fits
<1>3. Buffer(t) = u
  BY DEF Buffer, Take, Drop
<1>4. n \in 0..Len(t.p)
  BY <1>1, <1>2
<1> HIDE DEF n
<1>5. a \in Bytes /\ Len(a) = n /\ b \in Bytes /\ Len(b) = Len(t.p) - n
  BY <1>1, <1>4, Parts
<1> HIDE DEF a, b
<1>6. Wrote(t.w, a, x)
  <2>1. Len(t.w.buf) + Len(a) <= WriterSize
    BY <1>1, <1>5
  <2> QED
    BY <1>1, <1>2, <1>5, <2>1, Appends
<1> HIDE DEF x
<1>7. x \in Writer
  BY <1>6 DEF Wrote
<1>8. Wrote(x, <<>>, y) /\ (~ y.err => y.buf = <<>>)
  BY <1>7, Flushes
<1> HIDE DEF y
<1>9. a \o <<>> = a /\ <<>> \in Bytes
  BY <1>5, NoBytesMore
<1>10. Wrote(t.w, a, y)
  <2> DEFINE none == <<>>
  <2>1. none \in Bytes /\ a \o none = a /\ Wrote(x, none, y)
    BY <1>8, <1>9
  <2> HIDE DEF none
  <2>2. Wrote(t.w, a \o none, y)
    BY <1>1, <1>5, <1>6, <2>1, WritesOn
  <2> QED
    BY <2>1, <2>2
<1>11. y \in Writer /\ y.err \in BOOLEAN
  BY <1>10 DEF Wrote
<1>12. u \in Writing /\ u.w = y /\ u.p = b
  BY <1>5, <1>11 DEF Writing
<1> HIDE DEF u
<1>13. LeftToWrite(u) < LeftToWrite(t)
  <2>1. u.w.err => LeftToWrite(u) = 0
    BY DEF LeftToWrite
  <2>2. ~ u.w.err => LeftToWrite(u) = 2 * Len(b) + 1
    BY <1>8, <1>12 DEF LeftToWrite
  <2>3. LeftToWrite(t) = 2 * Len(t.p) + (IF t.w.buf = <<>> THEN 1 ELSE 2)
    BY <1>2 DEF LeftToWrite
  <2> DEFINE empty == t.w.buf = <<>>
             m == Len(t.p)
             k == Len(b)
  <2>4. n \in Nat /\ m \in Nat /\ n <= m /\ k = m - n /\ (empty => n > 0)
    BY <1>1, <1>4, <1>5
  <2>5. LeftToWrite(t) = 2 * m + (IF empty THEN 1 ELSE 2)
    BY <2>3
  <2>6. ~ u.w.err => LeftToWrite(u) = 2 * k + 1
    BY <2>2
  <2> HIDE DEF empty, m, k
  <2>7. 2 * k + 1 < 2 * m + (IF empty THEN 1 ELSE 2) /\ 0 < 2 * m + (IF empty THEN 1 ELSE 2)
    BY <2>4
  <2> QED
    BY <2>1, <2>5, <2>6, <2>7
<1>14. Wrote(t.w, Take(t.p, n), u.w) /\ u.p = Drop(t.p, n)
  BY <1>10, <1>12 DEF a, b
<1>15. WritesPart(t, u)
  BY <1>4, <1>12, <1>13, <1>14 DEF WritesPart
<1> QED
  BY <1>3, <1>15

(* A round of Write sends large data past an empty buffer, or fills it and *)
(* flushes it.                                                             *)
LEMMA SendMoves ==
    ASSUME NEW t \in Writing, ~ Fits(t)
    PROVE  WritesPart(t, BufferOrSend(t))
<1>1. CASE t.w.buf # <<>>
  BY <1>1, BufferMoves DEF BufferOrSend
<1>2. CASE t.w.buf = <<>>
  <2> DEFINE n == Len(t.p)
             x == ToSocket(t.w, t.p)
             u == [w |-> x, p |-> <<>>]
             k == Len(x.wire) - Len(t.w.wire)
  <2>1. /\ t.w \in Writer /\ t.p \in Bytes /\ Len(t.p) \in Nat
        /\ LeftToWrite(t) \in Nat /\ WriterSize \in Nat \ {0}
        /\ available(t.w) = WriterSize
    BY <1>2, WritingTyped
  <2>2. ~ t.w.err /\ ~ (Len(t.p) <= available(t.w))
    BY DEF Fits
  <2>3. BufferOrSend(t) = u
    BY <1>2 DEF BufferOrSend
  <2>4. /\ x \in Writer /\ x.buf = t.w.buf /\ x.limit = t.w.limit /\ x.err \in BOOLEAN
        /\ k \in 0..Len(t.p) /\ x.wire = t.w.wire \o Take(t.p, k)
        /\ x.err => \E g \in Bytes : g # <<>> /\ x.wire \o g = t.w.wire \o t.p
        /\ ~ x.err => x.wire = t.w.wire \o t.p
    BY <2>1, Sends
  <2>5. Take(t.p, k) \in Bytes
    <3> HIDE DEF k
    <3> QED
      BY <2>1, <2>4, Parts
  <2> HIDE DEF x, k
  <2>6. /\ t.w.wire \in Bytes /\ Taking(t.w) = t.w.wire
        /\ t.w.wire \o t.p \in Bytes /\ (t.w.wire \o t.p) \o <<>> = t.w.wire \o t.p
    <3>1. t.w.wire \in Bytes
      BY <2>1, WriterTyped
    <3>2. Taking(t.w) = t.w.wire
      BY <1>2, <3>1, NoBytesMore DEF Taking
    <3>3. t.w.wire \o t.p \in Bytes
      BY <2>1, <3>1, Joined
    <3>4. (t.w.wire \o t.p) \o <<>> = t.w.wire \o t.p
      BY <3>3, NoBytesMore
    <3> QED
      BY <3>1, <3>2, <3>3, <3>4
  <2>7. Grows(t.w, x)
    BY <2>4, <2>5 DEF Grows
  <2>8. ~ x.err => Taking(x) = Taking(t.w) \o t.p
    BY <1>2, <2>4, <2>6 DEF Taking
  <2>9. x.err => Breaks(Taking(t.w) \o t.p, x)
    BY <2>4, <2>6 DEF Breaks
  <2>10. Wrote(t.w, t.p, x)
    BY <2>2, <2>4, <2>7, <2>8, <2>9 DEF Wrote
  <2>11. Take(t.p, n) = t.p /\ Drop(t.p, n) = <<>> /\ n \in 0..Len(t.p) /\ <<>> \in Bytes
    <3>1. Take(t.p, n) = t.p /\ Drop(t.p, n) = <<>>
      BY <2>1, PartsOfNone
    <3>2. <<>> \in Bytes
      BY <2>1, NoBytesMore
    <3> QED
      BY <2>1, <3>1, <3>2
  <2>12. u \in Writing /\ u.w = x /\ u.p = <<>>
    BY <2>4, <2>11 DEF Writing
  <2> HIDE DEF u, n
  <2>13. LeftToWrite(u) < LeftToWrite(t)
    <3>1. u.w.err => LeftToWrite(u) = 0
      BY DEF LeftToWrite
    <3>2. ~ u.w.err => LeftToWrite(u) = 1
      <4>1. Len(u.p) = 0 /\ u.w.buf = <<>>
        BY <1>2, <2>1, <2>4, <2>12, NoBytesMore
      <4> QED
        BY <4>1 DEF LeftToWrite
    <3>3. LeftToWrite(t) = 2 * Len(t.p) + 1
      BY <1>2, <2>2 DEF LeftToWrite
    <3>4. Len(t.p) > 0
      BY <2>1, <2>2
    <3> QED
      BY <2>1, <3>1, <3>2, <3>3, <3>4
  <2>14. Wrote(t.w, Take(t.p, n), u.w) /\ u.p = Drop(t.p, n)
    BY <2>10, <2>11, <2>12
  <2>15. WritesPart(t, u)
    BY <2>11, <2>12, <2>13, <2>14 DEF WritesPart
  <2> QED
    BY <2>3, <2>15
<1> QED
  BY <1>1, <1>2

(* The last bytes that fit are buffered.                                   *)
LEMMA RestWrites ==
    ASSUME NEW t \in Writing, Fits(t)
    PROVE  Wrote(t.w, t.p, Rest(t))
<1>1. /\ t.w \in Writer /\ t.p \in Bytes /\ Len(t.p) \in Nat /\ available(t.w) \in 0..WriterSize
      /\ Len(t.w.buf) + available(t.w) = WriterSize /\ WriterSize \in Nat
  BY WritingTyped
<1>2. CASE t.w.err
  BY <1>1, <1>2, WroteNothing DEF Rest
<1>3. CASE ~ t.w.err
  <2>1. Len(t.w.buf) + Len(t.p) <= WriterSize
    <3>1. Len(t.p) <= available(t.w)
      BY <1>3 DEF Fits
    <3>2. t.w.buf \in Bytes
      BY <1>1, WriterTyped
    <3>3. Len(t.w.buf) \in Nat
      BY <3>2, Lens
    <3> DEFINE i == Len(t.w.buf)
               j == Len(t.p)
               k == available(t.w)
    <3>4. i \in Nat /\ j \in Nat /\ k \in Nat /\ i + k = WriterSize /\ j <= k /\ WriterSize \in Nat
      BY <1>1, <3>1, <3>3
    <3> HIDE DEF i, j, k
    <3>5. i + j <= WriterSize
      BY <3>4
    <3> QED
      BY <3>5 DEF i, j
  <2>2. Wrote(t.w, t.p, [t.w EXCEPT !.buf = @ \o t.p])
    BY <1>1, <1>3, <2>1, Appends
  <2> QED
    BY <1>3, <2>2 DEF Rest
<1> QED
  BY <1>2, <1>3

(* A round and then the rest write all.                                    *)
LEMMA MovesWrite ==
    ASSUME NEW t \in Writing, NEW u, WritesPart(t, u), NEW r, Wrote(u.w, u.p, r)
    PROVE  Wrote(t.w, t.p, r)
<1>1. u \in Writing
  BY DEF WritesPart
<1>2. PICK n \in 0..Len(t.p) : Wrote(t.w, Take(t.p, n), u.w) /\ u.p = Drop(t.p, n)
  BY DEF WritesPart
<1>3. t.w \in Writer /\ t.p \in Bytes
  BY WritingTyped
<1>4. Take(t.p, n) \in Bytes /\ Drop(t.p, n) \in Bytes /\ Take(t.p, n) \o Drop(t.p, n) = t.p
  BY <1>2, <1>3, Parts
<1> DEFINE a == Take(t.p, n)
           b == Drop(t.p, n)
<1>5. Wrote(t.w, a, u.w) /\ Wrote(u.w, b, r) /\ a \in Bytes /\ b \in Bytes
  BY <1>2, <1>4
<1> HIDE DEF a, b
<1>6. Wrote(t.w, a \o b, r)
  BY <1>3, <1>5, WritesOn
<1> QED
  BY <1>4, <1>6 DEF a, b

WritingOver(t, r) == Wrote(t.w, t.p, r)

Sending == INSTANCE Recursion
    WITH States <- Writing, Rank <- LeftToWrite, Done <- Fits, Out <- Rest,
         Step <- BufferOrSend, More <- SlicingMore, Good <- WritingOver
Buffering == INSTANCE Recursion
    WITH States <- Writing, Rank <- LeftToWrite, Done <- Fits, Out <- Rest,
         Step <- Buffer, More <- SlicingMore, Good <- WritingOver

(* Each round of Write leaves less to write.                               *)
LEMMA SendingDescends == Sending!Descends
<1> SUFFICES ASSUME NEW t \in Writing
             PROVE  /\ LeftToWrite(t) \in Nat
                    /\ ~ Fits(t) => /\ BufferOrSend(t) \in Writing
                                    /\ LeftToWrite(BufferOrSend(t)) < LeftToWrite(t)
  BY DEF Sending!Descends
<1> QED
  BY WritingTyped, SendMoves DEF WritesPart

(* Each round of WriteString leaves less to write.                         *)
LEMMA BufferingDescends == Buffering!Descends
<1> SUFFICES ASSUME NEW t \in Writing
             PROVE  /\ LeftToWrite(t) \in Nat
                    /\ ~ Fits(t) => /\ Buffer(t) \in Writing
                                    /\ LeftToWrite(Buffer(t)) < LeftToWrite(t)
  BY DEF Buffering!Descends
<1> QED
  BY WritingTyped, BufferMoves DEF WritesPart

(* Written is what the loop of Write computes.                             *)
LEMMA WrittenUnfolds == Written = [t \in Writing |-> Sending!Value(Written, t)]
<1>1. \E f : f = [t \in Writing |-> Sending!Value(f, t)]
  BY SendingDescends, Sending!Exists
<1>2. \E f : f = [t \in Writing |-> IF Fits(t) THEN Rest(t) ELSE f[BufferOrSend(t)]]
  BY <1>1 DEF Sending!Value, SlicingMore
<1>3. Written = [t \in Writing |-> IF Fits(t) THEN Rest(t) ELSE Written[BufferOrSend(t)]]
  BY <1>2 DEF Written
<1> QED
  BY <1>3 DEF Sending!Value, SlicingMore

(* Strung is what the loop of WriteString computes.                        *)
LEMMA StrungUnfolds == Strung = [t \in Writing |-> Buffering!Value(Strung, t)]
<1>1. \E f : f = [t \in Writing |-> Buffering!Value(f, t)]
  BY BufferingDescends, Buffering!Exists
<1>2. \E f : f = [t \in Writing |-> IF Fits(t) THEN Rest(t) ELSE f[Buffer(t)]]
  BY <1>1 DEF Buffering!Value, SlicingMore
<1>3. Strung = [t \in Writing |-> IF Fits(t) THEN Rest(t) ELSE Strung[Buffer(t)]]
  BY <1>2 DEF Strung
<1> QED
  BY <1>3 DEF Buffering!Value, SlicingMore

(* Write and WriteString write just p after what was written before, or    *)
(* fail after a part of it (bufio.go 227-272).                             *)
LEMMA WriteWrites ==
    ASSUME NEW w \in Writer, NEW p \in Bytes
    PROVE  Wrote(w, p, Write(w, p)) /\ Wrote(w, p, WriteString(w, p))
<1> DEFINE t == [w |-> w, p |-> p]
<1>1. t \in Writing /\ t.w = w /\ t.p = p
  BY DEF Writing
<1> HIDE DEF t
<1>2. \A s \in Writing : Fits(s) => WritingOver(s, Rest(s))
  BY RestWrites DEF WritingOver
<1>3. ASSUME NEW s \in Writing, NEW r, ~ Fits(s), WritingOver(BufferOrSend(s), r)
      PROVE  WritingOver(s, r)
  <2> DEFINE u == BufferOrSend(s)
  <2>1. WritesPart(s, u) /\ Wrote(u.w, u.p, r)
    BY <1>3, SendMoves DEF WritingOver
  <2> HIDE DEF u
  <2> QED
    BY <2>1, MovesWrite DEF WritingOver
<1>4. ASSUME NEW s \in Writing, NEW r, ~ Fits(s), WritingOver(Buffer(s), r)
      PROVE  WritingOver(s, r)
  <2> DEFINE u == Buffer(s)
  <2>1. WritesPart(s, u) /\ Wrote(u.w, u.p, r)
    BY <1>4, BufferMoves DEF WritingOver
  <2> HIDE DEF u
  <2> QED
    BY <2>1, MovesWrite DEF WritingOver
<1>5. \A s \in Writing : WritingOver(s, Written[s])
  <2>1. \A s \in Writing : \A r : ~ Fits(s) /\ WritingOver(BufferOrSend(s), r) =>
            WritingOver(s, SlicingMore(s, r))
    BY <1>3 DEF SlicingMore
  <2> QED
    BY <1>2, <2>1, SendingDescends, WrittenUnfolds, Sending!Reaches
<1>6. \A s \in Writing : WritingOver(s, Strung[s])
  <2>1. \A s \in Writing : \A r : ~ Fits(s) /\ WritingOver(Buffer(s), r) =>
            WritingOver(s, SlicingMore(s, r))
    BY <1>4 DEF SlicingMore
  <2> QED
    BY <1>2, <2>1, BufferingDescends, StrungUnfolds, Buffering!Reaches
<1>7. Write(w, p) = Written[t] /\ WriteString(w, p) = Strung[t]
  BY DEF Write, WriteString, t
<1> QED
  BY <1>1, <1>5, <1>6, <1>7 DEF WritingOver

(* WriteByte writes one byte.                                              *)
LEMMA WriteByteWrites ==
    ASSUME NEW w \in Writer, NEW c \in Byte
    PROVE  Wrote(w, <<c>>, WriteByte(w, c))
<1> DEFINE x == IF available(w) = 0 THEN flush(w) ELSE w
           y == IF x.err THEN x ELSE [x EXCEPT !.buf = Append(@, c)]
           one == <<c>>
           none == <<>>
<1>1. WriteByte(w, c) = y
  BY DEF WriteByte
<1>2. one \in Bytes /\ Len(one) = 1
  BY Ones
<1>3. none \in Bytes /\ none \o one = one
  BY <1>2, NoBytesMore
<1>4. /\ w.buf \in Bytes /\ Len(w.buf) \in 0..WriterSize /\ w.err \in BOOLEAN
      /\ Taking(w) \in Bytes /\ WriterSize \in Nat \ {0}
  BY WriterTyped
<1>5. Wrote(w, none, x) /\ (~ x.err => Len(x.buf) < WriterSize)
  <2>1. CASE available(w) = 0
    <3>1. x = flush(w)
      BY <2>1
    <3>2. Wrote(w, <<>>, flush(w)) /\ (~ flush(w).err => flush(w).buf = <<>>)
      BY Flushes
    <3>3. Len(<<>>) = 0 /\ 0 < WriterSize
      BY <1>4, NoBytesMore
    <3> QED
      BY <3>1, <3>2, <3>3
  <2>2. CASE available(w) # 0
    <3>1. x = w
      BY <2>2
    <3>2. Len(w.buf) < WriterSize
      BY <1>4, <2>2 DEF available
    <3>3. Wrote(w, none, w)
      <4>1. w.wire \o <<>> = w.wire /\ <<>> \in Bytes /\ Taking(w) \o none = Taking(w)
        <5>1. w.wire \in Bytes
          BY WriterTyped
        <5>2. w.wire \o <<>> = w.wire /\ <<>> \in Bytes
          BY <5>1, NoBytesMore
        <5>3. Taking(w) \o <<>> = Taking(w)
          BY <1>4, NoBytesMore
        <5> QED
          BY <5>2, <5>3
      <4>2. Grows(w, w)
        BY <4>1 DEF Grows
      <4> QED
        BY <1>4, <4>1, <4>2 DEF Wrote
    <3> HIDE DEF x
    <3> QED
      BY <3>1, <3>2, <3>3
  <2> QED
    BY <2>1, <2>2
<1> HIDE DEF x, none
<1>6. x \in Writer /\ x.err \in BOOLEAN
  BY <1>5 DEF Wrote
<1>7. Wrote(x, one, y)
  <2>1. CASE x.err
    <3>1. y = x
      BY <2>1
    <3> HIDE DEF one, y
    <3> QED
      BY <1>2, <1>6, <2>1, <3>1, WroteNothing
  <2>2. CASE ~ x.err
    <3>1. x.buf \in Bytes /\ Len(x.buf) \in Nat
      BY <1>6, WriterTyped
    <3>2. Append(x.buf, c) = x.buf \o one
      BY <3>1, Appended
    <3>3. y = [x EXCEPT !.buf = @ \o one]
      BY <2>2, <3>2
    <3>4. Len(x.buf) + Len(one) <= WriterSize
      BY <1>2, <1>4, <1>5, <2>2, <3>1
    <3> HIDE DEF one, y
    <3>5. Wrote(x, one, [x EXCEPT !.buf = @ \o one])
      BY <1>2, <1>6, <2>2, <3>4, Appends
    <3> QED
      BY <3>3, <3>5
  <2> QED
    BY <2>1, <2>2
<1> HIDE DEF one, y
<1>8. Wrote(w, none \o one, y)
  BY <1>2, <1>3, <1>5, <1>7, WritesOn
<1>9. Wrote(w, one, y)
  BY <1>3, <1>8
<1> QED
  BY <1>1, <1>9 DEF one

(* The bytes of a text.                                                    *)
LEMMA EncTextTyped ==
    ASSUME NEW s \in Bytes
    PROVE  EncText(s) \in Bytes /\ CRLF \in Bytes
<1>1. CRLF \in Bytes
  BY CRLFTyped
<1> QED
  BY <1>1, Joined DEF EncText

(* encodeTextBytes writes the text and CRLF.                               *)
LEMMA TextWrites ==
    ASSUME NEW w \in Writer, NEW s \in Bytes
    PROVE  Wrote(w, EncText(s), encodeTextBytes(w, s))
<1> DEFINE x == Write(w, s)
           y == WriteString(x, CRLF)
           z == CRLF
<1>1. z \in Bytes
  BY EncTextTyped
<1>2. Wrote(w, s, x)
  BY WriteWrites
<1> HIDE DEF x, z
<1>3. x \in Writer
  BY <1>2 DEF Wrote
<1>4. Wrote(x, z, WriteString(x, z))
  BY <1>1, <1>3, WriteWrites
<1>5. y = WriteString(x, z)
  BY DEF z
<1> HIDE DEF y
<1>6. Wrote(w, s \o z, y)
  BY <1>1, <1>2, <1>4, <1>5, WritesOn
<1> QED
  BY <1>6 DEF encodeTextBytes, EncText, x, y, z

(* encodeInt writes the number and CRLF, from the table or not.            *)
LEMMA IntWrites ==
    ASSUME NEW w \in Writer, NEW i \in Int
    PROVE  Wrote(w, EncInt(i), encodeInt(w, i)) /\ EncInt(i) \in Bytes
<1> DEFINE s == FormatInt(i)
           x == WriteString(w, s)
           y == WriteString(x, CRLF)
           z == CRLF
<1>1. s \in Bytes /\ itoa(i) = s
  BY ItoaIs
<1>2. encodeInt(w, i) = y
  BY <1>1 DEF encodeInt
<1> HIDE DEF s
<1>3. z \in Bytes
  BY <1>1, EncTextTyped
<1>4. Wrote(w, s, x)
  BY <1>1, WriteWrites
<1> HIDE DEF x, z
<1>5. x \in Writer
  BY <1>4 DEF Wrote
<1>6. Wrote(x, z, WriteString(x, z))
  BY <1>3, <1>5, WriteWrites
<1>7. y = WriteString(x, z)
  BY DEF z
<1> HIDE DEF y
<1>8. Wrote(w, s \o z, y)
  BY <1>1, <1>3, <1>4, <1>6, <1>7, WritesOn
<1>9. s \o z \in Bytes
  BY <1>1, <1>3, Joined
<1> QED
  BY <1>2, <1>8, <1>9 DEF EncInt, s, z

(* encodeNode writes the bytes of a node.                                  *)
LEMMA NodeWrites ==
    ASSUME NEW w \in Writer, NEW r \in Nodes(Bytes)
    PROVE  Wrote(w, EncNode(r), encodeNode(w, r))
<1> DEFINE x == WriteByte(w, r.type)
           y == encodeNode(w, r)
           body == EncBody(r)
           one == <<r.type>>
<1>1. r.type \in Types /\ r.nil \in BOOLEAN /\ r.value \in Bytes /\ r.size \in Nat
  BY DEF Nodes
<1>2. r.type \in Byte
  BY <1>1, CodecAssumption
<1>3. Wrote(w, one, x) /\ one \in Bytes
  BY <1>2, WriteByteWrites, Ones
<1>4. y = CASE r.type \in Text -> encodeTextBytes(x, r.value)
            [] r.type = "$" -> encodeBulkBytes(x, r)
            [] r.type = "*" -> encodeArray(x, r)
  BY DEF encodeNode
<1>5. "$" \notin Text /\ "*" \notin Text /\ "$" # "*"
  BY DEF Text
<1> HIDE DEF x, y, one
<1>6. x \in Writer
  BY <1>3 DEF Wrote
<1>7. Wrote(x, body, y)
  <2>1. CASE r.type \in Text
    <3>1. y = encodeTextBytes(x, r.value)
      BY <1>4, <1>5, <2>1
    <3>2. body = EncText(r.value)
      BY <2>1 DEF EncBody
    <3> HIDE DEF body
    <3> QED
      BY <1>1, <1>6, <3>1, <3>2, TextWrites
  <2>2. CASE r.type = "$" /\ r.nil
    <3>1. y = encodeInt(x, -1)
      BY <1>4, <1>5, <2>2 DEF encodeBulkBytes
    <3>2. body = EncInt(-1)
      BY <1>5, <2>2 DEF EncBody
    <3> DEFINE i == -1
    <3>3. i \in Int /\ y = encodeInt(x, i) /\ body = EncInt(i)
      BY <3>1, <3>2
    <3> HIDE DEF body, i
    <3> QED
      BY <1>6, <3>3, IntWrites
  <2>3. CASE r.type = "$" /\ ~ r.nil
    <3> DEFINE n == Len(r.value)
               u == encodeInt(x, n)
               a == EncInt(n)
               b == EncText(r.value)
    <3>1. y = encodeTextBytes(u, r.value)
      BY <1>4, <1>5, <2>3 DEF encodeBulkBytes
    <3>2. body = a \o b
      BY <1>5, <2>3 DEF EncBody
    <3>3. n \in Int
      BY <1>1, Lens
    <3> HIDE DEF n
    <3>4. Wrote(x, a, u) /\ a \in Bytes
      BY <1>6, <3>3, IntWrites
    <3> HIDE DEF u, a
    <3>5. u \in Writer
      BY <3>4 DEF Wrote
    <3>6. Wrote(u, b, y)
      BY <1>1, <3>1, <3>5, TextWrites
    <3>7. b \in Bytes
      BY <1>1, EncTextTyped
    <3> HIDE DEF b, body
    <3> QED
      BY <1>6, <3>2, <3>4, <3>6, <3>7, WritesOn
  <2>4. CASE r.type = "*"
    <3> DEFINE i == IF r.nil THEN -1 ELSE r.size
    <3>1. y = encodeInt(x, i)
      BY <1>4, <1>5, <2>4 DEF encodeArray
    <3>2. body = EncInt(i)
      BY <1>5, <2>4 DEF EncBody
    <3>3. i \in Int
      BY <1>1
    <3> HIDE DEF body, i
    <3> QED
      BY <1>6, <3>1, <3>2, <3>3, IntWrites
  <2> QED
    BY <1>1, <2>1, <2>2, <2>3, <2>4 DEF Types
<1>8. body \in Bytes
  BY EncNodeTyped
<1> HIDE DEF body
<1>9. Wrote(w, one \o body, y)
  BY <1>3, <1>7, <1>8, WritesOn
<1>10. EncNode(r) = one \o body
  BY DEF EncNode, one, body
<1> QED
  BY <1>9, <1>10 DEF y

EncodeDone(t) == t.nodes = <<>>
EncodeOut(t) == t.w
EncodeStep(t) == [w |-> encodeNode(t.w, Head(t.nodes)), nodes |-> Tail(t.nodes)]
EncodeRank(t) == Len(t.nodes)
EncodedOver(t, r) == Wrote(t.w, Enc[t.nodes], r)

NodeByNode == INSTANCE Recursion
    WITH States <- EncodeStates, Rank <- EncodeRank, Done <- EncodeDone, Out <- EncodeOut,
         Step <- EncodeStep, More <- SlicingMore, Good <- EncodedOver

(* encodeResp writes a node, and then the others.                          *)
LEMMA EncodesOn ==
    ASSUME NEW t \in EncodeStates
    PROVE  /\ t.w \in Writer /\ t.nodes \in Seq(Nodes(Bytes)) /\ Len(t.nodes) \in Nat
           /\ ~ EncodeDone(t) =>
                LET u == EncodeStep(t)
                    r == Head(t.nodes)
                IN  /\ u \in EncodeStates /\ Len(u.nodes) < Len(t.nodes)
                    /\ r \in Nodes(Bytes) /\ Wrote(t.w, EncNode(r), u.w)
                    /\ EncNode(r) \in Bytes /\ Enc[u.nodes] \in Bytes
                    /\ Enc[t.nodes] = EncNode(r) \o Enc[u.nodes]
<1>1. t.w \in Writer /\ t.nodes \in Seq(Nodes(Bytes))
  BY DEF EncodeStates
<1>2. Len(t.nodes) \in Nat
  BY <1>1, LenProperties
<1>3. ASSUME t.nodes # <<>>
      PROVE  LET u == EncodeStep(t)
                 r == Head(t.nodes)
             IN  /\ u \in EncodeStates /\ Len(u.nodes) < Len(t.nodes)
                 /\ r \in Nodes(Bytes) /\ Wrote(t.w, EncNode(r), u.w)
                 /\ EncNode(r) \in Bytes /\ Enc[u.nodes] \in Bytes
                 /\ Enc[t.nodes] = EncNode(r) \o Enc[u.nodes]
  <2> DEFINE s == t.nodes
             r == Head(s)
             rest == Tail(s)
             x == encodeNode(t.w, r)
             S == Nodes(Bytes)
             u == EncodeStep(t)
  <2>1. r \in S /\ rest \in Seq(S) /\ Len(rest) = Len(s) - 1
    <3>1. s \in Seq(S) /\ s # <<>>
      BY <1>1, <1>3
    <3> HIDE DEF S, s
    <3> QED
      BY <3>1, HeadAndTail
  <2>2. Enc[s] = EncNode(r) \o Enc[rest] /\ Enc[rest] \in Bytes
    BY <1>1, <1>3, <2>1, EncUnfolds
  <2>3. u = [w |-> x, nodes |-> rest]
    BY DEF EncodeStep
  <2> HIDE DEF r, rest, u
  <2>4. Wrote(t.w, EncNode(r), x)
    BY <1>1, <2>1, NodeWrites
  <2>5. EncNode(r) \in Bytes
    BY <2>1, EncNodeTyped
  <2> HIDE DEF x
  <2>6. x \in Writer
    BY <2>4 DEF Wrote
  <2>7. u \in EncodeStates /\ u.w = x /\ u.nodes = rest
    BY <2>1, <2>3, <2>6 DEF EncodeStates
  <2> QED
    BY <1>2, <2>1, <2>2, <2>4, <2>5, <2>7 DEF r, u
<1> QED
  BY <1>1, <1>2, <1>3 DEF EncodeDone

(* encodeResp works on one node less each time.                            *)
LEMMA EncodeDescends == NodeByNode!Descends
<1> SUFFICES ASSUME NEW t \in EncodeStates
             PROVE  /\ EncodeRank(t) \in Nat
                    /\ ~ EncodeDone(t) => /\ EncodeStep(t) \in EncodeStates
                                          /\ EncodeRank(EncodeStep(t)) < EncodeRank(t)
  BY DEF NodeByNode!Descends
<1> QED
  BY EncodesOn DEF EncodeRank

(* encodeResp is what its recursion computes.                              *)
LEMMA EncodeUnfolds == encodeResp = [t \in EncodeStates |-> NodeByNode!Value(encodeResp, t)]
<1>1. \E f : f = [t \in EncodeStates |-> NodeByNode!Value(f, t)]
  BY EncodeDescends, NodeByNode!Exists
<1>2. \E f : f = [t \in EncodeStates |->
          IF t.nodes = <<>> THEN t.w
          ELSE f[[w |-> encodeNode(t.w, Head(t.nodes)), nodes |-> Tail(t.nodes)]]]
  BY <1>1 DEF NodeByNode!Value, EncodeDone, EncodeOut, EncodeStep, SlicingMore
<1>3. encodeResp = [t \in EncodeStates |->
          IF t.nodes = <<>> THEN t.w
          ELSE encodeResp[[w |-> encodeNode(t.w, Head(t.nodes)), nodes |-> Tail(t.nodes)]]]
  BY <1>2 DEF encodeResp
<1> QED
  BY <1>3 DEF NodeByNode!Value, EncodeDone, EncodeOut, EncodeStep, SlicingMore

(* Every loop of bufio2 and of the RESP encoder and decoder ends, from any *)
(* state in which it can begin: a round that goes on lowers a rank and     *)
(* stays in such a state.  And the recursive function that stands for the  *)
(* loop has at every state the value that these rounds give it.  The loops *)
(* are ReadSlice, ReadBytes, Write and WriteString (bufio.go 115-162 and   *)
(* 227-272), io.ReadFull over Read, the digits of Btoi64, decodeResp       *)
(* and encodeResp with their calls of themselves, and the words of an      *)
(* inline request (decoder.go, encoder.go).                                *)
THEOREM LoopsEnd ==
    /\ Slicing!Descends
    /\ ReadSlice = [b \in Reader |-> Slicing!Value(ReadSlice, b)]
    /\ Lining!Descends
    /\ Line = [t \in LineStates |-> Lining!Value(Line, t)]
    /\ Sending!Descends
    /\ Written = [t \in Writing |-> Sending!Value(Written, t)]
    /\ Buffering!Descends
    /\ Strung = [t \in Writing |-> Buffering!Value(Strung, t)]
    /\ Collecting!Descends
    /\ Collect = [t \in CollectStates |-> Collecting!Value(Collect, t)]
    /\ Numbering!Descends
    /\ Number = [s \in Bytes |-> Numbering!Value(Number, s)]
    /\ Descending!Descends
    /\ Elements = [t \in Decoding |-> Descending!Value(Elements, t)]
    /\ NodeByNode!Descends
    /\ encodeResp =
         [t \in EncodeStates |-> NodeByNode!Value(encodeResp, t)]
    /\ Splits!Descends
    /\ Split = [t \in Splitting |-> Splits!Value(Split, t)]
<1>1. /\ Slicing!Descends
      /\ ReadSlice = [b \in Reader |-> Slicing!Value(ReadSlice, b)]
  BY SlicingDescends, ReadSliceUnfolds
<1>2. /\ Lining!Descends
      /\ Line = [t \in LineStates |-> Lining!Value(Line, t)]
  BY LiningDescends, LineUnfolds
<1>3. /\ Sending!Descends /\ Buffering!Descends
      /\ Written = [t \in Writing |-> Sending!Value(Written, t)]
      /\ Strung = [t \in Writing |-> Buffering!Value(Strung, t)]
  BY SendingDescends, WrittenUnfolds, BufferingDescends, StrungUnfolds
<1>4. /\ Collecting!Descends
      /\ Collect = [t \in CollectStates |-> Collecting!Value(Collect, t)]
  BY CollectingDescends, CollectUnfolds
<1>5. /\ Numbering!Descends
      /\ Number = [s \in Bytes |-> Numbering!Value(Number, s)]
  BY NumberingDescends, NumberUnfolds
<1>6. /\ Descending!Descends
      /\ Elements = [t \in Decoding |-> Descending!Value(Elements, t)]
  BY ElementsDescend, ElementsUnfold
<1>7. /\ NodeByNode!Descends
      /\ encodeResp =
           [t \in EncodeStates |-> NodeByNode!Value(encodeResp, t)]
  BY EncodeDescends, EncodeUnfolds
<1>8. /\ Splits!Descends
      /\ Split = [t \in Splitting |-> Splits!Value(Split, t)]
  BY SplittingDescends, SplitUnfolds
<1> QED
  BY <1>1, <1>2, <1>3, <1>4, <1>5, <1>6, <1>7, <1>8

(* Encode puts on the wire and in the buffer just the bytes of the message *)
(* after what was there, in this order, whatever the sizes of the buffer   *)
(* and the values; or it fails, and the wire has a beginning of them       *)
(* (encoder.go 112-184 over bufio.go 201-272).                             *)
THEOREM EncodeWrites ==
    ASSUME NEW w \in Writer, NEW m \in Seq(Nodes(Bytes))
    PROVE  Wrote(w, Enc[m], encodeResp[[w |-> w, nodes |-> m]])
<1>1. ASSUME NEW t \in EncodeStates, EncodeDone(t)
      PROVE  EncodedOver(t, EncodeOut(t))
  <2> DEFINE none == <<>>
             x == t.w
  <2>1. x \in Writer /\ t.nodes = none /\ Enc[none] = none
    BY <1>1, EncodesOn, EncUnfolds DEF EncodeDone
  <2>2. x.wire \in Bytes /\ Taking(x) \in Bytes /\ x.err \in BOOLEAN
    BY <2>1, WriterTyped
  <2>3. x.wire \o <<>> = x.wire /\ <<>> \in Bytes /\ Taking(x) \o <<>> = Taking(x)
    <3>1. x.wire \o <<>> = x.wire /\ <<>> \in Bytes
      BY <2>2, NoBytesMore
    <3>2. Taking(x) \o <<>> = Taking(x)
      BY <2>2, NoBytesMore
    <3> QED
      BY <3>1, <3>2
  <2>4. Taking(x) \o none = Taking(x)
    BY <2>3
  <2> HIDE DEF x
  <2>5. Grows(x, x)
    BY <2>3 DEF Grows
  <2> HIDE DEF none
  <2>6. Wrote(x, none, x)
    BY <2>1, <2>2, <2>4, <2>5 DEF Wrote
  <2> QED
    BY <2>1, <2>6 DEF EncodedOver, EncodeOut, x
<1>2. ASSUME NEW t \in EncodeStates, NEW r, ~ EncodeDone(t), EncodedOver(EncodeStep(t), r)
      PROVE  EncodedOver(t, r)
  <2> DEFINE u == EncodeStep(t)
             a == EncNode(Head(t.nodes))
             b == Enc[u.nodes]
  <2>1. /\ t.w \in Writer /\ Wrote(t.w, a, u.w) /\ a \in Bytes /\ b \in Bytes
        /\ Enc[t.nodes] = a \o b
    BY <1>2, EncodesOn
  <2>2. Wrote(u.w, b, r)
    BY <1>2 DEF EncodedOver
  <2> HIDE DEF u, a, b
  <2>3. Wrote(t.w, a \o b, r)
    BY <2>1, <2>2, WritesOn
  <2> QED
    BY <2>1, <2>3 DEF EncodedOver
<1>3. \A t \in EncodeStates : EncodedOver(t, encodeResp[t])
  <2>1. \A t \in EncodeStates : EncodeDone(t) => EncodedOver(t, EncodeOut(t))
    BY <1>1
  <2>2. \A t \in EncodeStates : \A r : ~ EncodeDone(t) /\ EncodedOver(EncodeStep(t), r) =>
            EncodedOver(t, SlicingMore(t, r))
    BY <1>2 DEF SlicingMore
  <2> QED
    BY <2>1, <2>2, EncodeDescends, EncodeUnfolds, NodeByNode!Reaches
<1> DEFINE t == [w |-> w, nodes |-> m]
<1>4. t \in EncodeStates /\ t.w = w /\ t.nodes = m
  BY DEF EncodeStates
<1> HIDE DEF t
<1> QED
  BY <1>3, <1>4 DEF EncodedOver, t

-----------------------------------------------------------------------------
(* Many messages on the wire: the sending end.                             *)

Messages == Seq(Nodes(Bytes))

(* What many messages are on the wire.                                     *)
Wires[ms \in Seq(Messages)] ==
    IF ms = <<>> THEN <<>> ELSE Wires[Front(ms)] \o Enc[Last(ms)]

WiresDone(ms) == ms = <<>>
WiresOut(ms) == <<>>
WiresStep(ms) == Front(ms)
WiresMore(ms, s) == s \o Enc[Last(ms)]
Begins(s, t) == \E x \in Bytes : t = s \o x
Wired(ms, s) ==
    /\ s = Wires[ms] /\ s \in Bytes
    /\ \A n \in 0..Len(ms) : Wires[Take(ms, n)] \in Bytes /\ Begins(Wires[Take(ms, n)], s)

AllWires == INSTANCE Recursion
    WITH States <- Seq(Messages), Rank <- Len, Done <- WiresDone,
         Out <- WiresOut, Step <- WiresStep, More <- WiresMore, Good <- Wired

(* A sequence is its front and its last element.                           *)
LEMMA FrontAndLast ==
    ASSUME NEW S, NEW s \in Seq(S), s # <<>>
    PROVE  /\ Front(s) \in Seq(S) /\ Last(s) \in S /\ Len(s) \in Nat \ {0}
           /\ Len(Front(s)) = Len(s) - 1 /\ Front(s) = Take(s, Len(s) - 1) /\ Last(s) = s[Len(s)]
<1>1. Len(s) \in Nat /\ Len(s) # 0
  BY EmptySeq, LenProperties
<1>2. Len(s) - 1 \in 0..Len(s) /\ Len(s) \in 1..Len(s) /\ Len(s) \in Nat \ {0}
  BY <1>1
<1>3. Front(s) = Take(s, Len(s) - 1) /\ Last(s) = s[Len(s)]
  BY DEF Front, Last, Take
<1>4. Take(s, Len(s) - 1) \in Seq(S) /\ Len(Take(s, Len(s) - 1)) = Len(s) - 1
  <2> DEFINE n == Len(s) - 1
  <2>1. n \in 0..Len(s)
    BY <1>2
  <2> HIDE DEF n
  <2>2. Take(s, n) \in Seq(S) /\ Len(Take(s, n)) = n
    BY <2>1, SeqParts
  <2> QED
    BY <2>2 DEF n
<1>5. s[Len(s)] \in S
  BY <1>2, ElementOfSeq
<1> QED
  BY <1>2, <1>3, <1>4, <1>5

(* Wires works on one message less each time.                              *)
LEMMA WiresDescend == AllWires!Descends
<1> SUFFICES ASSUME NEW ms \in Seq(Messages)
             PROVE  /\ Len(ms) \in Nat
                    /\ ms # <<>> => Front(ms) \in Seq(Messages) /\ Len(Front(ms)) < Len(ms)
  BY DEF AllWires!Descends, WiresDone, WiresStep
<1> HIDE DEF Messages
<1>1. Len(ms) \in Nat
  BY LenProperties
<1>2. ASSUME ms # <<>> PROVE Front(ms) \in Seq(Messages) /\ Len(Front(ms)) = Len(ms) - 1
  BY <1>2, FrontAndLast
<1> QED
  BY <1>1, <1>2

(* Wires is what its recursion computes.                                   *)
LEMMA WiresUnfold ==
    /\ Wires = [ms \in Seq(Messages) |-> AllWires!Value(Wires, ms)]
    /\ \A ms \in Seq(Messages) :
          Wires[ms] = IF ms = <<>> THEN <<>> ELSE Wires[Front(ms)] \o Enc[Last(ms)]
<1>1. \E f : f = [ms \in Seq(Messages) |-> AllWires!Value(f, ms)]
  BY WiresDescend, AllWires!Exists
<1>2. \E f : f = [ms \in Seq(Messages) |->
                     IF ms = <<>> THEN <<>> ELSE f[Front(ms)] \o Enc[Last(ms)]]
  BY <1>1 DEF AllWires!Value, WiresDone, WiresOut, WiresStep, WiresMore
<1>3. Wires = [ms \in Seq(Messages) |->
                     IF ms = <<>> THEN <<>> ELSE Wires[Front(ms)] \o Enc[Last(ms)]]
  BY <1>2 DEF Wires
<1>4. Wires = [ms \in Seq(Messages) |-> AllWires!Value(Wires, ms)]
  BY <1>3 DEF AllWires!Value, WiresDone, WiresOut, WiresStep, WiresMore
<1> QED
  BY <1>3, <1>4

(* The bytes of the first messages are the beginning of those of all.      *)
LEMMA WiresAreWired == \A ms \in Seq(Messages) : Wired(ms, Wires[ms])
<1>0. \A ms \in Seq(Messages) : Len(ms) \in Nat /\ Take(ms, Len(ms)) = ms
  <2> HIDE DEF Messages
  <2> TAKE ms \in Seq(Messages)
  <2>1. Len(ms) \in Nat
    BY LenProperties
  <2>2. Take(ms, Len(ms)) = ms
    BY SeqPartsOfNone
  <2> QED
    BY <2>1, <2>2
<1>1. ASSUME NEW ms \in Seq(Messages), WiresDone(ms)
      PROVE  Wired(ms, WiresOut(ms))
  <2>1. ms = <<>> /\ Wires[ms] = <<>>
    BY <1>1, WiresUnfold DEF WiresDone
  <2>2. <<>> \in Bytes /\ <<>> \o <<>> = <<>> /\ Len(<<>>) = 0
    <3>1. <<>> \in Bytes
      BY EmptySeq DEF Bytes
    <3> QED
      BY <3>1, NoBytesMore
  <2>3. Len(ms) = 0 /\ Take(ms, 0) = ms
    BY <1>0, <2>1, <2>2
  <2>4. Begins(Wires[ms], Wires[ms])
    BY <2>1, <2>2 DEF Begins
  <2>5. WiresOut(ms) = Wires[ms] /\ Wires[ms] \in Bytes
    BY <2>1, <2>2 DEF WiresOut
  <2>6. \A n \in 0..Len(ms) : n = 0
    BY <2>3
  <2> QED
    BY <2>3, <2>4, <2>5, <2>6 DEF Wired
<1>2. ASSUME NEW ms \in Seq(Messages), NEW s, ~ WiresDone(ms), Wired(WiresStep(ms), s)
      PROVE  Wired(ms, WiresMore(ms, s))
  <2> DEFINE f == Front(ms)
             m == Last(ms)
             e == Enc[m]
  <2>1. /\ f \in Seq(Messages) /\ m \in Messages /\ Len(ms) \in Nat \ {0}
        /\ Len(f) = Len(ms) - 1 /\ f = Take(ms, Len(ms) - 1)
    <3> DEFINE S == Messages
    <3>1. ms \in Seq(S) /\ ms # <<>>
      BY <1>2 DEF WiresDone
    <3> HIDE DEF S
    <3>2. /\ f \in Seq(S) /\ m \in S /\ Len(ms) \in Nat \ {0}
          /\ Len(f) = Len(ms) - 1 /\ f = Take(ms, Len(ms) - 1)
      BY <3>1, FrontAndLast
    <3> QED
      BY <3>2 DEF S
  <2>2. s = Wires[f] /\ s \in Bytes
    BY <1>2 DEF Wired, WiresStep
  <2>3. e \in Bytes
    BY <2>1, EncUnfolds DEF Messages
  <2>4. Wires[ms] = s \o e
    BY <1>2, <2>2, WiresUnfold DEF WiresDone
  <2>5. s \o e \in Bytes /\ (s \o e) \o <<>> = s \o e /\ <<>> \in Bytes
    <3>1. s \o e \in Bytes
      BY <2>2, <2>3, Joined
    <3> QED
      BY <3>1, NoBytesMore
  <2>6. ASSUME NEW n \in 0..Len(ms)
        PROVE  Wires[Take(ms, n)] \in Bytes /\ Begins(Wires[Take(ms, n)], s \o e)
    <3>1. CASE n = Len(ms)
      <4>1. Take(ms, n) = ms
        BY <1>0, <3>1
      <4>2. Begins(s \o e, s \o e)
        BY <2>5 DEF Begins
      <4> QED
        BY <2>4, <2>5, <4>1, <4>2
    <3>2. CASE n # Len(ms)
      <4>1. n \in 0..Len(f) /\ Len(ms) - 1 \in 0..Len(ms)
        BY <2>1, <3>2
      <4>2. Take(ms, n) = Take(f, n)
        <5> DEFINE k == Len(ms) - 1
                   S == Messages
        <5>1. k \in Nat /\ n \in Nat /\ k - n \in Nat /\ n + (k - n) = k /\ k <= Len(ms)
          BY <2>1, <4>1
        <5>2. f = Take(ms, k)
          BY <2>1
        <5>3. ms \in Seq(S)
          OBVIOUS
        <5> HIDE DEF k, f, S
        <5> DEFINE j == k - n
        <5>4. j \in Nat /\ n + j = k /\ n + j <= Len(ms)
          BY <5>1
        <5> HIDE DEF j
        <5>5. Take(Take(ms, n + j), n) = Take(ms, n)
          BY <5>1, <5>3, <5>4, SeqPartsOfParts
        <5> QED
          BY <5>2, <5>4, <5>5
      <4> HIDE DEF f, e
      <4>3. Wires[Take(f, n)] \in Bytes /\ Begins(Wires[Take(f, n)], s)
        BY <1>2, <4>1 DEF Wired, WiresStep, f
      <4> DEFINE w == Wires[Take(f, n)]
      <4>4. PICK x \in Bytes : s = w \o x
        BY <4>3 DEF Begins
      <4>5. w \in Bytes
        BY <4>3
      <4> HIDE DEF w
      <4>6. (w \o x) \o e = w \o (x \o e) /\ x \o e \in Bytes
        BY <2>3, <4>4, <4>5, Three
      <4>7. Begins(w, s \o e)
        BY <4>4, <4>6 DEF Begins
      <4> QED
        BY <4>2, <4>5, <4>7 DEF w
    <3> QED
      BY <3>1, <3>2
  <2>7. WiresMore(ms, s) = s \o e
    BY DEF WiresMore
  <2> HIDE DEF e, f, m
  <2> QED
    BY <2>4, <2>5, <2>6, <2>7 DEF Wired
<1>3. \A ms \in Seq(Messages) : WiresDone(ms) => Wired(ms, WiresOut(ms))
  BY <1>1
<1>4. \A ms \in Seq(Messages) : \A s :
          ~ WiresDone(ms) /\ Wired(WiresStep(ms), s) => Wired(ms, WiresMore(ms, s))
  BY <1>2
<1> QED
  BY <1>3, <1>4, WiresDescend, WiresUnfold, AllWires!Reaches

(* One message after those before.                                         *)
LEMMA WiresOfMore ==
    ASSUME NEW ms \in Seq(Messages), NEW m \in Messages
    PROVE  /\ Append(ms, m) \in Seq(Messages) /\ Wires[ms] \in Bytes /\ Enc[m] \in Bytes
           /\ Wires[Append(ms, m)] = Wires[ms] \o Enc[m]
<1> DEFINE S == Messages
           t == Append(ms, m)
<1>1. ms \in Seq(S) /\ m \in S
  OBVIOUS
<1>2. Enc[m] \in Bytes /\ Wires[ms] \in Bytes
  BY EncUnfolds, WiresAreWired DEF Messages, Wired
<1> HIDE DEF S
<1>3. /\ t \in Seq(S) /\ t # <<>> /\ Len(ms) \in Nat /\ Len(t) = Len(ms) + 1
      /\ Front(t) = ms /\ Last(t) = m
  <2>1. /\ t \in Seq(S) /\ Len(ms) \in Nat /\ Len(t) = Len(ms) + 1
        /\ \A i \in 1..Len(ms) : t[i] = ms[i]
        /\ t[Len(ms) + 1] = m
    BY <1>1, AppendProperties, LenProperties
  <2>2. t # <<>>
    BY <2>1, EmptySeq
  <2>3. Last(t) = m
    BY <2>1 DEF Last
  <2>4. Front(t) = ms
    <3> HIDE DEF t
    <3> DEFINE u == Front(t)
    <3>1. u \in Seq(S) /\ Len(u) = Len(t) - 1 /\ u = Take(t, Len(t) - 1)
      BY <2>1, <2>2, FrontAndLast
    <3>2. Len(t) - 1 = Len(ms) /\ Len(ms) \in 0..Len(t)
      BY <2>1
    <3> DEFINE n == Len(ms)
    <3>3. n \in 0..Len(t) /\ u = Take(t, n) /\ Len(u) = n
      BY <3>1, <3>2
    <3> HIDE DEF n
    <3>4. \A i \in 1..n : Take(t, n)[i] = t[i]
      BY <2>1, <3>3, SeqParts
    <3>5. \A i \in 1..Len(ms) : u[i] = ms[i]
      BY <2>1, <3>3, <3>4 DEF n
    <3> HIDE DEF u
    <3>6. u = ms
      BY <1>1, <3>1, <3>2, <3>5, SeqEqual
    <3> QED
      BY <3>6 DEF u
  <2> QED
    BY <2>1, <2>2, <2>3, <2>4
<1>4. Wires[t] = Wires[ms] \o Enc[m]
  BY <1>3, WiresUnfold DEF S
<1> QED
  BY <1>2, <1>3, <1>4 DEF S

(* The bytes of one message more.                                          *)
LEMMA WiresAt ==
    ASSUME NEW ms \in Seq(Messages), NEW n \in 0..Len(ms)
    PROVE  /\ Wires[ms] \in Bytes /\ Take(ms, n) \in Seq(Messages) /\ Len(Take(ms, n)) = n
           /\ Wires[Take(ms, n)] \in Bytes /\ Begins(Wires[Take(ms, n)], Wires[ms])
           /\ n < Len(ms) =>
                /\ ms[n + 1] \in Messages
                /\ Enc[ms[n + 1]] \in Bytes /\ n + 1 \in 0..Len(ms)
                /\ Wires[Take(ms, n + 1)] = Wires[Take(ms, n)] \o Enc[ms[n + 1]]
<1>1. /\ Wires[ms] \in Bytes /\ Wires[Take(ms, n)] \in Bytes
      /\ Begins(Wires[Take(ms, n)], Wires[ms])
  BY WiresAreWired DEF Wired
<1>2. Take(ms, n) \in Seq(Messages) /\ Len(Take(ms, n)) = n /\ Len(ms) \in Nat
  <2> HIDE DEF Messages
  <2>1. Take(ms, n) \in Seq(Messages) /\ Len(Take(ms, n)) = n
    BY SeqParts
  <2> QED
    BY <2>1, LenProperties
<1>3. ASSUME n < Len(ms)
      PROVE  /\ ms[n + 1] \in Messages
             /\ Enc[ms[n + 1]] \in Bytes /\ n + 1 \in 0..Len(ms)
             /\ Wires[Take(ms, n + 1)] = Wires[Take(ms, n)] \o Enc[ms[n + 1]]
  <2> DEFINE k == n + 1
             t == Take(ms, k)
             one == 1
             S == Messages
  <2>1. k \in 0..Len(ms) /\ k \in 1..Len(ms) /\ k - 1 = n /\ n \in Nat /\ k = n + one /\ one \in Nat
        /\ k <= Len(ms)
    BY <1>2, <1>3
  <2>2. ms \in Seq(S)
    OBVIOUS
  <2> HIDE DEF k, one, S
  <2>3. ms[k] \in S
    BY <2>1, <2>2, ElementOfSeq
  <2>4. t \in Seq(S) /\ Len(t) = k /\ \A i \in 1..k : t[i] = ms[i]
    BY <2>1, <2>2, SeqParts
  <2>5. Take(Take(ms, n + one), n) = Take(ms, n)
    BY <2>1, <2>2, SeqPartsOfParts
  <2> HIDE DEF t
  <2>6. t # <<>>
    BY <2>1, <2>4, EmptySeq
  <2>7. Front(t) = Take(t, k - 1) /\ Last(t) = t[k]
    BY <2>4, <2>6, FrontAndLast
  <2>8. Front(t) = Take(ms, n) /\ Last(t) = ms[k]
    <3>1. k \in 1..k
      BY <2>1
    <3> QED
      BY <2>1, <2>4, <2>5, <2>7, <3>1 DEF t
  <2>9. Wires[t] = Wires[Front(t)] \o Enc[Last(t)]
    BY <2>4, <2>6, WiresUnfold DEF S
  <2>10. Enc[ms[k]] \in Bytes
    BY <2>3, EncUnfolds DEF S, Messages
  <2> QED
    BY <2>1, <2>3, <2>8, <2>9, <2>10 DEF k, t, S
<1> QED
  BY <1>1, <1>2, <1>3

(* Equal beginnings leave equal rests.                                     *)
LEMMA Cancels ==
    ASSUME NEW s \in Bytes, NEW t \in Bytes, NEW u \in Bytes, s \o t = s \o u
    PROVE  t = u
BY SameParts

(* Bytes that more bytes leave as they are were followed by none.          *)
LEMMA Longer ==
    ASSUME NEW s \in Bytes, NEW x \in Bytes
    PROVE  s \o x = s => x = <<>>
<1>1. Len(s \o x) = Len(s) + Len(x) /\ Len(s) \in Nat /\ Len(x) \in Nat
  BY Joined
<1>2. Len(x) = 0 <=> x = <<>>
  BY Lens
<1> QED
  BY <1>1, <1>2

(* The beginning of a beginning is one.                                    *)
LEMMA BeginsOn ==
    ASSUME NEW s \in Bytes, NEW t \in Bytes, NEW u \in Bytes, Begins(s, t), Begins(t, u)
    PROVE  Begins(s, u)
<1>1. PICK x \in Bytes : t = s \o x
  BY DEF Begins
<1>2. PICK y \in Bytes : u = t \o y
  BY DEF Begins
<1>4. x \in Bytes /\ y \in Bytes
  BY <1>1, <1>2
<1>5. x \o y \in Bytes
  BY <1>4, Joined
<1>3. (s \o x) \o y = s \o (x \o y) /\ x \o y \in Bytes
  <2>1. (s \o x) \o y = s \o (x \o y)
    BY <1>4, Regroup
  <2> QED
    BY <1>5, <2>1
<1> QED
  BY <1>1, <1>2, <1>3 DEF Begins

MessagesOf(k) == IF k = "multi" THEN Requests ELSE Replies

(* What may be sent are messages of this kind.                             *)
LEMMA MessagesTyped ==
    ASSUME NEW k \in Kinds, NEW m \in MessagesOf(k)
    PROVE  IsOf(k, m) /\ m \in Messages /\ m \in Requests \cup Replies
<1>1. m \in Requests => IsRequest(m)
  BY CodecAssumption
<1>2. m \in Replies => IsMessage(m)
  BY CodecAssumption
<1>3. IsMessage(m) /\ (k = "multi" => IsRequest(m)) /\ m \in Requests \cup Replies
  BY <1>1, <1>2 DEF MessagesOf, IsRequest
<1>4. m \in Messages
  BY <1>3 DEF IsMessage, Messages
<1> QED
  BY <1>3, <1>4 DEF IsOf

(* What was sent are messages.                                             *)
LEMMA SentTyped ==
    ASSUME NEW k \in Kinds, NEW ms \in Seq(MessagesOf(k))
    PROVE  /\ ms \in Seq(Messages) /\ Len(ms) \in Nat /\ ms \in Seq(Requests \cup Replies)
           /\ \A i \in 1..Len(ms) : ms[i] \in MessagesOf(k)
<1> DEFINE S == MessagesOf(k)
<1>1. ms \in Seq(S)
  OBVIOUS
<1>2. S \subseteq Messages /\ S \subseteq Requests \cup Replies
  BY MessagesTyped
<1> HIDE DEF S, Messages
<1>3. Len(ms) \in Nat /\ \A i \in 1..Len(ms) : ms[i] \in S
  BY <1>1, LenProperties, ElementOfSeq
<1>4. ms = [i \in 1..Len(ms) |-> ms[i]]
  BY <1>1, LenProperties
<1>5. ms \in Seq(Messages)
  BY <1>2, <1>3, <1>4, IsASeq
<1>6. ms \in Seq(Requests \cup Replies)
  BY <1>2, <1>3, <1>4, IsASeq
<1> QED
  BY <1>3, <1>5, <1>6 DEF S

(* What the writer is given after these messages.                          *)
LEMMA WritesMore ==
    ASSUME NEW w \in Writer, ~ w.err, NEW ms \in Seq(Messages), Taking(w) = Wires[ms],
           NEW m \in Messages, NEW x, Wrote(w, Enc[m], x)
    PROVE  LET more == Append(ms, m)
           IN  /\ ~ x.err => Taking(x) = Wires[more]
               /\ x.err => Begins(x.wire, Wires[more]) /\ x.wire # Wires[more]
<1> DEFINE t == Wires[Append(ms, m)]
<1>1. t = Taking(w) \o Enc[m] /\ t \in Bytes
  <2>1. Wires[ms] \in Bytes /\ Enc[m] \in Bytes /\ t = Wires[ms] \o Enc[m]
    BY WiresOfMore
  <2> DEFINE a == Wires[ms]
             b == Enc[m]
  <2>2. a \in Bytes /\ b \in Bytes
    BY <2>1
  <2> HIDE DEF a, b
  <2>3. a \o b \in Bytes
    BY <2>2, Joined
  <2> QED
    BY <2>1, <2>3 DEF a, b
<1> HIDE DEF t
<1>2. ~ x.err => Taking(x) = t
  BY <1>1 DEF Wrote
<1>3. ASSUME x.err PROVE Begins(x.wire, t) /\ x.wire # t
  <2>1. PICK g \in Bytes : g # <<>> /\ x.wire \o g = t
    BY <1>1, <1>3 DEF Wrote, Breaks
  <2>2. x.wire \in Bytes
    <3>1. x \in Writer
      BY DEF Wrote
    <3> QED
      BY <3>1, WriterTyped
  <2>3. x.wire # t
    BY <2>1, <2>2, Longer
  <2> QED
    BY <2>1, <2>3 DEF Begins
<1> QED
  BY <1>2, <1>3 DEF t

(* What is on the wire is the beginning of what was sent, or of that and   *)
(* of                                                                      *)
(* one message more that is not complete.                                  *)
Ahead(k, w, ms, all) ==
    /\ all = ms \/ \E m \in MessagesOf(k) : all = Append(ms, m)
    /\ Begins(w.wire, Wires[all]) /\ (all # ms => w.wire # Wires[all])

SentState(k, w, ms, n) ==
    /\ k \in Kinds /\ w \in Writer /\ ms \in Seq(MessagesOf(k)) /\ n \in 0..Len(ms)
    /\ Begins(Wires[Take(ms, n)], w.wire)
    /\ ~ w.err => Taking(w) = Wires[ms]
    /\ \E all : Ahead(k, w, ms, all)

(* Encode, with a flush or without, writes the bytes of the message.       *)
LEMMA MessageWrites ==
    ASSUME NEW w \in Writer, NEW m \in Messages, NEW doFlush \in BOOLEAN
    PROVE  LET e == encodeResp[[w |-> w, nodes |-> m]]
               x == IF doFlush THEN flush(e) ELSE e
           IN  Wrote(w, Enc[m], x) /\ (doFlush /\ ~ x.err => x.wire = Taking(x))
<1> DEFINE e == encodeResp[[w |-> w, nodes |-> m]]
           x == flush(e)
           p == Enc[m]
           none == <<>>
<1>1. Wrote(w, p, e) /\ p \in Bytes
  BY EncodeWrites, EncUnfolds DEF Messages
<1> HIDE DEF e, p
<1>2. e \in Writer
  BY <1>1 DEF Wrote
<1>3. Wrote(e, none, x) /\ (~ x.err => x.buf = none)
  BY <1>2, Flushes
<1>4. p \o none = p /\ none \in Bytes
  BY <1>1, NoBytesMore
<1> HIDE DEF x, none
<1>5. Wrote(w, p, x)
  <2>1. Wrote(w, p \o none, x)
    BY <1>1, <1>3, <1>4, WritesOn
  <2> QED
    BY <1>4, <2>1
<1>6. ~ x.err => x.wire = Taking(x)
  <2>1. x \in Writer
    BY <1>5 DEF Wrote
  <2>2. x.wire \in Bytes
    BY <2>1, WriterTyped
  <2>3. x.wire \o none = x.wire
    BY <2>2, NoBytesMore DEF none
  <2> QED
    BY <1>3, <2>3 DEF Taking
<1> QED
  BY <1>1, <1>5, <1>6 DEF e, p, x

(* What was flushed stays flushed.                                         *)
LEMMA FlushedStays ==
    ASSUME NEW k, NEW w, NEW ms, NEW n, SentState(k, w, ms, n), NEW p, NEW x, Wrote(w, p, x)
    PROVE  Begins(Wires[Take(ms, n)], x.wire)
<1> DEFINE s == Wires[Take(ms, n)]
           t == w.wire
           u == x.wire
<1>1. k \in Kinds /\ w \in Writer /\ ms \in Seq(MessagesOf(k)) /\ n \in 0..Len(ms) /\ Begins(s, t)
  BY DEF SentState
<1>2. ms \in Seq(Messages)
  BY <1>1, SentTyped
<1>3. s \in Bytes
  BY <1>1, <1>2, WiresAt
<1>4. x \in Writer /\ Begins(t, u)
  BY DEF Wrote, Grows, Begins
<1>5. t \in Bytes /\ u \in Bytes
  BY <1>1, <1>4, WriterTyped
<1> HIDE DEF s, t, u
<1>6. Begins(s, u)
  BY <1>1, <1>3, <1>4, <1>5, BeginsOn
<1> QED
  BY <1>6 DEF s, u

(* Encode keeps the sending end's part of the invariant.                   *)
LEMMA SentMore ==
    ASSUME NEW k, NEW w, NEW ms, NEW n, SentState(k, w, ms, n), ~ w.err,
           NEW m \in MessagesOf(k), NEW x, Wrote(w, Enc[m], x),
           NEW doFlush \in BOOLEAN, doFlush /\ ~ x.err => x.wire = Taking(x)
    PROVE  LET more == IF x.err THEN ms ELSE Append(ms, m)
           IN  SentState(k, x, more, IF doFlush /\ ~ x.err THEN Len(more) ELSE n)
<1> DEFINE all == Append(ms, m)
<1>1. k \in Kinds /\ w \in Writer /\ ms \in Seq(MessagesOf(k)) /\ n \in 0..Len(ms)
      /\ Taking(w) = Wires[ms]
  BY DEF SentState
<1>2. ms \in Seq(Messages) /\ Len(ms) \in Nat /\ m \in Messages
  BY <1>1, SentTyped, MessagesTyped
<1>3. /\ ~ x.err => Taking(x) = Wires[all]
      /\ x.err => Begins(x.wire, Wires[all]) /\ x.wire # Wires[all]
  BY <1>1, <1>2, WritesMore
<1>4. x \in Writer /\ x.err \in BOOLEAN
  BY DEF Wrote
<1>5. Begins(Wires[Take(ms, n)], x.wire)
  BY FlushedStays
<1>6. CASE x.err
  <2>1. Ahead(k, x, ms, all)
    BY <1>3, <1>6 DEF Ahead
  <2>2. SentState(k, x, ms, n)
    BY <1>1, <1>4, <1>5, <1>6, <2>1 DEF SentState
  <2> QED
    BY <1>6, <2>2
<1>7. CASE ~ x.err
  <2> DEFINE j == IF doFlush THEN Len(all) ELSE n
  <2>1. all \in Seq(MessagesOf(k)) /\ Len(all) = Len(ms) + 1
    <3> DEFINE S == MessagesOf(k)
    <3>1. ms \in Seq(S) /\ m \in S
      BY <1>1
    <3> HIDE DEF S
    <3>2. all \in Seq(S) /\ Len(all) = Len(ms) + 1
      BY <3>1, AppendProperties
    <3> QED
      BY <3>2 DEF S
  <2>2. all \in Seq(Messages) /\ Wires[all] \in Bytes
    BY <1>1, <2>1, SentTyped, WiresAreWired DEF Wired
  <2>3. x.wire \in Bytes /\ x.buf \in Bytes
    BY <1>4, WriterTyped
  <2>4. Wires[all] = x.wire \o x.buf
    BY <1>3, <1>7 DEF Taking
  <2>5. Begins(x.wire, Wires[all])
    BY <2>3, <2>4 DEF Begins
  <2>6. Ahead(k, x, all, all)
    BY <2>5 DEF Ahead
  <2>7. j \in 0..Len(all)
    BY <1>1, <1>2, <2>1
  <2>8. Begins(Wires[Take(all, j)], x.wire)
    <3>1. CASE doFlush
      <4>1. Take(all, j) = all
        <5> HIDE DEF all
        <5>1. Take(all, Len(all)) = all
          BY <2>1, SeqPartsOfNone
        <5> QED
          BY <3>1, <5>1
      <4>2. x.wire = Wires[all]
        BY <1>3, <1>7, <3>1
      <4>3. x.wire \o <<>> = x.wire /\ <<>> \in Bytes
        BY <2>3, NoBytesMore
      <4> QED
        BY <4>1, <4>2, <4>3 DEF Begins
    <3>2. CASE ~ doFlush
      <4>1. Take(all, n) = Take(ms, n)
        <5> DEFINE S == Messages
                   one == <<m>>
        <5>1. ms \in Seq(S) /\ one \in Seq(S) /\ all = ms \o one
          <6>1. m \in S
            BY <1>2
          <6>2. ms \in Seq(S)
            BY <1>2
          <6> HIDE DEF S
          <6>3. one \in Seq(S)
            BY <6>1
          <6>4. all = ms \o one
            BY <6>1, <6>2, AppendIsConcat
          <6> QED
            BY <6>2, <6>3, <6>4 DEF S
        <5> HIDE DEF S, one, all
        <5>2. Take(ms \o one, n) = Take(ms, n)
          BY <1>1, <5>1, SeqPartsOfMore
        <5> QED
          BY <5>1, <5>2
      <4> QED
        BY <1>5, <3>2, <4>1
    <3> QED
      BY <3>1, <3>2
  <2> HIDE DEF all, j
  <2>9. SentState(k, x, all, j)
    BY <1>1, <1>3, <1>4, <2>1, <2>6, <2>7, <2>8 DEF SentState
  <2> QED
    BY <1>7, <2>9 DEF all, j
<1> QED
  BY <1>4, <1>6, <1>7

(* Flush keeps the sending end's part of the invariant.                    *)
LEMMA SentFlushed ==
    ASSUME NEW k, NEW w, NEW ms, NEW n, SentState(k, w, ms, n), ~ w.err
    PROVE  LET x == flush(w)
           IN  SentState(k, x, ms, IF x.err THEN n ELSE Len(ms))
<1> DEFINE x == flush(w)
           s == Wires[ms]
           none == <<>>
<1>1. k \in Kinds /\ w \in Writer /\ ms \in Seq(MessagesOf(k)) /\ n \in 0..Len(ms)
      /\ Taking(w) = s
  BY DEF SentState
<1>2. ms \in Seq(Messages) /\ Len(ms) \in Nat
  BY <1>1, SentTyped
<1>3. Wrote(w, none, x) /\ (~ x.err => x.buf = none /\ x.wire = s)
  BY <1>1, Flushes
<1>4. s \in Bytes /\ s \o none = s /\ none \in Bytes
  <2>1. s \in Bytes
    BY <1>2, WiresAreWired DEF Wired
  <2> HIDE DEF s
  <2> QED
    BY <2>1, NoBytesMore
<1>5. Begins(Wires[Take(ms, n)], x.wire)
  BY <1>3, FlushedStays
<1> HIDE DEF x, s, none
<1>6. x \in Writer /\ x.err \in BOOLEAN
  BY <1>3 DEF Wrote
<1>7. CASE x.err
  <2>1. Breaks(s, x)
    BY <1>1, <1>3, <1>4, <1>7 DEF Wrote
  <2>2. Begins(x.wire, s)
    BY <2>1 DEF Breaks, Begins
  <2>3. Ahead(k, x, ms, ms)
    BY <2>2 DEF Ahead, s
  <2>4. SentState(k, x, ms, n)
    BY <1>1, <1>5, <1>6, <1>7, <2>3 DEF SentState
  <2> QED
    BY <1>7, <2>4 DEF x
<1>8. CASE ~ x.err
  <2>1. Begins(s, s)
    BY <1>4 DEF Begins
  <2>2. Ahead(k, x, ms, ms)
    BY <1>3, <1>8, <2>1 DEF Ahead, s
  <2>3. Take(ms, Len(ms)) = ms /\ Len(ms) \in 0..Len(ms)
    <3>1. Take(ms, Len(ms)) = ms
      BY <1>1, SeqPartsOfNone
    <3> QED
      BY <1>2, <3>1
  <2>4. Begins(Wires[Take(ms, Len(ms))], x.wire)
    BY <1>3, <1>8, <2>1, <2>3 DEF s
  <2>5. Taking(x) = Wires[ms]
    BY <1>1, <1>3, <1>4, <1>8 DEF Wrote, s
  <2>6. SentState(k, x, ms, Len(ms))
    BY <1>1, <1>6, <2>2, <2>3, <2>4, <2>5 DEF SentState
  <2> QED
    BY <1>8, <2>6 DEF x
<1> QED
  BY <1>6, <1>7, <1>8

-----------------------------------------------------------------------------
(* The receiving end.                                                      *)

(* Equal rests are left by equal beginnings.                               *)
LEMMA CancelsRight ==
    ASSUME NEW s \in Bytes, NEW t \in Bytes, NEW z \in Bytes, s \o z = t \o z
    PROVE  s = t
<1>1. Len(s \o z) = Len(s) + Len(z) /\ Len(s) \in Nat /\ Len(z) \in Nat
  BY Joined
<1>2. Len(t \o z) = Len(t) + Len(z) /\ Len(t) \in Nat
  BY Joined
<1>3. Len(s) = Len(t)
  BY <1>1, <1>2
<1> QED
  BY <1>3, SameParts

(* A message is read wherever it is in a stream, and no byte more.         *)
LEMMA ReadHere ==
    ASSUME NEW k \in Kinds, NEW m, IsOf(k, m), NEW x \in Bytes
    PROVE  LET p == MessageAt(k, Enc[m] \o x)
           IN  p.ok /\ p.v = m /\ p.rest = x
<1> DEFINE e == Enc[m]
           q == MessageAt(k, e)
           p == MessageAt(k, e \o x)
<1>1. e \in Bytes /\ q.ok /\ q.v = m /\ q.rest = <<>>
  BY MessageIsRead
<1> HIDE DEF e
<1>2. Extends(q, p, x)
  BY <1>1, MessageOfMore
<1> HIDE DEF p, q
<1>3. p.ok /\ p.v = m /\ p.rest = <<>> \o x
  BY <1>1, <1>2 DEF Extends
<1>4. <<>> \o x = x
  BY NoBytesMore
<1>5. p.rest = x
  BY <1>3, <1>4
<1> QED
  BY <1>3, <1>5 DEF p, e

(* Two readings of one stream: all of a message, or its beginning.         *)
ReadsAs(k, m, y, s, z) ==
    LET p == MessageAt(k, s)
    IN  Enc[m] \o y = s \o z /\ p.ok =>
          p.v = m /\ p.rest \in Bytes /\ y = p.rest \o z /\ s = Enc[m] \o p.rest

(* A stream that begins as the bytes of a message is read as this message, *)
(* or is a part of them.                                                   *)
LEMMA ReadOnce ==
    ASSUME NEW k \in Kinds, NEW m, IsOf(k, m), NEW y \in Bytes,
           NEW s \in Bytes, NEW z \in Bytes
    PROVE  ReadsAs(k, m, y, s, z)
<1> DEFINE e == Enc[m]
           p == MessageAt(k, s)
           q == MessageAt(k, s \o z)
           g == MessageAt(k, e \o y)
<1>12. g.ok /\ g.v = m /\ g.rest = y
  BY ReadHere
<1>3. Extends(p, q, z)
  BY MessageOfMore
<1>4. e \in Bytes
  BY MessageIsRead
<1>13. p.ok => p.rest \in Bytes
  BY MessageTyped
<1> SUFFICES ASSUME e \o y = s \o z, p.ok
             PROVE  p.v = m /\ p.rest \in Bytes /\ y = p.rest \o z /\ s = e \o p.rest
  BY DEF ReadsAs
<1>1. p.rest \in Bytes
  BY <1>13
<1>2. q.ok /\ q.v = m /\ q.rest = y
  <2>1. g = q
    OBVIOUS
  <2> HIDE DEF g, q
  <2> QED
    BY <1>12, <2>1
<1>5. p.ok /\ e \o y = s \o z
  OBVIOUS
<1> HIDE DEF e, p, q
<1>6. p.v = m /\ y = p.rest \o z
  BY <1>2, <1>3, <1>5 DEF Extends
<1> DEFINE r == p.rest
<1>7. r \in Bytes /\ y = r \o z
  BY <1>1, <1>6
<1> HIDE DEF r
<1>8. e \o r \in Bytes
  BY <1>4, <1>7, Joined
<1>9. (e \o r) \o z = e \o (r \o z)
  BY <1>4, <1>7, Regroup
<1>10. (e \o r) \o z = s \o z
  BY <1>5, <1>7, <1>9
<1>11. e \o r = s
  BY <1>8, <1>10, CancelsRight
<1> QED
  BY <1>6, <1>7, <1>11 DEF e, p, r

(* Of what was flushed all is read.                                        *)
LEMMA FlushedIsRead ==
    ASSUME NEW k, NEW w, NEW ms, NEW n, SentState(k, w, ms, n),
           NEW j \in Nat, j < n, NEW s \in Bytes, w.wire = Wires[Take(ms, j)] \o s
    PROVE  MessageAt(k, s).ok
<1> DEFINE ns == Take(ms, n)
           m == ms[j + 1]
           e == Enc[m]
           a == Wires[Take(ms, j)]
           b == Wires[Take(ms, j + 1)]
           c == Wires[ns]
           t == w.wire
<1>1. /\ k \in Kinds /\ w \in Writer /\ ms \in Seq(MessagesOf(k)) /\ n \in 0..Len(ms)
      /\ Begins(c, t)
  BY DEF SentState
<1>2. ms \in Seq(Messages) /\ Len(ms) \in Nat
  BY <1>1, SentTyped
<1>3. j \in 0..Len(ms) /\ j < Len(ms) /\ j + 1 \in 1..Len(ms) /\ n \in Nat
  BY <1>1, <1>2
<1>4. m \in MessagesOf(k)
  BY <1>1, <1>3, SentTyped
<1>5. IsOf(k, m)
  BY <1>1, <1>4, MessagesTyped
<1>6. a \in Bytes /\ e \in Bytes /\ b = a \o e
  BY <1>2, <1>3, WiresAt
<1>7. ns \in Seq(Messages) /\ Len(ns) = n /\ c \in Bytes
  BY <1>1, <1>2, WiresAt
<1>8. Begins(b, c) /\ b \in Bytes
  <2> DEFINE i == j + 1
             d == n - i
  <2>1. i \in 0..n /\ d \in Nat /\ i + d = n /\ n <= Len(ms) /\ i \in Nat
    BY <1>1, <1>3
  <2> DEFINE S == Messages
  <2>2. ms \in Seq(S)
    BY <1>2
  <2> HIDE DEF i, d, S
  <2>3. Take(Take(ms, i + d), i) = Take(ms, i)
    BY <2>1, <2>2, SeqPartsOfParts
  <2>4. Take(ns, i) = Take(ms, i)
    BY <2>1, <2>3
  <2> HIDE DEF ns
  <2>5. Wires[Take(ns, i)] \in Bytes /\ Begins(Wires[Take(ns, i)], Wires[ns])
    BY <1>7, <2>1, WiresAt
  <2> QED
    BY <2>4, <2>5 DEF i
<1>9. t \in Bytes
  BY <1>1, WriterTyped
<1> HIDE DEF b, c, t, e, a
<1>10. Begins(b, t)
  BY <1>1, <1>7, <1>8, <1>9, BeginsOn
<1>11. PICK y \in Bytes : t = b \o y
  BY <1>10 DEF Begins
<1>12. y \in Bytes
  BY <1>11
<1>13. (a \o e) \o y = a \o (e \o y)
  BY <1>6, <1>12, Regroup
<1>14. e \o y \in Bytes
  BY <1>6, <1>12, Joined
<1>15. a \o s = a \o (e \o y)
  BY <1>6, <1>11, <1>13 DEF t, a
<1>16. s = e \o y
  BY <1>6, <1>14, <1>15, Cancels
<1>17. MessageAt(k, e \o y).ok
  BY <1>1, <1>5, <1>12, ReadHere DEF e
<1> QED
  BY <1>16, <1>17

(* The stream s is left of the wire when j messages are read.              *)
LeftOf(w, ms, j, s) == w.wire = Wires[Take(ms, j)] \o s

(* What is read of a stream that began with j messages is the next one.    *)
LEMMA ReadIsNext ==
    ASSUME NEW k, NEW w, NEW ms, NEW n, SentState(k, w, ms, n),
           NEW j \in 0..Len(ms), NEW s \in Bytes, LeftOf(w, ms, j, s),
           MessageAt(k, s).ok
    PROVE  LET p == MessageAt(k, s)
           IN  /\ j < Len(ms) /\ p.v = ms[j + 1] /\ p.rest \in Bytes
               /\ LeftOf(w, ms, j + 1, p.rest)
<1> DEFINE p == MessageAt(k, s)
           t == w.wire
           a == Wires[Take(ms, j)]
<1>1. /\ k \in Kinds /\ w \in Writer /\ ms \in Seq(MessagesOf(k)) /\ t \in Bytes
  BY WriterTyped DEF SentState
<1>2. PICK all : Ahead(k, w, ms, all)
  BY DEF SentState
<1>3. ms \in Seq(Messages) /\ Len(ms) \in Nat
  BY <1>1, SentTyped
<1>4. /\ all \in Seq(MessagesOf(k)) /\ Len(all) \in Nat
      /\ Len(all) = Len(ms) + (IF all = ms THEN 0 ELSE 1)
      /\ \A i \in 0..Len(ms) : Take(all, i) = Take(ms, i)
      /\ \A i \in 1..Len(ms) : all[i] = ms[i]
  <2>1. CASE all = ms
    BY <1>1, <1>3, <2>1
  <2>2. CASE all # ms
    <3> DEFINE S == MessagesOf(k)
    <3>1. PICK m \in S : all = Append(ms, m)
      BY <1>2, <2>2 DEF Ahead
    <3> DEFINE one == <<m>>
    <3>2. ms \in Seq(S)
      BY <1>1
    <3> HIDE DEF S
    <3>3. /\ all \in Seq(S) /\ Len(all) = Len(ms) + 1
          /\ \A i \in 1..Len(ms) : all[i] = ms[i]
      BY <3>1, <3>2, AppendProperties
    <3>4. one \in Seq(S) /\ all = ms \o one
      BY <3>1, <3>2, AppendIsConcat
    <3> HIDE DEF one
    <3>5. \A i \in 0..Len(ms) : Take(all, i) = Take(ms, i)
      BY <3>2, <3>4, SeqPartsOfMore
    <3> QED
      BY <1>3, <2>2, <3>3, <3>5 DEF S
  <2> QED
    BY <2>1, <2>2
<1>5. all \in Seq(Messages)
  BY <1>1, <1>4, SentTyped
<1> DEFINE u == Wires[all]
<1>6. u \in Bytes /\ a \in Bytes
  BY <1>3, <1>5, WiresAt, WiresAreWired DEF Wired
<1>7. PICK z \in Bytes : u = t \o z
  BY <1>2 DEF Ahead, Begins
<1>8. z \in Bytes /\ s \o z \in Bytes
  BY <1>7, Joined
<1>9. u = a \o (s \o z)
  <2> HIDE DEF a, t, u
  <2>1. t = a \o s
    BY DEF t, a, LeftOf
  <2>2. (a \o s) \o z = a \o (s \o z)
    BY <1>6, <1>8, Regroup
  <2> QED
    BY <1>7, <2>1, <2>2
<1>10. p.ok /\ p.rest \in Bytes /\ Len(p.rest) < Len(s) /\ Len(s) \in Nat /\ Len(p.rest) \in Nat
  <2>1. p.ok /\ p.rest \in Bytes /\ Len(p.rest) < Len(s)
    BY <1>1, MessageTyped
  <2>2. Len(s) \in Nat
    BY Lens
  <2> DEFINE r == p.rest
  <2>3. r \in Bytes
    BY <2>1
  <2> HIDE DEF r
  <2>4. Len(r) \in Nat
    BY <2>3, Lens
  <2> QED
    BY <2>1, <2>2, <2>4 DEF r
<1>11. j \in 0..Len(all) /\ j # Len(all)
  <2>1. j \in 0..Len(all)
    BY <1>3, <1>4
  <2>2. ASSUME j = Len(all) PROVE FALSE
    <3>1. all = ms /\ Take(ms, j) = ms
      <4>1. all = ms
        BY <1>3, <1>4, <2>2
      <4>2. Take(ms, Len(ms)) = ms
        BY <1>1, SeqPartsOfNone
      <4> QED
        BY <2>2, <4>1, <4>2
    <3>2. a = u
      BY <3>1
    <3> HIDE DEF a, u
    <3>3. s \o z = <<>>
      BY <1>6, <1>8, <1>9, <3>2, Longer
    <3>4. Len(s \o z) = Len(s) + Len(z) /\ Len(z) \in Nat
      BY <1>8, Joined
    <3>5. Len(s \o z) = 0
      BY <1>8, <3>3, NoBytesMore
    <3> QED
      BY <1>10, <3>4, <3>5
  <2> QED
    BY <2>1, <2>2
<1> DEFINE m == all[j + 1]
           e == Enc[m]
           b == Wires[Take(all, j + 1)]
<1>12. /\ m \in MessagesOf(k) /\ e \in Bytes /\ b = a \o e /\ b \in Bytes /\ Begins(b, u)
       /\ j + 1 \in 0..Len(all)
  <2>1. j + 1 \in 1..Len(all) /\ j < Len(all) /\ j + 1 \in 0..Len(all)
    BY <1>4, <1>11
  <2>2. m \in MessagesOf(k)
    BY <1>1, <1>4, <2>1, SentTyped
  <2>3. Take(all, j) = Take(ms, j)
    BY <1>4
  <2>4. e \in Bytes /\ b = Wires[Take(all, j)] \o e
    BY <1>5, <1>11, <2>1, WiresAt
  <2> DEFINE i == j + 1
  <2>5. i \in 0..Len(all)
    BY <2>1
  <2> HIDE DEF i
  <2>6. Wires[Take(all, i)] \in Bytes /\ Begins(Wires[Take(all, i)], u)
    BY <1>5, <2>5, WiresAt
  <2> QED
    BY <2>1, <2>2, <2>3, <2>4, <2>6 DEF i
<1>13. IsOf(k, m)
  BY <1>1, <1>12, MessagesTyped
<1>14. PICK y \in Bytes : u = b \o y
  BY <1>12 DEF Begins
<1> HIDE DEF a, b, e, m, t, u
<1>15. y \in Bytes /\ e \o y \in Bytes
  BY <1>12, <1>14, Joined
<1>16. (a \o e) \o y = a \o (e \o y)
  <2>1. a \in Bytes /\ e \in Bytes /\ y \in Bytes
    BY <1>6, <1>12, <1>15
  <2> QED
    BY <2>1, Regroup
<1>17. a \o (e \o y) = a \o (s \o z)
  BY <1>9, <1>12, <1>14, <1>16
<1>18. e \o y = s \o z
  BY <1>6, <1>8, <1>15, <1>17, Cancels
<1>19. p.v = m /\ y = p.rest \o z /\ s = e \o p.rest
  <2>1. Enc[m] \o y = s \o z /\ MessageAt(k, s).ok
    BY <1>18 DEF e
  <2>2. k \in Kinds /\ IsOf(k, m) /\ y \in Bytes /\ z \in Bytes
    BY <1>1, <1>8, <1>13, <1>15
  <2>3. ReadsAs(k, m, y, s, z)
    BY <2>2, ReadOnce
  <2> QED
    BY <1>10, <2>1, <2>3 DEF ReadsAs, e
<1> DEFINE r == p.rest
<1>20. r \in Bytes /\ y = r \o z /\ s = e \o r /\ p.v = m
  BY <1>10, <1>19
<1> HIDE DEF p, r
<1>21. j < Len(ms)
  <2> SUFFICES ASSUME ~ (j < Len(ms)) PROVE FALSE
    OBVIOUS
  <2>1. j = Len(ms) /\ all # ms /\ j + 1 = Len(all)
    BY <1>3, <1>4, <1>11
  <2>2. Take(all, j + 1) = all
    <3>1. Take(all, Len(all)) = all
      BY <1>5, SeqPartsOfNone
    <3> QED
      BY <2>1, <3>1
  <2>3. b = u
    BY <2>2 DEF b, u
  <2>4. y = <<>>
    BY <1>12, <1>14, <1>15, <2>3, Longer
  <2>5. z = <<>>
    <3>1. Len(r \o z) = Len(r) + Len(z) /\ Len(r) \in Nat /\ Len(z) \in Nat
      BY <1>8, <1>20, Joined
    <3>2. Len(y) = 0
      BY <1>15, <2>4, Lens
    <3>3. Len(z) = 0
      BY <1>20, <3>1, <3>2
    <3> QED
      BY <1>8, <3>3, Lens
  <2>6. t \o <<>> = t
    BY <1>1, NoBytesMore
  <2>7. u = t
    BY <1>7, <2>5, <2>6
  <2> QED
    BY <1>2, <2>1, <2>7 DEF Ahead, u, t
<1>22. m = ms[j + 1] /\ Take(all, j + 1) = Take(ms, j + 1)
  <2>1. j + 1 \in 1..Len(ms) /\ j + 1 \in 0..Len(ms)
    BY <1>3, <1>21
  <2> QED
    BY <1>4, <2>1 DEF m
<1>23. t = b \o r
  <2>1. t = a \o s
    BY DEF t, a, LeftOf
  <2>3. a \in Bytes /\ e \in Bytes /\ r \in Bytes
    BY <1>6, <1>12, <1>20
  <2>2. (a \o e) \o r = a \o (e \o r)
    BY <2>3, Regroup
  <2> QED
    BY <1>12, <1>20, <2>1, <2>2
<1>24. LeftOf(w, ms, j + 1, r)
  BY <1>22, <1>23 DEF LeftOf, t, b
<1> QED
  BY <1>20, <1>21, <1>22, <1>24 DEF p, r

(* The stream of a new Reader is all that was sent.                        *)
LEMMA NewReaderReads ==
    ASSUME NEW in \in Bytes, NEW first \in Nat \ {0}, NEW chunk \in Nat \ {0}
    PROVE  LET b == NewReader(in, first, chunk)
           IN  b \in Reader /\ b.err = FALSE /\ Stream(b) = in
<1> DEFINE z == Zeros(ReaderSize)
           none == <<>>
           b == NewReader(in, first, chunk)
<1>1. ReaderSize \in Nat \ {0}
  BY BufioAssumption
<1>2. z \in Bytes /\ Len(z) = ReaderSize
  BY <1>1, ZerosTyped
<1>3. none \in Bytes /\ Len(none) = 0
  BY NoBytesMore
<1>4. b = [buf |-> z, rpos |-> 0, wpos |-> 0, err |-> FALSE,
           in |-> in, first |-> first, chunk |-> chunk,
           mem |-> none, next |-> 0, left |-> 0]
  BY DEF NewReader
<1> HIDE DEF z, none, b
<1>5. /\ b \in [buf : Bytes, rpos : Nat, wpos : Nat, err : BOOLEAN,
                in : Bytes, first : Nat \ {0}, chunk : Nat \ {0},
                mem : Bytes, next : Nat, left : Nat]
      /\ b.buf = z /\ b.rpos = 0 /\ b.wpos = 0 /\ b.err = FALSE /\ b.in = in
      /\ b.mem = none /\ b.next = 0 /\ b.left = 0
  BY <1>2, <1>3, <1>4
<1>6. b \in Reader
  BY <1>1, <1>2, <1>3, <1>5 DEF Reader
<1>7. Unread(b) \in Bytes /\ Len(Unread(b)) = buffered(b)
  BY <1>6, ReaderTyped
<1>8. buffered(b) = 0
  BY <1>5 DEF buffered
<1>9. Unread(b) = <<>>
  BY <1>7, <1>8, Lens
<1>10. Stream(b) = in
  <2>1. <<>> \o in = in
    BY NoBytesMore
  <2> QED
    BY <1>5, <1>9, <2>1 DEF Stream
<1> QED
  BY <1>5, <1>6, <1>10 DEF b

(* The values that were decoded, looked at in the state of the reader b.   *)
ValuesOf(b, vs) == [i \in DOMAIN vs |-> Seen(b, vs[i])]

GotState(b, failed, vs) ==
    /\ b \in Reader /\ failed \in BOOLEAN /\ (~ failed => ~ b.err)
    /\ vs \in Seq(Seq(Nodes(Slices))) /\ \A i \in 1..Len(vs) : AllUsed(b, vs[i])

SlicedMessages == Seq(Nodes(Slices))

(* What was decoded is seen as messages of bytes.                          *)
LEMMA GotTyped ==
    ASSUME NEW b, NEW failed, NEW vs, GotState(b, failed, vs)
    PROVE  /\ b \in Reader /\ vs \in Seq(SlicedMessages) /\ Len(vs) \in Nat
           /\ DOMAIN vs = 1..Len(vs)
           /\ \A i \in 1..Len(vs) : vs[i] \in SlicedMessages
           /\ ValuesOf(b, vs) \in Seq(Messages) /\ Len(ValuesOf(b, vs)) = Len(vs)
           /\ \A i \in 1..Len(vs) : ValuesOf(b, vs)[i] = Seen(b, vs[i])
<1>1. b \in Reader /\ vs \in Seq(SlicedMessages)
  BY DEF GotState, SlicedMessages
<1>2. Len(vs) \in Nat /\ DOMAIN vs = 1..Len(vs) /\ \A i \in 1..Len(vs) : vs[i] \in SlicedMessages
  <2> HIDE DEF SlicedMessages
  <2> QED
    BY <1>1, LenProperties, ElementOfSeq
<1>3. ASSUME NEW i \in 1..Len(vs) PROVE Seen(b, vs[i]) \in Messages
  <2> DEFINE v == vs[i]
  <2>1. v \in Seq(Nodes(Slices)) /\ AllUsed(b, v)
    BY <1>2 DEF GotState, SlicedMessages
  <2> HIDE DEF v
  <2>2. Seen(b, v) \in Seq(Nodes(Bytes))
    BY <1>1, <2>1, SeenTyped
  <2> QED
    BY <2>2 DEF v, Messages
<1>4. ValuesOf(b, vs) = [i \in 1..Len(vs) |-> Seen(b, vs[i])]
  BY <1>2 DEF ValuesOf
<1>5. ValuesOf(b, vs) \in Seq(Messages) /\ Len(ValuesOf(b, vs)) = Len(vs)
  <2> DEFINE e(i) == Seen(b, vs[i])
             k == Len(vs)
             S == Messages
  <2>1. k \in Nat /\ \A i \in 1..k : e(i) \in S
    BY <1>2, <1>3
  <2>2. ValuesOf(b, vs) = [i \in 1..k |-> e(i)]
    BY <1>4
  <2> HIDE DEF e, k, S
  <2>3. [i \in 1..k |-> e(i)] \in Seq(S)
    BY <2>1, IsASeq
  <2>4. Len([i \in 1..k |-> e(i)]) = k
    <3> DEFINE t == [i \in 1..k |-> e(i)]
    <3>1. t \in Seq(S) /\ DOMAIN t = 1..k
      BY <2>3
    <3> HIDE DEF t
    <3>2. DOMAIN t = 1..Len(t) /\ Len(t) \in Nat
      BY <3>1, LenProperties
    <3>3. Len(t) = k
      BY <2>1, <3>1, <3>2
    <3> QED
      BY <3>3 DEF t
  <2> QED
    BY <2>2, <2>3, <2>4 DEF k, S
<1> QED
  BY <1>1, <1>2, <1>4, <1>5

(* What was decoded before is seen the same after a step that keeps memory *)
(* in use.                                                                 *)
LEMMA GotKept ==
    ASSUME NEW b, NEW failed, NEW vs, GotState(b, failed, vs), NEW c \in Reader, Keeps(b, c),
           NEW fails \in BOOLEAN, ~ fails => ~ c.err
    PROVE  GotState(c, fails, vs) /\ ValuesOf(c, vs) = ValuesOf(b, vs)
<1>1. b \in Reader /\ DOMAIN vs = 1..Len(vs) /\ \A i \in 1..Len(vs) : vs[i] \in Seq(Nodes(Slices))
  BY GotTyped DEF SlicedMessages
<1>2. ASSUME NEW i \in 1..Len(vs) PROVE AllUsed(c, vs[i]) /\ Seen(c, vs[i]) = Seen(b, vs[i])
  <2> DEFINE v == vs[i]
  <2>1. v \in Seq(Nodes(Slices)) /\ AllUsed(b, v)
    BY <1>1 DEF GotState
  <2> HIDE DEF v
  <2>2. AllUsed(c, v) /\ Seen(c, v) = Seen(b, v)
    BY <1>1, <2>1, SeenKept
  <2> QED
    BY <2>2 DEF v
<1>3. ValuesOf(c, vs) = ValuesOf(b, vs)
  BY <1>1, <1>2 DEF ValuesOf
<1>4. GotState(c, fails, vs)
  BY <1>2 DEF GotState
<1> QED
  BY <1>3, <1>4

(* One value more is seen after the others.                                *)
LEMMA GotMore ==
    ASSUME NEW b, NEW vs, GotState(b, FALSE, vs), NEW v \in SlicedMessages, AllUsed(b, v)
    PROVE  /\ GotState(b, FALSE, Append(vs, v))
           /\ ValuesOf(b, Append(vs, v)) = Append(ValuesOf(b, vs), Seen(b, v))
<1> DEFINE more == Append(vs, v)
           no == FALSE
           S == SlicedMessages
           n == Len(vs)
<1>0. GotState(b, no, vs)
  OBVIOUS
<1>1. /\ b \in Reader /\ vs \in Seq(S) /\ n \in Nat /\ v \in S
      /\ ValuesOf(b, vs) \in Seq(Messages) /\ Len(ValuesOf(b, vs)) = n
      /\ \A i \in 1..n : ValuesOf(b, vs)[i] = Seen(b, vs[i])
  <2> HIDE DEF no
  <2> QED
    BY <1>0, GotTyped
<1>2. \A i \in 1..n : AllUsed(b, vs[i])
  BY DEF GotState
<1> HIDE DEF S, n
<1>3. /\ more \in Seq(S) /\ Len(more) = n + 1 /\ more[n + 1] = v
      /\ \A i \in 1..n : more[i] = vs[i]
  BY <1>1, AppendProperties DEF n
<1> HIDE DEF more
<1>4. ASSUME NEW i \in 1..n + 1 PROVE AllUsed(b, more[i])
  <2>1. i \in 1..n \/ i = n + 1
    BY <1>1
  <2> QED
    BY <1>2, <1>3, <2>1
<1>5. GotState(b, no, more)
  <2>1. more \in Seq(Seq(Nodes(Slices)))
    BY <1>3 DEF S, SlicedMessages
  <2>2. \A i \in 1..Len(more) : AllUsed(b, more[i])
    BY <1>3, <1>4
  <2>3. b \in Reader /\ ~ b.err
    BY DEF GotState
  <2> QED
    BY <2>1, <2>2, <2>3 DEF GotState
<1>6. /\ ValuesOf(b, more) \in Seq(Messages) /\ Len(ValuesOf(b, more)) = n + 1
      /\ \A i \in 1..n + 1 : ValuesOf(b, more)[i] = Seen(b, more[i])
  <2> HIDE DEF no
  <2> QED
    BY <1>3, <1>5, GotTyped
<1> DEFINE x == ValuesOf(b, vs)
           y == ValuesOf(b, more)
           o == Seen(b, v)
<1>7. o \in Messages
  <2>1. Seen(b, v) \in Seq(Nodes(Bytes))
    BY <1>1, SeenTyped DEF S, SlicedMessages
  <2> QED
    BY <2>1 DEF Messages
<1>8. y = Append(x, o)
  <2> DEFINE T == Messages
  <2>1. x \in Seq(T) /\ y \in Seq(T) /\ o \in T /\ Len(x) = n /\ Len(y) = n + 1
    BY <1>1, <1>6, <1>7
  <2>2. n + 1 \in 1..n + 1 /\ \A i \in 1..n : i \in 1..n + 1
    BY <1>1
  <2>3. \A i \in 1..n : y[i] = x[i]
    BY <1>1, <1>3, <1>6, <2>2
  <2>4. y[n + 1] = o
    BY <1>3, <1>6, <2>2
  <2> HIDE DEF x, y, o, T
  <2> DEFINE a == Append(x, o)
  <2>5. a \in Seq(T) /\ Len(a) = n + 1 /\ a[n + 1] = o /\ \A i \in 1..n : a[i] = x[i]
    BY <2>1, AppendProperties
  <2> HIDE DEF a
  <2>6. \A i \in 1..n + 1 : y[i] = a[i]
    <3> TAKE i \in 1..n + 1
    <3>1. i \in 1..n \/ i = n + 1
      BY <1>1
    <3> QED
      BY <2>3, <2>4, <2>5, <3>1
  <2>7. y = a
    BY <2>1, <2>5, <2>6, SeqEqual
  <2> QED
    BY <2>7 DEF a
<1> QED
  BY <1>5, <1>8 DEF more, x, y, o

(* Decode, as the receiving end uses it.                                   *)
LEMMA DecodeGets ==
    ASSUME NEW k \in Kinds, NEW b, NEW vs, GotState(b, FALSE, vs)
    PROVE  LET r == Decoded(k, b)
               p == MessageAt(k, Stream(b))
               more == IF r.ok THEN Append(vs, r.v) ELSE vs
           IN  /\ b \in Reader /\ Stream(b) \in Bytes
               /\ r.ok \in BOOLEAN /\ (r.ok <=> p.ok) /\ (r.ok => Stream(r.b) = p.rest)
               /\ GotState(r.b, ~ r.ok, more)
               /\ ~ r.ok => ValuesOf(r.b, more) = ValuesOf(b, vs)
               /\ r.ok => ValuesOf(r.b, more) = Append(ValuesOf(b, vs), p.v)
               /\ r.ok => ValuesOf(r.b, more) = Append(ValuesOf(b, vs), Seen(r.b, r.v))
<1> DEFINE r == Decoded(k, b)
           p == MessageAt(k, Stream(b))
           c == r.b
           more == IF r.ok THEN Append(vs, r.v) ELSE vs
<1>1. b \in Reader /\ ~ b.err
  BY DEF GotState
<1>2. Stream(b) \in Bytes
  BY <1>1, ReaderTyped
<1>3. DecodesAll(b, r, p)
  BY <1>1, MessageDecodes
<1> HIDE DEF r, p
<1>4. /\ c \in Reader /\ Keeps(b, c) /\ r.ok \in BOOLEAN /\ (r.ok <=> p.ok)
      /\ r.ok => /\ ~ c.err /\ Stream(c) = p.rest
                 /\ r.v \in SlicedMessages /\ AllUsed(c, r.v) /\ Seen(c, r.v) = p.v
  BY <1>1, <1>3 DEF DecodesAll, Decodes, SlicedMessages
<1> DEFINE no == FALSE
<1>5. GotState(b, no, vs)
  OBVIOUS
<1> HIDE DEF c
<1>6. CASE ~ r.ok
  <2> DEFINE yes == TRUE
  <2>1. yes \in BOOLEAN /\ (~ yes => ~ c.err)
    OBVIOUS
  <2> HIDE DEF no, yes
  <2>2. GotState(c, yes, vs) /\ ValuesOf(c, vs) = ValuesOf(b, vs)
    BY <1>4, <1>5, <2>1, GotKept
  <2>3. (~ r.ok) = yes
    BY <1>4, <1>6 DEF yes
  <2> QED
    BY <1>1, <1>2, <1>4, <1>6, <2>2, <2>3 DEF r, p, c
<1>7. CASE r.ok
  <2>1. no \in BOOLEAN /\ (~ no => ~ c.err)
    BY <1>4, <1>7
  <2>2. GotState(c, no, vs) /\ ValuesOf(c, vs) = ValuesOf(b, vs)
    <3> HIDE DEF no
    <3> QED
      BY <1>4, <1>5, <2>1, GotKept
  <2> DEFINE v == r.v
  <2>3. GotState(c, FALSE, vs) /\ v \in SlicedMessages /\ AllUsed(c, v)
    BY <1>4, <1>7, <2>2
  <2> HIDE DEF v
  <2>4. /\ GotState(c, FALSE, Append(vs, v))
        /\ ValuesOf(c, Append(vs, v)) = Append(ValuesOf(c, vs), Seen(c, v))
    BY <2>3, GotMore
  <2>5. (~ r.ok) = FALSE
    BY <1>4, <1>7
  <2> QED
    BY <1>1, <1>2, <1>4, <1>7, <2>2, <2>4, <2>5 DEF r, p, c, v
<1> QED
  BY <1>4, <1>6, <1>7

(* The receiving end of what was sent.                                     *)
DecodedState(w, ms, n, b, failed, vs) ==
    /\ Len(vs) \in 0..Len(ms) /\ ValuesOf(b, vs) = Take(ms, Len(vs))
    /\ ~ failed => LeftOf(w, ms, Len(vs), Stream(b))
    /\ failed => Len(vs) >= n

(* Decode keeps the receiving end's part of the invariant, of what was     *)
(* sent.                                                                   *)
LEMMA DecodesNext ==
    ASSUME NEW k, NEW w, NEW ms, NEW n, SentState(k, w, ms, n),
           NEW b, NEW vs, GotState(b, FALSE, vs), DecodedState(w, ms, n, b, FALSE, vs)
    PROVE  LET r == Decoded(k, b)
               more == IF r.ok THEN Append(vs, r.v) ELSE vs
           IN  DecodedState(w, ms, n, r.b, ~ r.ok, more)
<1> DEFINE r == Decoded(k, b)
           s == Stream(b)
           p == MessageAt(k, s)
           j == Len(vs)
           more == IF r.ok THEN Append(vs, r.v) ELSE vs
<1>1. k \in Kinds /\ ms \in Seq(MessagesOf(k)) /\ n \in 0..Len(ms)
  BY DEF SentState
<1>2. ms \in Seq(Messages) /\ Len(ms) \in Nat
  BY <1>1, SentTyped
<1>3. /\ b \in Reader /\ s \in Bytes
      /\ r.ok \in BOOLEAN /\ (r.ok <=> p.ok) /\ (r.ok => Stream(r.b) = p.rest)
      /\ GotState(r.b, ~ r.ok, more)
      /\ ~ r.ok => ValuesOf(r.b, more) = ValuesOf(b, vs)
      /\ r.ok => ValuesOf(r.b, more) = Append(ValuesOf(b, vs), p.v)
  BY <1>1, DecodeGets
<1>4. j \in 0..Len(ms) /\ ValuesOf(b, vs) = Take(ms, j) /\ LeftOf(w, ms, j, s)
  BY DEF DecodedState
<1>5. j \in Nat /\ n \in Nat
  BY <1>1, <1>2, <1>4
<1> HIDE DEF r, s, p
<1>6. CASE r.ok
  <2>1. /\ j < Len(ms) /\ p.v = ms[j + 1] /\ p.rest \in Bytes
        /\ LeftOf(w, ms, j + 1, p.rest)
    <3>1. LeftOf(w, ms, j, s) /\ s \in Bytes /\ MessageAt(k, s).ok
      BY <1>3, <1>4, <1>6 DEF p
    <3> HIDE DEF j
    <3> QED
      BY <1>4, <3>1, ReadIsNext DEF p
  <2>2. Len(more) = j + 1
    <3> DEFINE no == ~ r.ok
    <3>1. GotState(r.b, no, more)
      BY <1>3
    <3>2. GotState(b, FALSE, vs)
      OBVIOUS
    <3>3. vs \in Seq(SlicedMessages)
      BY GotTyped
    <3>4. r.v \in SlicedMessages
      <4>1. k \in Kinds /\ ~ b.err
        BY <1>1 DEF GotState
      <4>2. DecodesAll(b, r, p)
        BY <1>1, <1>3, MessageDecodes DEF r, p, s
      <4> QED
        BY <1>6, <4>2 DEF DecodesAll, SlicedMessages
    <3> DEFINE S == SlicedMessages
               v == r.v
    <3>5. vs \in Seq(S) /\ v \in S
      BY <3>3, <3>4
    <3> HIDE DEF S, v
    <3>6. Len(Append(vs, v)) = Len(vs) + 1
      BY <3>5, AppendProperties
    <3> QED
      BY <1>6, <3>6 DEF v
  <2>3. Append(Take(ms, j), ms[j + 1]) = Take(ms, j + 1)
    <3> DEFINE S == Messages
               i == j + 1
               t == Take(ms, i)
               one == 1
               m == ms[i]
               x == Take(ms, j)
    <3>1. i \in 0..Len(ms) /\ i \in 1..Len(ms) /\ i - 1 = j /\ i = j + one /\ one \in Nat /\ i <= Len(ms)
      BY <1>2, <1>5, <2>1
    <3>2. ms \in Seq(S) /\ j \in 0..Len(ms)
      BY <1>2, <1>4
    <3> HIDE DEF S, i, j, one, t
    <3>3. t \in Seq(S) /\ Len(t) = i /\ \A l \in 1..i : t[l] = ms[l]
      BY <3>1, <3>2, SeqParts DEF t
    <3>4. x \in Seq(S) /\ Len(x) = j /\ \A l \in 1..j : x[l] = ms[l]
      BY <3>2, SeqParts
    <3>5. m \in S
      BY <3>1, <3>2, ElementOfSeq
    <3> HIDE DEF m, x
    <3> DEFINE a == Append(x, m)
    <3>6. a \in Seq(S) /\ Len(a) = j + 1 /\ a[j + 1] = m /\ \A l \in 1..j : a[l] = x[l]
      BY <3>4, <3>5, AppendProperties
    <3> HIDE DEF a
    <3>7. i = j + 1
      BY <3>1 DEF one
    <3>8. \A l \in 1..i : a[l] = t[l]
      <4> TAKE l \in 1..i
      <4>1. l \in 1..j \/ l = j + 1
        BY <1>5, <3>7 DEF j
      <4> QED
        BY <3>3, <3>4, <3>6, <3>7, <4>1 DEF m
    <3>9. a = t
      BY <3>3, <3>6, <3>7, <3>8, SeqEqual
    <3> QED
      BY <3>7, <3>9 DEF a, m, x, t
  <2>4. ValuesOf(r.b, more) = Take(ms, j + 1)
    BY <1>3, <1>4, <1>6, <2>1, <2>3
  <2>5. LeftOf(w, ms, j + 1, Stream(r.b))
    BY <1>3, <1>6, <2>1
  <2>6. j + 1 \in 0..Len(ms)
    BY <1>2, <1>5, <2>1
  <2> HIDE DEF j, more
  <2>7. DecodedState(w, ms, n, r.b, ~ r.ok, more)
    BY <1>6, <2>2, <2>4, <2>5, <2>6 DEF DecodedState
  <2> QED
    BY <2>7 DEF r, more
<1>7. CASE ~ r.ok
  <2>1. more = vs
    BY <1>7
  <2>2. j >= n
    <3> SUFFICES ASSUME j < n PROVE FALSE
      BY <1>5
    <3>1. w.wire = Wires[Take(ms, j)] \o s
      BY <1>4 DEF LeftOf
    <3>2. j \in Nat /\ s \in Bytes
      BY <1>3, <1>5
    <3> HIDE DEF j
    <3>3. MessageAt(k, s).ok
      BY <3>1, <3>2, FlushedIsRead
    <3> QED
      BY <1>3, <1>7, <3>3 DEF p
  <2>3. ValuesOf(r.b, more) = Take(ms, j)
    BY <1>3, <1>4, <1>7
  <2> HIDE DEF more
  <2>4. DecodedState(w, ms, n, r.b, ~ r.ok, more)
    BY <1>4, <1>7, <2>1, <2>2, <2>3 DEF DecodedState
  <2> QED
    BY <2>4 DEF r, more
<1> QED
  BY <1>3, <1>6, <1>7

(* The receiving end of what another peer has sent.                        *)
AllOf(k, f) ==
    AtOnce[[kind |-> k, b |-> NewReader(f, Len(f) + 1, 1), values |-> <<>>]]

ForeignState(k, f, b, failed, vs) ==
    AllOf(k, f) = IF failed THEN ValuesOf(b, vs)
                  ELSE AtOnce[[kind |-> k, b |-> b, values |-> ValuesOf(b, vs)]]

(* Decode keeps the receiving end's part of the invariant, of foreign      *)
(* bytes.                                                                  *)
LEMMA ForeignNext ==
    ASSUME NEW k \in Kinds, NEW f, NEW b, NEW vs, GotState(b, FALSE, vs),
           ForeignState(k, f, b, FALSE, vs)
    PROVE  LET r == Decoded(k, b)
               more == IF r.ok THEN Append(vs, r.v) ELSE vs
           IN  ForeignState(k, f, r.b, ~ r.ok, more)
<1> DEFINE r == Decoded(k, b)
           c == r.b
           more == IF r.ok THEN Append(vs, r.v) ELSE vs
           values == ValuesOf(b, vs)
           t == [kind |-> k, b |-> b, values |-> values]
<1>1. /\ b \in Reader /\ r.ok \in BOOLEAN
      /\ GotState(c, ~ r.ok, more)
      /\ ~ r.ok => ValuesOf(c, more) = values
      /\ r.ok => ValuesOf(c, more) = Append(values, Seen(c, r.v))
  BY DecodeGets
<1>2. values \in Seq(Messages)
  BY GotTyped
<1>3. AllOf(k, f) = AtOnce[t]
  BY DEF ForeignState
<1> HIDE DEF values
<1>4. t \in AtOnceStates /\ t.kind = k /\ t.b = b /\ t.values = values
  BY <1>1, <1>2 DEF AtOnceStates, Messages
<1> HIDE DEF t
<1>5. AtOnce[t] = IF AtOnceDone(t) THEN t.values ELSE AtOnce[AtOnceStep(t)]
  BY <1>4, AtOnceUnfolds
<1>6. AtOnceDone(t) <=> ~ r.ok
  BY <1>4 DEF AtOnceDone
<1>7. CASE r.ok
  <2> DEFINE v == Append(values, Seen(c, r.v))
  <2>1. AtOnceStep(t) = [t EXCEPT !.b = c, !.values = v]
    BY <1>4 DEF AtOnceStep
  <2> HIDE DEF c, v, r
  <2>2. [t EXCEPT !.b = c, !.values = v] = [kind |-> k, b |-> c, values |-> v]
    <3> DEFINE u == [t EXCEPT !.b = c, !.values = v]
    <3>1. t \in [kind : {k}, b : {b}, values : {values}]
      BY DEF t
    <3>2. u \in [kind : {k}, b : {c}, values : {v}]
      BY <3>1
    <3> HIDE DEF u
    <3>3. u = [kind |-> k, b |-> c, values |-> v]
      BY <3>2
    <3> QED
      BY <3>3 DEF u
  <2>3. AllOf(k, f) = AtOnce[[kind |-> k, b |-> c, values |-> v]]
    BY <1>3, <1>5, <1>6, <1>7, <2>1, <2>2
  <2>4. ValuesOf(c, more) = v
    BY <1>1, <1>7 DEF v
  <2> HIDE DEF more
  <2>5. ForeignState(k, f, c, ~ r.ok, more)
    BY <1>7, <2>3, <2>4 DEF ForeignState
  <2> QED
    BY <2>5 DEF c, r, more
<1>8. CASE ~ r.ok
  <2>1. AllOf(k, f) = ValuesOf(c, more)
    BY <1>1, <1>3, <1>4, <1>5, <1>6, <1>8
  <2> HIDE DEF r, c, more
  <2>2. ForeignState(k, f, c, ~ r.ok, more)
    BY <1>8, <2>1 DEF ForeignState
  <2> QED
    BY <2>2 DEF c, r, more
<1> QED
  BY <1>1, <1>7, <1>8

-----------------------------------------------------------------------------
(* The specification.                                                      *)

CodecInv ==
    /\ SentState(kind, encoder, sent, flushed) /\ failedE = encoder.err
    /\ GotState(decoder, failedD, got)
    /\ receiving \in BOOLEAN /\ foreign \in Foreign \cup {NoBytes}
    /\ ~ receiving => got = <<>> /\ failedD = FALSE /\ foreign = NoBytes
    /\ receiving /\ foreign = NoBytes =>
         DecodedState(encoder, sent, flushed, decoder, failedD, got)
    /\ foreign # NoBytes => ForeignState(kind, foreign, decoder, failedD, got)

(* Nothing is decoded.                                                     *)
LEMMA GotNone ==
    ASSUME NEW in \in Bytes, NEW first \in Nat \ {0}, NEW chunk \in Nat \ {0}
    PROVE  LET b == NewReader(in, first, chunk)
           IN  /\ b \in Reader /\ ~ b.err /\ Stream(b) = in
               /\ GotState(b, FALSE, <<>>) /\ ValuesOf(b, <<>>) = <<>>
<1> DEFINE b == NewReader(in, first, chunk)
           none == <<>>
<1>1. b \in Reader /\ ~ b.err /\ Stream(b) = in
  BY NewReaderReads
<1>2. none \in Seq(Seq(Nodes(Slices))) /\ Len(none) = 0 /\ DOMAIN none = {}
  BY EmptySeq
<1> HIDE DEF b
<1>3. ValuesOf(b, none) = <<>>
  <2>1. ValuesOf(b, none) = [i \in {} |-> Seen(b, none[i])]
    BY <1>2 DEF ValuesOf
  <2> QED
    BY <2>1
<1>4. GotState(b, FALSE, none)
  <2>1. \A i \in 1..Len(none) : AllUsed(b, none[i])
    BY <1>2
  <2> HIDE DEF none
  <2> QED
    BY <1>1, <1>2, <2>1 DEF GotState
<1> QED
  BY <1>1, <1>3, <1>4 DEF b

(* A new Writer has nothing on the wire nor buffered.                      *)
LEMMA NewWriterTyped ==
    ASSUME NEW limit \in Nat
    PROVE  LET w == NewWriter(limit)
           IN  w \in Writer /\ w.err = FALSE /\ w.wire = <<>> /\ Taking(w) = <<>>
<1> DEFINE none == <<>>
           w == NewWriter(limit)
<1>1. none \in Bytes /\ Len(none) = 0 /\ none \o none = none
  <2>1. none \in Bytes /\ Len(none) = 0
    BY EmptySeq DEF Bytes
  <2>2. none \o <<>> = none
    BY <2>1, NoBytesMore
  <2> QED
    BY <2>1, <2>2
<1>2. w = [buf |-> none, err |-> FALSE, limit |-> limit, wire |-> none]
  BY DEF NewWriter
<1>3. WriterSize \in Nat
  BY BufioAssumption
<1> HIDE DEF none, w
<1>4. /\ w \in [buf : Bytes, err : BOOLEAN, limit : Nat, wire : Bytes]
      /\ w.buf = none /\ w.err = FALSE /\ w.wire = none /\ w.limit = limit
  BY <1>1, <1>2
<1>5. w \in Writer
  BY <1>1, <1>3, <1>4 DEF Writer
<1>6. Taking(w) = none
  BY <1>1, <1>4 DEF Taking
<1> QED
  BY <1>4, <1>5, <1>6 DEF none, w

(* The sending end's part of the invariant holds when nothing is sent.     *)
LEMMA NothingSent ==
    ASSUME NEW k \in Kinds, NEW limit \in Nat
    PROVE  SentState(k, NewWriter(limit), <<>>, 0)
<1> DEFINE none == <<>>
           w == NewWriter(limit)
           zero == 0
<1>1. w \in Writer /\ w.err = FALSE /\ w.wire = none /\ Taking(w) = none
  BY NewWriterTyped
<1>2. none \in Seq(MessagesOf(k)) /\ none \in Seq(Messages) /\ Len(none) = 0
  BY EmptySeq
<1>3. Wires[none] = none /\ Take(none, zero) = none
  <2>1. Wires[none] = none
    <3>1. none \in Seq(Messages)
      BY <1>2
    <3> QED
      BY <3>1, WiresUnfold
  <2>2. Take(none, 0) = none
    BY <1>2, SeqPartsOfNone
  <2> QED
    BY <2>1, <2>2
<1>4. none \in Bytes /\ none \o none = none
  <2>1. none \in Bytes
    BY EmptySeq DEF Bytes
  <2>2. none \o <<>> = none
    BY <2>1, NoBytesMore
  <2> QED
    BY <2>1, <2>2
<1>5. Begins(none, none)
  BY <1>4 DEF Begins
<1>6. zero \in 0..Len(none)
  BY <1>2
<1> HIDE DEF none, zero, w
<1>7. Ahead(k, w, none, none)
  BY <1>1, <1>3, <1>5 DEF Ahead
<1>8. SentState(k, w, none, zero)
  BY <1>1, <1>2, <1>3, <1>5, <1>6, <1>7 DEF SentState
<1> QED
  BY <1>8 DEF none, zero, w

(* The invariant holds at the beginning.                                   *)
LEMMA InitEstablishes == Init => CodecInv
<1> SUFFICES ASSUME Init PROVE CodecInv
  OBVIOUS
<1>1. kind \in Kinds /\ failedE = FALSE /\ sent = <<>> /\ flushed = 0
      /\ foreign = NoBytes /\ receiving = FALSE
      /\ decoder = NewReader(<<>>, 1, 1) /\ failedD = FALSE /\ got = <<>>
  BY DEF Init
<1>2. PICK limit \in Limits : encoder = NewWriter(limit)
  BY DEF Init
<1>3. limit \in Nat
  BY <1>2, CodecAssumption
<1>4. SentState(kind, encoder, sent, flushed)
  BY <1>1, <1>2, <1>3, NothingSent
<1>5. failedE = encoder.err
  BY <1>1, <1>2, <1>3, NewWriterTyped
<1>6. GotState(decoder, failedD, got)
  <2> DEFINE one == 1
             none == <<>>
  <2>1. one \in Nat \ {0} /\ none \in Bytes
    BY EmptySeq DEF Bytes
  <2>2. decoder = NewReader(none, one, one)
    BY <1>1
  <2> HIDE DEF one, none
  <2>3. GotState(NewReader(none, one, one), FALSE, <<>>)
    BY <2>1, GotNone
  <2> QED
    BY <1>1, <2>2, <2>3
<1> QED
  BY <1>1, <1>4, <1>5, <1>6 DEF CodecInv

(* The invariant is kept by a step of the sending end that keeps its part. *)
LEMMA SendingKeeps ==
    ASSUME CodecInv, ~ receiving, UNCHANGED Receiver, UNCHANGED kind, failedE' = encoder'.err,
           SentState(kind, encoder', sent', flushed')
    PROVE  CodecInv'
<1>1. /\ receiving' = receiving /\ foreign' = foreign /\ decoder' = decoder
      /\ failedD' = failedD /\ got' = got /\ kind' = kind
  BY DEF Receiver
<1>2. foreign = NoBytes
  BY DEF CodecInv
<1> QED
  BY <1>1, <1>2 DEF CodecInv

(* Encode keeps the invariant.                                             *)
LEMMA EncodeKeeps ==
    ASSUME CodecInv, NEW m \in MessagesOf(kind), NEW doFlush \in BOOLEAN, Encode(m, doFlush)
    PROVE  CodecInv'
<1> DEFINE e == Encoding(m)
           x == IF doFlush THEN flush(e) ELSE e
           more == IF x.err THEN sent ELSE Append(sent, m)
<1>1. /\ ~ receiving /\ ~ failedE /\ encoder' = x /\ failedE' = x.err /\ sent' = more
      /\ flushed' = IF doFlush /\ ~ x.err THEN Len(sent') ELSE flushed
      /\ UNCHANGED <<kind, Receiver>>
  BY DEF Encode
<1>2. SentState(kind, encoder, sent, flushed) /\ ~ encoder.err
  BY <1>1 DEF CodecInv
<1>3. kind \in Kinds /\ encoder \in Writer
  BY <1>2 DEF SentState
<1>4. m \in Messages
  BY <1>3, MessagesTyped
<1>5. Wrote(encoder, Enc[m], x) /\ (doFlush /\ ~ x.err => x.wire = Taking(x))
  BY <1>3, <1>4, MessageWrites DEF Encoding
<1> HIDE DEF e, x
<1>6. SentState(kind, x, more, IF doFlush /\ ~ x.err THEN Len(more) ELSE flushed)
  BY <1>2, <1>5, SentMore
<1> HIDE DEF more
<1>7. SentState(kind, encoder', sent', flushed')
  BY <1>1, <1>6
<1>8. failedE' = encoder'.err /\ UNCHANGED kind /\ UNCHANGED Receiver
  BY <1>1
<1> QED
  BY <1>1, <1>7, <1>8, SendingKeeps

(* Flush keeps the invariant.                                              *)
LEMMA FlushKeeps == ASSUME CodecInv, Flush PROVE CodecInv'
<1> DEFINE x == flush(encoder)
<1>1. /\ ~ receiving /\ ~ failedE /\ encoder' = x /\ failedE' = x.err /\ sent' = sent
      /\ flushed' = IF x.err THEN flushed ELSE Len(sent)
      /\ UNCHANGED kind /\ UNCHANGED Receiver
  BY DEF Flush
<1>2. SentState(kind, encoder, sent, flushed) /\ ~ encoder.err
  BY <1>1 DEF CodecInv
<1>3. SentState(kind, x, sent, IF x.err THEN flushed ELSE Len(sent))
  BY <1>2, SentFlushed
<1> HIDE DEF x
<1>4. SentState(kind, encoder', sent', flushed')
  BY <1>1, <1>3
<1>5. failedE' = encoder'.err
  BY <1>1
<1> QED
  BY <1>1, <1>4, <1>5, SendingKeeps

(* Deliver keeps the invariant: nothing is decoded, all on the wire is to  *)
(* come.                                                                   *)
LEMMA DeliverKeeps ==
    ASSUME CodecInv, NEW first \in Pieces, NEW chunk \in Pieces, Deliver(first, chunk)
    PROVE  CodecInv'
<1> DEFINE w == encoder.wire
           b == NewReader(w, first, chunk)
           none == <<>>
           zero == 0
<1>1. /\ ~ receiving /\ receiving' = TRUE /\ decoder' = b
      /\ kind' = kind /\ encoder' = encoder /\ failedE' = failedE /\ sent' = sent
      /\ flushed' = flushed /\ foreign' = foreign /\ failedD' = failedD /\ got' = got
  BY DEF Deliver, Sender
<1>2. /\ SentState(kind, encoder, sent, flushed) /\ failedE = encoder.err
      /\ got = none /\ failedD = FALSE /\ foreign = NoBytes
  BY <1>1 DEF CodecInv
<1>3. kind \in Kinds /\ encoder \in Writer /\ sent \in Seq(MessagesOf(kind)) /\ w \in Bytes
  BY <1>2, WriterTyped DEF SentState
<1>4. first \in Nat \ {0} /\ chunk \in Nat \ {0}
  BY CodecAssumption
<1> HIDE DEF w
<1>5. /\ b \in Reader /\ ~ b.err /\ Stream(b) = w
      /\ GotState(b, FALSE, none) /\ ValuesOf(b, none) = none
  BY <1>3, <1>4, GotNone
<1>6. sent \in Seq(Messages) /\ Len(sent) \in Nat
  BY <1>3, SentTyped
<1>7. Len(none) = zero /\ Take(sent, zero) = none /\ Wires[none] = none /\ none \o w = w
  <2>1. none \in Seq(Messages) /\ Len(none) = 0
    BY EmptySeq
  <2>2. Take(sent, 0) = none
    BY <1>3, SeqPartsOfNone
  <2>3. Wires[none] = none
    BY <2>1, WiresUnfold
  <2>4. none \o w = w
    BY <1>3, NoBytesMore
  <2> QED
    BY <2>1, <2>2, <2>3, <2>4
<1> HIDE DEF b
<1>8. DecodedState(encoder, sent, flushed, b, FALSE, none)
  <2>1. Len(none) \in 0..Len(sent)
    BY <1>6, <1>7
  <2> HIDE DEF none, zero
  <2>2. LeftOf(encoder, sent, Len(none), Stream(b))
    BY <1>5, <1>7 DEF LeftOf, w
  <2> QED
    BY <1>5, <1>7, <2>1, <2>2 DEF DecodedState
<1> QED
  BY <1>1, <1>2, <1>5, <1>8 DEF CodecInv

(* DeliverForeign keeps the invariant: nothing is decoded, all foreign     *)
(* bytes are to come.                                                      *)
LEMMA DeliverForeignKeeps ==
    ASSUME CodecInv, NEW first \in Pieces, NEW chunk \in Pieces, NEW bytes \in Foreign,
           DeliverForeign(bytes, first, chunk)
    PROVE  CodecInv'
<1> DEFINE b == NewReader(bytes, first, chunk)
           one == 1
           n == Len(bytes) + 1
           all == NewReader(bytes, n, one)
           none == <<>>
<1>1. /\ ~ receiving /\ receiving' = TRUE /\ foreign' = bytes /\ decoder' = b
      /\ kind' = kind /\ encoder' = encoder /\ failedE' = failedE /\ sent' = sent
      /\ flushed' = flushed /\ failedD' = failedD /\ got' = got
  BY DEF DeliverForeign, Sender
<1>2. /\ SentState(kind, encoder, sent, flushed) /\ failedE = encoder.err
      /\ got = none /\ failedD = FALSE
  BY <1>1 DEF CodecInv
<1>3. kind \in Kinds
  BY <1>2 DEF SentState
<1>4. /\ first \in Nat \ {0} /\ chunk \in Nat \ {0}
      /\ bytes \in Bytes /\ bytes # NoBytes
  BY CodecAssumption
<1>5. n \in Nat \ {0} /\ one \in Nat \ {0}
  <2>1. Len(bytes) \in Nat
    BY <1>4, Lens
  <2> QED
    BY <2>1
<1> HIDE DEF n, one
<1>6. /\ b \in Reader /\ ~ b.err /\ Stream(b) = bytes
      /\ GotState(b, FALSE, none) /\ ValuesOf(b, none) = none
  BY <1>4, GotNone
<1>7. all \in Reader /\ ~ all.err /\ Stream(all) = bytes
  BY <1>4, <1>5, GotNone
<1> DEFINE t == [kind |-> kind, b |-> b, values |-> none]
           u == [kind |-> kind, b |-> all, values |-> none]
<1>8. none \in Seq(Seq(Nodes(Bytes)))
  BY EmptySeq
<1>9. AllOf(kind, bytes) = AtOnce[u]
  BY DEF AllOf, n, one
<1> HIDE DEF b, all, none
<1>10. /\ t \in AtOnceStates /\ t.kind = kind /\ t.b = b /\ t.values = none
       /\ u \in AtOnceStates /\ u.kind = kind /\ u.b = all /\ u.values = none
  BY <1>3, <1>6, <1>7, <1>8 DEF AtOnceStates
<1> HIDE DEF t, u
<1>11. AtOnce[u] = AtOnce[t]
  <2>1. Alike(t, u)
    BY <1>6, <1>7, <1>10 DEF Alike
  <2> QED
    BY <1>10, <2>1, AtOnceIsAlike
<1>12. ForeignState(kind, bytes, b, FALSE, none)
  BY <1>6, <1>9, <1>11 DEF ForeignState, t
<1> QED
  BY <1>1, <1>2, <1>4, <1>6, <1>12 DEF CodecInv, none

(* Decode keeps the invariant.                                             *)
LEMMA DecodeKeeps == ASSUME CodecInv, Decode PROVE CodecInv'
<1> DEFINE r == Decoded(kind, decoder)
           more == IF r.ok THEN Append(got, r.v) ELSE got
<1>1. /\ receiving /\ ~ failedD /\ decoder' = r.b /\ failedD' = ~ r.ok /\ got' = more
      /\ kind' = kind /\ encoder' = encoder /\ failedE' = failedE /\ sent' = sent
      /\ flushed' = flushed /\ foreign' = foreign /\ receiving' = receiving
  BY DEF Decode, Sender
<1>2. /\ SentState(kind, encoder, sent, flushed) /\ failedE = encoder.err
      /\ GotState(decoder, failedD, got)
      /\ receiving \in BOOLEAN /\ foreign \in Foreign \cup {NoBytes}
  BY DEF CodecInv
<1>3. kind \in Kinds
  BY <1>2 DEF SentState
<1>4. failedD = FALSE
  BY <1>1, <1>2 DEF GotState
<1>5. GotState(decoder, FALSE, got)
  BY <1>2, <1>4
<1>6. GotState(r.b, ~ r.ok, more)
  BY <1>3, <1>5, DecodeGets
<1>7. foreign = NoBytes => DecodedState(encoder, sent, flushed, r.b, ~ r.ok, more)
  <2> SUFFICES ASSUME foreign = NoBytes
               PROVE  DecodedState(encoder, sent, flushed, r.b, ~ r.ok, more)
    OBVIOUS
  <2>1. DecodedState(encoder, sent, flushed, decoder, FALSE, got)
    BY <1>1, <1>4 DEF CodecInv
  <2> QED
    BY <1>2, <1>5, <2>1, DecodesNext
<1>8. foreign # NoBytes => ForeignState(kind, foreign, r.b, ~ r.ok, more)
  <2> SUFFICES ASSUME foreign # NoBytes
               PROVE  ForeignState(kind, foreign, r.b, ~ r.ok, more)
    OBVIOUS
  <2>1. ForeignState(kind, foreign, decoder, FALSE, got)
    BY <1>4 DEF CodecInv
  <2> QED
    BY <1>3, <1>5, <2>1, ForeignNext
<1> HIDE DEF r, more
<1> QED
  BY <1>1, <1>2, <1>6, <1>7, <1>8 DEF CodecInv

(* The invariant is kept when nothing changes.                             *)
LEMMA StutterKeeps == ASSUME CodecInv, UNCHANGED vars PROVE CodecInv'
<1>1. /\ kind' = kind /\ encoder' = encoder /\ failedE' = failedE /\ sent' = sent
      /\ flushed' = flushed /\ foreign' = foreign /\ receiving' = receiving
      /\ decoder' = decoder /\ failedD' = failedD /\ got' = got
  BY DEF vars, Sender, Receiver
<1> QED
  BY <1>1 DEF CodecInv

(* The inductive invariant, which says of both ends together where in the  *)
(* messages the wire, the buffers and the values are (encoder.go 66-98,    *)
(* decoder.go 84-104).                                                     *)
THEOREM CodecInvHolds == Spec => []CodecInv
<1>1. CodecInv /\ [Next]_vars => CodecInv'
  <2> SUFFICES ASSUME CodecInv, [Next]_vars PROVE CodecInv'
    OBVIOUS
  <2>1. ASSUME NEW m \in MessagesOf(kind), NEW doFlush \in BOOLEAN, Encode(m, doFlush)
        PROVE  CodecInv'
    BY <2>1, EncodeKeeps
  <2>2. CASE Flush
    BY <2>2, FlushKeeps
  <2>3. ASSUME NEW first \in Pieces, NEW chunk \in Pieces, Deliver(first, chunk)
        PROVE  CodecInv'
    BY <2>3, DeliverKeeps
  <2>4. ASSUME NEW first \in Pieces, NEW chunk \in Pieces, NEW bytes \in Foreign,
               DeliverForeign(bytes, first, chunk)
        PROVE  CodecInv'
    BY <2>4, DeliverForeignKeeps
  <2>5. CASE Decode
    BY <2>5, DecodeKeeps
  <2>6. CASE UNCHANGED vars
    BY <2>6, StutterKeeps
  <2> QED
    BY <2>1, <2>2, <2>3, <2>4, <2>5, <2>6 DEF Next, MessagesOf
<1> QED
  BY <1>1, InitEstablishes, PTL DEF Spec

(* TypeOK: positions stay in the buffers and in memory, whatever is sent   *)
(* in whatever pieces (bufio.go 43-173, slice.go 10-23).                   *)
THEOREM CodecTypesHold == Spec => []TypeOK
<1>1. CodecInv => TypeOK
  <2> SUFFICES ASSUME CodecInv PROVE TypeOK
    OBVIOUS
  <2>1. /\ kind \in Kinds /\ encoder \in Writer /\ sent \in Seq(MessagesOf(kind))
        /\ flushed \in 0..Len(sent) /\ failedE = encoder.err
    BY DEF CodecInv, SentState
  <2>2. failedE \in BOOLEAN /\ sent \in Seq(Requests \cup Replies)
    BY <2>1, WriterTyped, SentTyped
  <2>3. /\ decoder \in Reader /\ failedD \in BOOLEAN /\ got \in Seq(Seq(Nodes(Slices)))
        /\ receiving \in BOOLEAN /\ foreign \in Foreign \cup {NoBytes}
    BY DEF CodecInv, GotState
  <2> QED
    BY <2>1, <2>2, <2>3 DEF TypeOK
<1> QED
  BY <1>1, CodecInvHolds, PTL

(* DecodedIsEncoded: what is decoded is what was encoded, in its order,    *)
(* and stays so when the reader has gone on, for all sizes of the buffers, *)
(* all messages, pieces and places where the connection breaks (slice.go   *)
(* 10-23, bufio.go 115-173).                                               *)
THEOREM DecodedIsEncodedHolds == Spec => []DecodedIsEncoded
<1>1. CodecInv => DecodedIsEncoded
  <2> SUFFICES ASSUME CodecInv, foreign = NoBytes PROVE IsPrefix(Values, sent)
    BY DEF DecodedIsEncoded
  <2> DEFINE vs == ValuesOf(decoder, got)
             j == Len(got)
  <2>1. Values = vs
    BY DEF Values, ValuesOf
  <2>2. kind \in Kinds /\ sent \in Seq(MessagesOf(kind)) /\ GotState(decoder, failedD, got)
    BY DEF CodecInv, SentState
  <2>3. sent \in Seq(Messages) /\ Len(sent) \in Nat
    BY <2>2, SentTyped
  <2>4. vs \in Seq(Messages) /\ Len(vs) = j
    BY <2>2, GotTyped
  <2>5. j \in 0..Len(sent) /\ vs = Take(sent, j)
    <3>1. CASE receiving
      BY <3>1 DEF CodecInv, DecodedState
    <3>2. CASE ~ receiving
      <4>1. got = <<>>
        BY <3>2 DEF CodecInv
      <4>2. j = 0
        BY <4>1, EmptySeq
      <4>3. vs = <<>>
        <5> HIDE DEF vs
        <5> QED
          BY <2>4, <4>2, EmptySeq
      <4>4. Take(sent, 0) = <<>>
        BY <2>3, SeqPartsOfNone
      <4> QED
        BY <2>3, <4>2, <4>3, <4>4
    <3> QED
      BY <3>1, <3>2
  <2> HIDE DEF vs, j
  <2>6. SubSeq(vs, 1, j) = vs
    <3>1. Take(vs, Len(vs)) = vs
      BY <2>4, SeqPartsOfNone
    <3> QED
      BY <2>4, <3>1 DEF Take
  <2>7. SubSeq(sent, 1, j) = vs
    BY <2>5 DEF Take
  <2> QED
    BY <2>1, <2>4, <2>5, <2>6, <2>7 DEF IsPrefix
<1> QED
  BY <1>1, CodecInvHolds, PTL

(* FlushedArrives: what was flushed without an error is decoded before the *)
(* decoder fails (decoder.go 84-104, encoder.go 66-98).                    *)
THEOREM FlushedArrivesHolds == Spec => []FlushedArrives
<1>1. CodecInv => FlushedArrives
  BY DEF CodecInv, FlushedArrives, DecodedState
<1> QED
  BY <1>1, CodecInvHolds, PTL

(* PiecesDoNotMatter: of a peer's bytes, whatever they are, the same       *)
(* values and the same error are decoded in whatever pieces they arrive    *)
(* (decoder.go 118-262, bufio.go 43-173).                                  *)
THEOREM PiecesDoNotMatterHolds == Spec => []PiecesDoNotMatter
<1>1. CodecInv => PiecesDoNotMatter
  <2> SUFFICES ASSUME CodecInv, foreign # NoBytes, failedD PROVE Values = AllOf(kind, foreign)
    BY DEF PiecesDoNotMatter, AllOf
  <2> QED
    BY DEF CodecInv, ForeignState, Values, ValuesOf
<1> QED
  BY <1>1, CodecInvHolds, PTL

=============================================================================
