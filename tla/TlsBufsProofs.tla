---------------------------- MODULE TlsBufsProofs ----------------------------
(***************************************************************************)
(* Vectored reads and writes of a TLS socket: the count they return, what  *)
(* an error means, and where the bytes end up, proved for any buffers, any *)
(* lengths of the temporary buffer and any stream.                         *)
(***************************************************************************)
EXTENDS TlsBufs, Induction

Bytes == Nat \cup (Nat \X Nat)
Statuses == {"loop", "blocked", "ok", "closed", "failed"}

BTypeOK ==
    /\ op \in {"read", "write"}
    /\ lens \in Seq(Nat)
    /\ i \in Nat \ {0}
    /\ sz \in Nat
    /\ tmp \in Seq(Bytes) /\ moved \in Seq(Bytes)
    /\ filled \in Seq(Seq(Bytes)) /\ Len(filled) = Len(lens)
    /\ status \in Statuses

\* The loop counts what the stream moves; and while the count is 0, it is at
\* the first buffer, so that a call that waits has not begun.  Without buffers
\* nothing is moved.
CountInv ==
    /\ status \in {"loop", "ok"} => sz = Len(moved)
    /\ status \in {"blocked", "closed", "failed"} => moved = <<>>
    /\ status = "loop" /\ sz = 0 => i = 1
    /\ status = "blocked" => i = 1
    /\ lens = <<>> => moved = <<>>

\* The buffers that the loop has not come to are as they were.
ReadInv ==
    op = "read" =>
      /\ FlattenSeq(filled) = moved
      /\ status \in {"loop", "blocked"} =>
           \A k \in 1 .. Len(lens) : k >= i => filled[k] = <<>>

\* What the stream has of each buffer when it has all before j, and c bytes of
\* buffer j.
Taken(j, c) ==
    [k \in 1 .. Len(lens) |-> IF k < j THEN Buf(k)
                              ELSE IF k = j THEN SubSeq(Buf(k), 1, c) ELSE <<>>]

\* If no buffer is copied, the stream has all buffers before i.
WriteInv ==
    op = "write" /\ NoneSmall =>
      /\ tmp = <<>>
      /\ IsPrefix(moved, Contents)
      /\ status \in {"loop", "blocked"} => moved = FlattenSeq(Taken(i, 0))

\* The inductive invariant.
BInv == BTypeOK /\ CountInv /\ ReadInv /\ WriteInv

\* The bytes of a buffer, and the part of them that a write takes.
LEMMA BufType ==
  ASSUME BTypeOK, NEW k \in 1 .. Len(lens)
  PROVE  /\ Buf(k) \in Seq(Bytes) /\ Len(Buf(k)) = lens[k]
         /\ \A c \in 0 .. lens[k] : /\ SubSeq(Buf(k), 1, c) \in Seq(Bytes)
                                    /\ Len(SubSeq(Buf(k), 1, c)) = c
<1>1. lens[k] \in Nat /\ k \in Nat
  BY DEF BTypeOK
<1>2. \A n \in 1 .. lens[k] : <<k, n>> \in Bytes
  BY <1>1 DEF Bytes
<1>3. Buf(k) \in Seq(Bytes) /\ Len(Buf(k)) = lens[k]
  BY <1>1, <1>2 DEF Buf
<1>4. ASSUME NEW c \in 0 .. lens[k]
      PROVE  SubSeq(Buf(k), 1, c) \in Seq(Bytes) /\ Len(SubSeq(Buf(k), 1, c)) = c
  BY <1>1, <1>3, SubSeqProperties
<1> QED BY <1>3, <1>4

\* What the stream has of buffer k.
LEMMA TakenAt ==
  ASSUME NEW j \in Nat, NEW c, NEW k \in 1 .. Len(lens), k \in Nat
  PROVE  /\ k < j => Taken(j, c)[k] = Buf(k)
         /\ k = j => Taken(j, c)[k] = SubSeq(Buf(k), 1, c)
         /\ k > j => Taken(j, c)[k] = <<>>
<1>1. Taken(j, c)[k] = IF k < j THEN Buf(k)
                       ELSE IF k = j THEN SubSeq(Buf(k), 1, c) ELSE <<>>
  BY DEF Taken
<1>2. (k = j => ~(k < j)) /\ (k > j => ~(k < j) /\ k # j)
  OBVIOUS
<1> QED BY <1>1, <1>2, Zenon

\* It is a part of the buffer.
LEMMA TakenType ==
  ASSUME BTypeOK, NEW j \in Nat, NEW c \in Nat,
         j \in 1 .. Len(lens) => c <= lens[j]
  PROVE  Taken(j, c) \in Seq(Seq(Bytes)) /\ Len(Taken(j, c)) = Len(lens)
<1>1. Len(lens) \in Nat /\ \A k \in 1 .. Len(lens) : lens[k] \in Nat
  BY DEF BTypeOK
<1>2. \A k \in 1 .. Len(lens) : Taken(j, c)[k] \in Seq(Bytes)
  <2> TAKE k \in 1 .. Len(lens)
  <2>1. Buf(k) \in Seq(Bytes) /\ (k = j => SubSeq(Buf(k), 1, c) \in Seq(Bytes))
    BY <1>1, BufType
  <2>2. <<>> \in Seq(Bytes)
    OBVIOUS
  <2> QED BY <2>1, <2>2 DEF Taken
<1>3. Taken(j, c) \in [1 .. Len(lens) -> Seq(Bytes)]
  BY <1>2 DEF Taken
<1> QED BY <1>1, <1>3

\* A stream that has all buffers before j and takes c bytes of the next.
LEMMA TakeMore ==
  ASSUME BTypeOK, NEW j \in 1 .. Len(lens), NEW c \in 0 .. lens[j]
  PROVE  FlattenSeq(Taken(j, c)) = FlattenSeq(Taken(j, 0)) \o SubSeq(Buf(j), 1, c)
<1> DEFINE s == Taken(j, 0)
           t == Taken(j, c)
           r == SubSeq(Buf(j), 1, c)
           e == <<>>
           N == Len(lens)
<1>0. lens[j] \in Nat /\ j \in Nat /\ c \in Nat /\ N \in Nat /\ 0 <= lens[j] /\ c <= lens[j]
  BY DEF BTypeOK
<1>1. s \in Seq(Seq(Bytes)) /\ Len(s) = N /\ t \in Seq(Seq(Bytes)) /\ Len(t) = N
  BY <1>0, TakenType
<1>2. r \in Seq(Bytes) /\ SubSeq(Buf(j), 1, 0) = e
  BY <1>0, BufType, SubSeqEmpty
<1>3. s[j] = e /\ t[j] = r
  BY <1>0, <1>2, TakenAt
<1>4. \A k \in 1 .. N : (k < j => s[k] = t[k]) /\ (k > j => s[k] = e /\ t[k] = e)
  BY <1>0, TakenAt
<1>5. e \o r = r /\ j \in 1 .. N
  BY <1>2
<1> HIDE DEF s, t, r, N, e
<1>6. Continues(s, t, N, j, r, e)
  BY <1>3, <1>4, <1>5 DEF Continues
<1>7. PICK q \in Seq(Bytes) :
        /\ FlattenSeq(t) = (FlattenSeq(s) \o r) \o q
        /\ (\A k \in 1 .. N : k > j => t[k] = e) => q = e
  <2>1. IsMore(FlattenSeq(s), FlattenSeq(t), t, N, j, r, Seq(Bytes), e)
    BY <1>1, <1>2, <1>5, <1>6, FlattenMore DEF e
  <2> QED BY <2>1, Zenon DEF IsMore
<1>8. q = e
  BY <1>4, <1>7
<1>9. FlattenSeq(s) \o r \in Seq(Bytes)
  BY <1>1, <1>2, FlattenIsSeq
<1>10. FlattenSeq(t) = FlattenSeq(s) \o r
  BY <1>7, <1>8, <1>9, ConcatEmptySeq DEF e
<1> QED BY <1>10 DEF s, t, r

\* It is then at the start of the next buffer if that was all of this one.
LEMMA TakeAll ==
  ASSUME BTypeOK, NEW j \in 1 .. Len(lens)
  PROVE  Taken(j, lens[j]) = Taken(j + 1, 0)
<1>0. lens[j] \in Nat /\ j \in Nat /\ Len(lens) \in Nat
  BY DEF BTypeOK
<1>1. Buf(j) \in Seq(Bytes) /\ Len(Buf(j)) = lens[j]
  BY BufType
<1>2. SubSeq(Buf(j), 1, lens[j]) = Buf(j)
  BY <1>1, SubSeqFull
<1>3. \A k \in 1 .. Len(lens) : SubSeq(Buf(k), 1, 0) = <<>>
  BY SubSeqEmpty
<1>4. ASSUME NEW k \in 1 .. Len(lens)
      PROVE  Taken(j, lens[j])[k] = Taken(j + 1, 0)[k]
  <2>0. k \in Nat /\ j + 1 \in Nat /\ (k < j \/ k = j \/ k > j)
    BY <1>0
  <2>3. CASE k < j
    <3>1. k < j + 1
      BY <1>0, <2>0, <2>3
    <3> QED BY <1>0, <2>0, <2>3, <3>1, TakenAt
  <2>4. CASE k = j
    <3>1. k < j + 1
      BY <1>0, <2>0, <2>4
    <3>2. Taken(j, lens[j])[k] = SubSeq(Buf(k), 1, lens[j])
      BY <1>0, <2>0, <2>4, TakenAt
    <3>3. Taken(j + 1, 0)[k] = Buf(k)
      BY <2>0, <3>1, TakenAt
    <3> QED BY <1>2, <2>4, <3>2, <3>3
  <2>5. CASE k > j
    <3>1. k = j + 1 \/ k > j + 1
      BY <1>0, <2>0, <2>5
    <3> QED BY <1>0, <1>3, <2>0, <2>5, <3>1, TakenAt
  <2> QED BY <2>0, <2>3, <2>4, <2>5
<1> QED BY <1>4, Zenon DEF Taken

\* What it has is the start of what the buffers hold.
LEMMA TakenPrefix ==
  ASSUME BTypeOK, NEW j \in 1 .. Len(lens), NEW c \in 0 .. lens[j]
  PROVE  IsPrefix(FlattenSeq(Taken(j, c)), Contents)
<1> DEFINE s == Taken(j, c)
           t == [k \in 1 .. Len(lens) |-> Buf(k)]
           N == Len(lens)
           b == Buf(j)
           r == SubSeq(b, c + 1, lens[j])
           e == <<>>
<1>0. lens[j] \in Nat /\ j \in Nat /\ c \in Nat /\ N \in Nat /\ c <= lens[j]
  BY DEF BTypeOK
<1>1. s \in Seq(Seq(Bytes)) /\ Len(s) = N
  BY <1>0, TakenType
<1>2. \A k \in 1 .. N : Buf(k) \in Seq(Bytes)
  BY BufType
<1>3. t \in Seq(Seq(Bytes)) /\ Len(t) = N
  BY <1>0, <1>2
<1>4. /\ b \in Seq(Bytes) /\ Len(b) = lens[j]
      /\ t[j] = b /\ s[j] = SubSeq(b, 1, c)
      /\ \A k \in 1 .. N : (k < j => s[k] = t[k]) /\ (k > j => s[k] = e)
  BY <1>0, BufType, TakenAt
<1>5. Contents = FlattenSeq(t) /\ j \in 1 .. N
  <2>1. DOMAIN lens = 1 .. Len(lens)
    BY DEF BTypeOK
  <2> QED BY <2>1 DEF Contents
<1> HIDE DEF s, t, N, b
<1>6. SubSeq(b, 1, c) \o SubSeq(b, c + 1, lens[j]) = SubSeq(b, 1, lens[j])
  <2>1. 1 \in 1 .. Len(b) + 1 /\ c \in 1 - 1 .. Len(b) /\ lens[j] \in c .. Len(b)
    BY <1>0, <1>4
  <2> QED BY <1>4, <2>1, ConcatAdjacentSubSeq
<1>7. SubSeq(b, 1, c) \o r = b
  BY <1>4, <1>6, SubSeqFull
<1>8. r \in Seq(Bytes)
  <2>1. \A k \in c + 1 .. lens[j] : b[k] \in Bytes
    BY <1>0, <1>4
  <2> QED BY <1>0, <2>1, SubSeqProperties
<1> HIDE DEF r, e
<1>9. Continues(s, t, N, j, r, e)
  BY <1>4, <1>7 DEF Continues
<1>10. PICK q \in Seq(Bytes) : FlattenSeq(t) = (FlattenSeq(s) \o r) \o q
  <2>1. IsMore(FlattenSeq(s), FlattenSeq(t), t, N, j, r, Seq(Bytes), e)
    BY <1>1, <1>3, <1>5, <1>8, <1>9, FlattenMore DEF e
  <2> QED BY <2>1, Zenon DEF IsMore
<1>11. FlattenSeq(s) \in Seq(Bytes) /\ r \o q \in Seq(Bytes)
  BY <1>1, <1>8, FlattenIsSeq, ConcatProperties
<1>12. FlattenSeq(t) = FlattenSeq(s) \o (r \o q)
  BY <1>8, <1>10, <1>11, ConcatAssociative
<1>13. IsPrefix(FlattenSeq(s), FlattenSeq(s) \o (r \o q))
  BY <1>11, ConcatPrefix
<1> QED BY <1>5, <1>12, <1>13 DEF s

\* A stream that has nothing.
LEMMA TakenNone ==
  ASSUME BTypeOK
  PROVE  FlattenSeq(Taken(1, 0)) = <<>>
<1>0. Len(lens) \in Nat /\ \A k \in 1 .. Len(lens) : lens[k] \in Nat
  BY DEF BTypeOK
<1>1. Taken(1, 0) \in Seq(Seq(Bytes)) /\ Len(Taken(1, 0)) = Len(lens)
  <2>1. 1 \in Nat /\ 0 \in Nat /\ (1 \in 1 .. Len(lens) => 0 <= lens[1])
    BY <1>0
  <2> QED BY <2>1, TakenType
<1>2. \A k \in 1 .. Len(lens) : SubSeq(Buf(k), 1, 0) = <<>>
  BY SubSeqEmpty
<1>3. \A k \in 1 .. Len(lens) : Taken(1, 0)[k] = <<>>
  <2> TAKE k \in 1 .. Len(lens)
  <2>1. k \in Nat /\ (k = 1 \/ k > 1)
    BY <1>0
  <2> QED BY <1>2, <2>1, TakenAt
<1> QED BY <1>1, <1>3, FlattenEmpty

-----------------------------------------------------------------------------
(* The steps.                                                              *)

\* A call that is about to start has moved nothing.
LEMMA BInvInit == BInit => BInv
<1> SUFFICES ASSUME BInit PROVE BInv
  OBVIOUS
<1>1. PICK n \in 0 .. MaxBufs : lens \in [1 .. n -> 0 .. MaxLen]
  BY DEF BInit
<1>2. lens \in Seq(Nat) /\ Len(lens) = n /\ DOMAIN lens = 1 .. n
  BY <1>1, BufsAssumption
<1>3. /\ filled \in Seq(Seq(Bytes)) /\ Len(filled) = Len(lens)
      /\ \A k \in 1 .. Len(lens) : filled[k] = <<>>
  BY <1>1, <1>2, BufsAssumption DEF BInit
<1>4. BTypeOK
  BY <1>2, <1>3 DEF BInit, BTypeOK, Statuses
<1>5. CountInv
  BY DEF BInit, CountInv
<1>6. ReadInv
  <2>1. FlattenSeq(filled) = <<>>
    BY <1>3, FlattenEmpty
  <2> QED BY <1>3, <2>1 DEF BInit, ReadInv
<1>7. WriteInv
  <2>1. moved = <<>> /\ tmp = <<>> /\ i = 1
    BY DEF BInit
  <2>2. moved = FlattenSeq(Taken(i, 0))
    BY <1>4, <2>1, TakenNone
  <2>3. IsPrefix(moved, Contents)
    <3>1. CASE n # 0
      <4>1. 1 \in 1 .. Len(lens) /\ 0 \in 0 .. lens[1]
        BY <1>1, <1>2, <3>1, BufsAssumption
      <4> QED BY <1>4, <2>1, <2>2, <4>1, TakenPrefix
    <3>2. CASE n = 0
      <4>1. PICK seqs : seqs = [k \in DOMAIN lens |-> Buf(k)]
        OBVIOUS
      <4>2. /\ seqs \in Seq(Seq(Bytes)) /\ Len(seqs) = 0
            /\ \A k \in 1 .. Len(seqs) : seqs[k] = <<>>
        BY <1>2, <3>2, <4>1
      <4>3. FlattenSeq(seqs) = <<>>
        BY <4>2, FlattenEmpty
      <4>4. Contents = <<>>
        BY <4>1, <4>3 DEF Contents
      <4> QED BY <2>1, <4>4 DEF IsPrefix
    <3> QED BY <3>1, <3>2
  <2> QED BY <2>1, <2>2, <2>3 DEF WriteInv
<1> QED BY <1>4, <1>5, <1>6, <1>7 DEF BInv

\* A write: the stream takes s bytes of the chunk.
LEMMA WriteStep ==
  ASSUME BInv, NEW s \in 0 .. MaxLen + TmpLen, Write(s)
  PROVE  BInv'
<1>0. BTypeOK /\ CountInv /\ ReadInv /\ WriteInv
  BY DEF BInv
<1>1. /\ op = "write" /\ status = "loop" /\ i \in 1 .. Len(lens) /\ s \in Nat
      /\ s <= Len(Chunk) /\ UNCHANGED <<op, lens, filled>>
      /\ moved' = moved \o SubSeq(Chunk, 1, s) /\ sz' = sz + s
      /\ i' = AfterWrite /\ tmp' = <<>>
      /\ status' = IF s = 0 \/ s < Len(Chunk) THEN "ok" ELSE "loop"
  BY <1>0, BufsAssumption DEF Write, InLoop, BTypeOK, WriteCount, AfterPart
<1>2. Chunk \in Seq(Bytes) /\ Buf(i) \in Seq(Bytes) /\ Len(Buf(i)) = lens[i]
  BY <1>0, <1>1, BufType DEF Chunk, BTypeOK
<1> DEFINE part == SubSeq(Chunk, 1, s)
<1>3. part \in Seq(Bytes) /\ Len(part) = s
  <2>1. \A k \in 1 .. s : Chunk[k] \in Bytes
    BY <1>1, <1>2
  <2> QED BY <1>1, <2>1, SubSeqProperties
<1> HIDE DEF part
<1>4. moved' = moved \o part /\ moved \in Seq(Bytes)
  BY <1>0, <1>1 DEF part, BTypeOK
<1>5. moved' \in Seq(Bytes) /\ Len(moved') = Len(moved) + s
  BY <1>3, <1>4, ConcatProperties
<1>6. BTypeOK'
  <2>1. i' \in Nat \ {0}
    BY <1>0, <1>1 DEF AfterWrite, BTypeOK
  <2>2. sz' \in Nat /\ status' \in Statuses /\ tmp' \in Seq(Bytes)
    BY <1>0, <1>1 DEF BTypeOK, Statuses
  <2> QED BY <1>0, <1>1, <1>5, <2>1, <2>2 DEF BTypeOK
<1>7. CountInv'
  <2>1. sz \in Nat /\ sz = Len(moved)
    BY <1>0, <1>1 DEF BTypeOK, CountInv
  <2>2. sz' = Len(moved') /\ (status' = "loop" => sz' # 0) /\ status' \in {"loop", "ok"}
    BY <1>1, <1>5, <2>1
  <2>3. lens' # <<>>
    BY <1>0, <1>1 DEF Write, InLoop, BTypeOK
  <2> QED BY <2>2, <2>3 DEF CountInv
<1>8. ReadInv'
  BY <1>1 DEF ReadInv
<1>9. WriteInv'
  <2> SUFFICES ASSUME NoneSmall
               PROVE  /\ IsPrefix(moved', Contents)
                      /\ status' = "loop" => moved' = FlattenSeq(Taken(i', 0))
    <3>1. NoneSmall' = NoneSmall /\ Contents' = Contents
      BY <1>1 DEF NoneSmall, Contents, Buf
    <3>2. Taken(i, 0)' = Taken(i', 0)
      BY <1>1 DEF Taken, Buf
    <3>3. status' # "blocked"
      BY <1>1
    <3> QED BY <1>1, <3>1, <3>2, <3>3 DEF WriteInv
  <2>1. tmp = <<>> /\ moved = FlattenSeq(Taken(i, 0))
    BY <1>0, <1>1 DEF WriteInv
  <2>2. Chunk = Buf(i) /\ i' = i + 1 /\ s \in 0 .. lens[i]
    BY <1>0, <1>1, <1>2, <2>1 DEF Chunk, AfterWrite, BTypeOK
  <2>3. moved' = FlattenSeq(Taken(i, s))
    BY <1>0, <1>1, <1>4, <2>1, <2>2, TakeMore DEF part
  <2>4. IsPrefix(moved', Contents)
    BY <1>0, <1>1, <2>2, <2>3, TakenPrefix
  <2>5. ASSUME status' = "loop"
        PROVE  moved' = FlattenSeq(Taken(i', 0))
    <3>1. s = lens[i]
      BY <1>0, <1>1, <1>2, <2>2, <2>5 DEF BTypeOK
    <3> QED BY <1>0, <1>1, <2>2, <2>3, <3>1, TakeAll
  <2> QED BY <2>4, <2>5
<1> QED BY <1>6, <1>7, <1>8, <1>9 DEF BInv

\* A read: the stream gives s bytes, which go to the buffer the loop is at.
LEMMA ReadStep ==
  ASSUME BInv, NEW s \in 0 .. MaxLen + TmpLen, Read(s)
  PROVE  BInv'
<1> DEFINE got == [n \in 1 .. s |-> Len(moved) + n]
<1>0. BTypeOK /\ CountInv /\ ReadInv /\ WriteInv
  BY DEF BInv
<1>1. /\ op = "read" /\ status = "loop" /\ i \in 1 .. Len(lens) /\ s \in Nat
      /\ UNCHANGED <<op, lens, tmp>>
      /\ moved' = moved \o got /\ sz' = sz + s
      /\ filled' = [filled EXCEPT ![i] = got]
      /\ i' = IF s = 0 THEN i ELSE i + 1
      /\ status' = IF s = 0 THEN (IF sz = 0 THEN "closed" ELSE "ok") ELSE "loop"
  BY <1>0, BufsAssumption DEF Read, InLoop, BTypeOK, Into, AfterRead, AtEnd
<1>2. got \in Seq(Bytes) /\ Len(got) = s
  <2>1. \A n \in 1 .. s : Len(moved) + n \in Bytes
    BY <1>0 DEF BTypeOK, Bytes
  <2> QED BY <1>1, <2>1
<1>3. s = 0 => got = <<>>
  BY <1>2
<1> HIDE DEF got
<1>4. moved \in Seq(Bytes) /\ filled \in Seq(Seq(Bytes)) /\ Len(filled) = Len(lens)
  BY <1>0 DEF BTypeOK
<1>5. moved' \in Seq(Bytes) /\ Len(moved') = Len(moved) + s
  BY <1>1, <1>2, <1>4, ConcatProperties
<1>6. /\ filled' \in Seq(Seq(Bytes)) /\ Len(filled') = Len(lens)
      /\ \A k \in 1 .. Len(lens) : filled'[k] = IF k = i THEN got ELSE filled[k]
  BY <1>1, <1>2, <1>4, ExceptSeq
<1>7. BTypeOK'
  <2>1. i' \in Nat \ {0} /\ sz' \in Nat /\ status' \in Statuses
    BY <1>0, <1>1 DEF BTypeOK, Statuses
  <2> QED BY <1>0, <1>1, <1>5, <1>6, <2>1 DEF BTypeOK
<1>8. CountInv'
  <2>1. sz \in Nat /\ sz = Len(moved) /\ (sz = 0 => i = 1)
    BY <1>0, <1>1 DEF BTypeOK, CountInv
  <2>2. /\ sz' = Len(moved') /\ (status' = "loop" => sz' # 0)
        /\ status' \in {"loop", "ok", "closed"} /\ (status' = "closed" => sz' = 0)
    BY <1>1, <1>5, <2>1
  <2>3. status' = "closed" => moved' = <<>>
    BY <1>5, <2>2
  <2>4. lens' # <<>>
    BY <1>0, <1>1 DEF Read, InLoop, BTypeOK
  <2> QED BY <2>2, <2>3, <2>4 DEF CountInv
<1>9. ReadInv'
  <2>1. /\ FlattenSeq(filled) = moved
        /\ \A k \in 1 .. Len(lens) : k >= i => filled[k] = <<>>
    BY <1>0, <1>1 DEF ReadInv
  <2> DEFINE N == Len(lens)
             e == <<>>
             fl == filled'
  <2>2. /\ N \in Nat /\ i \in 1 .. N /\ fl[i] = got /\ filled[i] = e
        /\ \A k \in 1 .. N : (k < i => filled[k] = fl[k]) /\ (k > i => filled[k] = e /\ fl[k] = e)
    <3>1. N \in Nat /\ i \in 1 .. N /\ i \in Nat
      BY <1>0, <1>1 DEF BTypeOK
    <3>2. fl[i] = got /\ filled[i] = e
      BY <1>1, <1>6, <2>1, <3>1
    <3>3. \A k \in 1 .. N : k < i => k # i /\ fl[k] = filled[k]
      BY <1>6, <3>1
    <3>4. \A k \in 1 .. N : k > i => k # i /\ k >= i
      BY <3>1
    <3>5. \A k \in 1 .. N : k > i => fl[k] = e /\ filled[k] = e
      BY <1>6, <2>1, <3>4
    <3> HIDE DEF N, e, fl
    <3> QED BY <3>1, <3>2, <3>3, <3>5
  <2>3. e \o got = got
    BY <1>2
  <2> HIDE DEF N, e, fl
  <2>4. Continues(filled, fl, N, i, got, e)
    BY <2>2, <2>3 DEF Continues
  <2>5. IsMore(FlattenSeq(filled), FlattenSeq(fl), fl, N, i, got, Seq(Bytes), e)
    BY <1>2, <1>4, <1>6, <2>2, <2>4, FlattenMore DEF e, N, fl
  <2>6. PICK q \in Seq(Bytes) :
          /\ FlattenSeq(fl) = (moved \o got) \o q
          /\ (\A k \in 1 .. N : k > i => fl[k] = e) => q = e
    BY <2>1, <2>5, Zenon DEF IsMore
  <2>7. q = e
    BY <2>2, <2>6
  <2>8. FlattenSeq(fl) = moved'
    BY <1>1, <1>5, <2>6, <2>7, ConcatEmptySeq DEF e
  <2>9. status' \in {"loop", "blocked"} =>
          \A k \in 1 .. Len(lens) : k >= i' => fl[k] = <<>>
    BY <1>1, <2>2 DEF N, e
  <2> QED BY <1>1, <2>8, <2>9 DEF ReadInv, fl
<1>10. WriteInv'
  BY <1>1 DEF WriteInv
<1> QED BY <1>7, <1>8, <1>9, <1>10 DEF BInv

\* Every other step leaves what was moved, and the buffers, alone.
LEMMA OtherSteps ==
  ASSUME BInv, LoopEnds \/ Copy \/ WouldBlock \/ Fails \/ Retry \/ TimesOut \/ UNCHANGED bvars
  PROVE  BInv'
<1>0. BTypeOK /\ CountInv /\ ReadInv /\ WriteInv
  BY DEF BInv
<1>1. UNCHANGED <<op, lens, moved, filled>>
  BY DEF LoopEnds, Copy, WouldBlock, Fails, Retry, TimesOut, bvars
<1>2. /\ NoneSmall' = NoneSmall /\ Contents' = Contents
      /\ \A j : Taken(j, 0)' = Taken(j, 0)
  BY <1>1 DEF NoneSmall, Contents, Taken, Buf
<1>3. BTypeOK'
  <2>1. tmp' \in Seq(Bytes)
    <3>1. CASE Copy
      <4>1. i \in 1 .. Len(lens)
        BY <1>0, <3>1 DEF Copy, InLoop, BTypeOK
      <4>2. Buf(i) \in Seq(Bytes) /\ tmp \in Seq(Bytes) /\ tmp' = tmp \o Buf(i)
        BY <1>0, <3>1, <4>1, BufType DEF Copy, BTypeOK
      <4> QED BY <4>2, ConcatProperties
    <3>2. CASE Retry
      BY <3>2 DEF Retry
    <3>3. CASE tmp' = tmp
      BY <1>0, <3>3 DEF BTypeOK
    <3> QED BY <3>1, <3>2, <3>3 DEF LoopEnds, WouldBlock, Fails, TimesOut, bvars
  <2>2. i' \in Nat \ {0} /\ sz' \in Nat /\ status' \in Statuses
    BY <1>0 DEF LoopEnds, Copy, WouldBlock, Fails, Retry, TimesOut, bvars, BTypeOK, Statuses
  <2> QED BY <1>0, <1>1, <2>1, <2>2 DEF BTypeOK
<1>4. CountInv'
  <2>1. moved \in Seq(Bytes) /\ (Len(moved) = 0 => moved = <<>>) /\ sz \in Nat
    BY <1>0 DEF BTypeOK
  <2>2. CASE WouldBlock \/ Fails
    BY <1>0, <1>1, <2>1, <2>2 DEF WouldBlock, Fails, InLoop, CountInv
  <2>3. CASE Retry \/ TimesOut
    BY <1>0, <1>1, <2>3 DEF Retry, TimesOut, CountInv
  <2>4. CASE LoopEnds \/ Copy \/ UNCHANGED bvars
    BY <1>0, <1>1, <2>4 DEF LoopEnds, Copy, InLoop, bvars, CountInv
  <2> QED BY <2>2, <2>3, <2>4
<1>5. i' = i \/ (status = "blocked" /\ i = 1 /\ i' = 1)
  BY <1>0 DEF LoopEnds, Copy, WouldBlock, Fails, Retry, TimesOut, bvars, CountInv
<1>6. i' = i
  BY <1>5
<1>7. status' \in {"loop", "blocked"} => status \in {"loop", "blocked"}
  BY DEF LoopEnds, Copy, WouldBlock, Fails, Retry, TimesOut, InLoop, bvars
<1>8. ReadInv'
  BY <1>0, <1>1, <1>6, <1>7 DEF ReadInv
<1>9. WriteInv'
  <2> SUFFICES ASSUME op = "write", NoneSmall
               PROVE  tmp' = <<>> /\ IsPrefix(moved, Contents)
                      /\ (status' \in {"loop", "blocked"} => moved = FlattenSeq(Taken(i, 0)))
    BY <1>1, <1>2, <1>6 DEF WriteInv, Taken, Buf
  <2>1. ~Copy
    <3>1. Copy => i \in DOMAIN lens /\ lens[i] < Small
      BY <1>0 DEF Copy, Copies, InLoop, BTypeOK
    <3>2. \A k \in DOMAIN lens : ~(lens[k] < Small)
      BY <1>0, BufsAssumption DEF NoneSmall, BTypeOK
    <3> QED BY <3>1, <3>2
  <2>2. tmp = <<>>
    BY <1>0 DEF WriteInv
  <2>3. tmp' = <<>>
    BY <2>1, <2>2 DEF LoopEnds, WouldBlock, Fails, Retry, TimesOut, bvars
  <2> QED BY <1>0, <1>7, <2>3 DEF WriteInv
<1> QED BY <1>3, <1>4, <1>8, <1>9 DEF BInv

\* Every step keeps the invariant.
LEMMA BInvStep == BInv /\ [BNext]_bvars => BInv'
  BY WriteStep, ReadStep, OtherSteps DEF BNext

-----------------------------------------------------------------------------
\* The count that read_bufs or write_bufs returns is the number of bytes that
\* went through the stream, with any number of retries, partial reads and
\* writes, and for any buffers: a call that waits has moved nothing, so that
\* starting over repeats nothing and loses nothing.
THEOREM CountCorrect == BSpec => []Counted
<1>1. BInv => Counted
  BY DEF BInv, CountInv, Counted
<1> QED BY <1>1, BInvInit, BInvStep, PTL DEF BSpec

\* A call that fails, or finds the stream closed, has moved nothing.
THEOREM FailureMovesNothing == BSpec => []FailsUnmoved
<1>1. BInv => FailsUnmoved
  BY DEF BInv, CountInv, FailsUnmoved
<1> QED BY <1>1, BInvInit, BInvStep, PTL DEF BSpec

\* What read_bufs read is in the buffers, in order and once, for any number of
\* buffers of any length.
THEOREM ReadComplete == BSpec => []ReadKept
<1>1. BInv => ReadKept
  BY DEF BInv, ReadInv, ReadKept
<1> QED BY <1>1, BInvInit, BInvStep, PTL DEF BSpec

\* write_bufs sends buffers that it does not copy in order: what the stream got
\* is a prefix of what they hold, also if it takes parts.
THEOREM LongWritesInOrder == BSpec => []LongInOrder
<1>1. BInv => LongInOrder
  BY DEF BInv, WriteInv, LongInOrder
<1> QED BY <1>1, BInvInit, BInvStep, PTL DEF BSpec

=============================================================================
