------------------------------- MODULE TlsBufs -------------------------------
(***************************************************************************)
(* read_bufs and write_bufs of a fiber on a TLS socket: the loops of       *)
(* FiberSock (fiber.rs), which make up for streams that do not take        *)
(* vectors, inside the loops of RunnerInt (runner.rs), which call them     *)
(* again once the socket is ready.                                         *)
(*                                                                         *)
(* A byte to write is the pair of its buffer and its place in there; the   *)
(* bytes of a stream to read from are numbered.  The stream takes or gives *)
(* any part of what it is offered, or would block; waiting itself is       *)
(* modelled in Runner.tla.                                                 *)
(***************************************************************************)
EXTENDS Integers, FiniteSetsExt, SequencesExt

CONSTANTS
    Small,    \* shorter buffers are copied together first (4096 in the code)
    TmpLen,   \* length of tmp_buf (16384 in the code)
    MaxBufs,  \* bound: buffers in a call
    MaxLen,   \* bound: bytes in a buffer
    Window    \* bound: bytes the stream moves before it blocks for good

ASSUME BufsAssumption ==
    /\ {Small, TmpLen, MaxBufs, MaxLen, Window} \subseteq Nat
    /\ Small < TmpLen

VARIABLES
    op,      \* "read" or "write"
    lens,    \* the lengths of the buffers
    i,       \* the buffer the loop is at
    tmp,     \* tmp_buf[0..wpos]
    sz,      \* bytes that were moved, as the loop counts them
    moved,   \* what the stream took, or gave, in order
    filled,  \* filled[k]: what was read into buffer k
    status   \* "loop", "blocked", "ok", "closed" or "failed"

bvars == <<op, lens, i, tmp, sz, moved, filled, status>>

\* The bytes of buffer k.
Buf(k) == [n \in 1 .. lens[k] |-> <<k, n>>]

\* The bytes of all buffers, in order.
Contents == FlattenSeq([k \in DOMAIN lens |-> Buf(k)])

BInit ==
    /\ op \in {"read", "write"}
    /\ lens \in UNION {[1 .. n -> 0 .. MaxLen] : n \in 0 .. MaxBufs}
    /\ i = 1
    /\ tmp = <<>>
    /\ sz = 0
    /\ moved = <<>>
    /\ filled = [k \in DOMAIN lens |-> <<>>]
    /\ status = "loop"

InLoop(o) == op = o /\ status = "loop" /\ i <= Len(lens)

\* The loop is through all buffers.  RunnerInt takes a write of no buffers for
\* a closed socket, and a read into none for a read of nothing.
LoopEnds ==
    /\ status = "loop"
    /\ i > Len(lens)
    /\ status' = IF op = "write" /\ lens = <<>> THEN "closed" ELSE "ok"
    /\ UNCHANGED <<op, lens, i, tmp, sz, moved, filled>>

-----------------------------------------------------------------------------
(* write_bufs.                                                             *)

\* The buffer is short, and tmp_buf has room for it.
Copies == lens[i] < Small /\ Len(tmp) + lens[i] < TmpLen

\* A small buffer is copied to the end of tmp_buf.  The loop does not go on to
\* the next buffer.
Copy ==
    /\ InLoop("write")
    /\ Copies
    /\ tmp' = tmp \o Buf(i)
    /\ UNCHANGED <<op, lens, i, sz, moved, filled, status>>

\* What is written next: the copies, if there are any, or the buffer itself.
Chunk == IF tmp # <<>> THEN tmp ELSE Buf(i)

\* The buffer the loop is at after a write.
AfterWrite == IF tmp # <<>> THEN i ELSE i + 1

\* Mutant: a part that was taken is not counted.
WriteCount_dropped(s) == IF s < Len(Chunk) THEN sz ELSE sz + s

\* The count after the stream took s bytes.
WriteCount(s) == sz + s

\* Mutant: a part is enough to go on.
AfterPart_goes_on(s) == IF s = 0 THEN "ok" ELSE "loop"

\* Anything less than all ends the call.
AfterPart(s) == IF s = 0 \/ s < Len(Chunk) THEN "ok" ELSE "loop"

\* The stream takes s bytes.
Write(s) ==
    /\ InLoop("write")
    /\ ~Copies
    /\ s <= Len(Chunk)
    /\ Len(moved) + s <= Window
    /\ moved' = moved \o SubSeq(Chunk, 1, s)
    /\ sz' = WriteCount(s)
    /\ status' = AfterPart(s)
    /\ i' = AfterWrite
    /\ tmp' = <<>>
    /\ UNCHANGED <<op, lens, filled>>

-----------------------------------------------------------------------------
(* read_bufs.                                                              *)

\* Mutant: the end of the stream forgets what was read before it.
AtEnd_closed == "closed"

\* A read of nothing ends the call; RunnerInt turns Ok(0) into an error.
AtEnd == IF sz = 0 THEN "closed" ELSE "ok"

\* Mutant: always the first.
Into_first == 1

\* The buffer that is read into.
Into == i

\* The loop goes on to the next buffer, although this one may have room left.
AfterRead(s) == IF s = 0 THEN i ELSE i + 1

\* The stream gives s bytes.
Read(s) ==
    /\ InLoop("read")
    /\ s <= lens[i]
    /\ Len(moved) + s <= Window
    /\ LET got == [n \in 1 .. s |-> Len(moved) + n] IN
         /\ moved' = moved \o got
         /\ filled' = [filled EXCEPT ![Into] = got]
    /\ sz' = sz + s
    /\ status' = IF s = 0 THEN AtEnd ELSE "loop"
    /\ i' = AfterRead(s)
    /\ UNCHANGED <<op, lens, tmp>>

-----------------------------------------------------------------------------
(* The stream would block or fails, and the loop of RunnerInt.             *)

\* The call waits only if nothing was moved.
WouldBlock ==
    /\ InLoop("read") \/ (InLoop("write") /\ ~Copies)
    /\ status' = IF sz = 0 THEN "blocked" ELSE "ok"
    /\ UNCHANGED <<op, lens, i, tmp, sz, moved, filled>>

Fails ==
    /\ InLoop("read") \/ (InLoop("write") /\ ~Copies)
    /\ status' = IF sz = 0 THEN "failed" ELSE "ok"
    /\ UNCHANGED <<op, lens, i, tmp, sz, moved, filled>>

\* The fiber was woken: the call starts over with the same buffers.
Retry ==
    /\ status = "blocked"
    /\ i' = 1
    /\ tmp' = <<>>
    /\ sz' = 0
    /\ status' = "loop"
    /\ UNCHANGED <<op, lens, moved, filled>>

\* The fiber was woken by its timer.
TimesOut ==
    /\ status = "blocked"
    /\ status' = "failed"
    /\ UNCHANGED <<op, lens, i, tmp, sz, moved, filled>>

BNext ==
    \/ LoopEnds \/ Copy
    \/ (\E s \in 0 .. MaxLen + TmpLen : Write(s) \/ Read(s))
    \/ WouldBlock \/ Fails \/ Retry \/ TimesOut

BSpec == BInit /\ [][BNext]_bvars

-----------------------------------------------------------------------------
\* No buffer takes the path through tmp_buf.
NoneSmall == \A k \in DOMAIN lens : lens[k] >= Small

\* The count that a call returns is the number of bytes that went through the
\* stream, all retries of the loop in RunnerInt together: bytes that were
\* moved before the stream blocked are never moved again by a retry, and never
\* left out of the count.
Counted == status = "ok" => sz = Len(moved)

\* A call that ends in an error has moved nothing, so that a program that
\* tries again neither repeats nor loses bytes.
FailsUnmoved == status \in {"closed", "failed"} => moved = <<>>

\* Buffers that are too long for tmp_buf are written one after the other:
\* what the stream got is the start of what they hold.
LongInOrder == op = "write" /\ NoneSmall => IsPrefix(moved, Contents)

\* What was read is in the buffers, in order and once.
ReadKept == op = "read" => FlattenSeq(filled) = moved

\* As the documentation has it: the bytes of the buffers are copied to a 16KB
\* buffer and sent from there, so the stream gets the start of what they hold.
SentInOrder == op = "write" => IsPrefix(moved, Contents)

\* Reading into an array of buffers fills one before it goes on to the next.
ReadFilled ==
    \A k \in DOMAIN lens : \A j \in 1 .. k - 1 :
      filled[k] # <<>> => Len(filled[j]) = lens[j]

=============================================================================
