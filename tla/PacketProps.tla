----------------------------- MODULE PacketProps -----------------------------
(***************************************************************************)
(* What makes the parser and the builder of Packet.tla correct.            *)
(***************************************************************************)
EXTENDS Packet

Places == {"build", "header", "next", "name", "named", "rdata", "txt",
           "done", "error", "panic"}
Goals == {"question", "record", "target", "primary", "mailbox"}

\* What two bytes hold.
MaxTwoBytes == 65535
TwoBytes == 0 .. MaxTwoBytes

\* Every cursor is a position of the packet or its end.
PTypeOK ==
    /\ data \in Seq(Byte)
    /\ at \in Places
    /\ goal \in Goals
    /\ offset \in 0 .. Size
    /\ left \in [Sections -> TwoBytes]
    /\ name \in [start : 0 .. Size, end : 0 .. Size, hi : 0 .. Size, pos : 0 .. Size,
                 largest : 0 .. Size, ret : {NoPos} \cup 0 .. Size]
    /\ rd \in [typ : Nat, lo : 0 .. Size, hi : 0 .. Size, pos : 0 .. Size]
    /\ opt \in BOOLEAN

\* The parser never indexes outside the slice it looks at, whatever bytes
\* arrive: the byte that Name::scan reads next is in its slice, what it
\* returns is a prefix of the slice it was given, and a slice of record data
\* or of the rest of the packet has its bounds in order.  The code panics
\* otherwise.
InBounds ==
    /\ at = "next" => offset <= Size
    /\ at = "name" => name.start <= name.end /\ name.pos < name.hi /\ name.hi <= Size
    /\ at = "named" => name.start < NameEnd /\ NameEnd <= name.end /\ name.end <= Size
    /\ at \in {"rdata", "txt"} => rd.lo <= rd.pos /\ rd.pos <= rd.hi /\ rd.hi <= Size
    /\ at = "named" /\ goal \in {"target", "primary", "mailbox"} => NameEnd <= rd.hi

\* A scan advances in every iteration of its loop: forwards in the slice, or
\* by a pointer to before the place the last pointer led to.
ScanAdvances ==
    [][at = "name" /\ at' = "name" =>
         \/ name'.largest < name.largest
         \/ name'.largest = name.largest /\ name'.pos > name.pos]_pvars

\* Every packet is parsed to its end or rejected: no chain of compression
\* pointers keeps the parser going, and with it the thread that run() is on.
Terminates == <>(at \in {"done", "error", "panic"})

-----------------------------------------------------------------------------
(* Names as the protocol defines them, for comparison: from a position one *)
(* goes on to what follows the label, or to where the pointer leads.       *)

IsPointer(p) == B(p) >= 192

Follow(p) == IF IsPointer(p) THEN U16(p) % 16384 ELSE p + 1 + B(p)

\* At p there is a label or a pointer, and all of the pointer.
GoesOn(p) ==
    /\ p < Size
    /\ B(p) # 0
    /\ B(p) < 64 \/ (IsPointer(p) /\ p + 1 < Size)

\* The name at p ends within the packet after at most n labels and pointers.
EndsIn[n \in Nat] ==
    [p \in Nat |->
       \/ p < Size /\ B(p) = 0
       \/ n > 0 /\ GoesOn(p) /\ EndsIn[n - 1][Follow(p)]]

\* The labels of the name at p, or those that n labels and pointers lead to.
LabelsAt[n \in Nat] ==
    [p \in Nat |->
       IF n = 0 \/ ~GoesOn(p) THEN <<>>
       ELSE IF IsPointer(p) THEN LabelsAt[n - 1][Follow(p)]
       ELSE <<SubSeq(data, p + 2, p + 1 + B(p))>> \o LabelsAt[n - 1][Follow(p)]]

\* A name that scan accepts can be followed to its end: displaying it, which
\* scans the targets of its pointers again and unwraps, does not panic and
\* does not go in circles.
Resolvable == at = "named" => EndsIn[Size][name.start]

-----------------------------------------------------------------------------
\* A packet that was encoded by the book is understood: the parser ends at
\* the address that the first address record among the answers holds, through
\* compressed names, records of other types, and an OPT record; and a packet
\* with a second OPT record, or cut short anywhere, is rejected.
Understood ==
    /\ at = "done" => means \in {<<"any">>, <<"addr", addr>>}
    /\ at = "error" => means \in {<<"any">>, <<"reject">>}

\* A query asks for the host that is looked up, or for nothing at all: what
\* lookup_on sends, parsed again, has no other name in it, also at the longest
\* label and the longest name the buffer takes.
AsksForHost ==
    host # <<>> =>
      /\ at # "error"
      /\ at = "named" => LabelsAt[Size][name.start] = host
      /\ at = "done" /\ Size > HeaderSize => offset = Size

\* add_question panics only if, as its documentation says, the name is
\* invalid: longer than the 255 bytes the protocol allows.
PanicsIfInvalid == at = "panic" => Len(Labels(Len(host))) + 1 > 255

=============================================================================
