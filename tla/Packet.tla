-------------------------------- MODULE Packet --------------------------------
(***************************************************************************)
(* The DNS packets of easyfibers: the query that lookup_on builds          *)
(* (dns_parser/builder.rs) and the parser that the answer goes through     *)
(* (dns_parser/parser.rs, header.rs, rrdata.rs, name.rs), one step per     *)
(* iteration of the code's loops.                                          *)
(*                                                                         *)
(* A packet is a sequence of bytes and keeps its real layout.  Positions   *)
(* count from 0, as in the code; a slice is its bounds, so the position a  *)
(* parser has in a slice is kept as a position in the packet.  What the    *)
(* parsed packet holds is reduced to what dns_parse looks for: the first   *)
(* address among the answers.                                              *)
(***************************************************************************)
EXTENDS Integers, FiniteSetsExt, SequencesExt

CONSTANTS
    Inputs,  \* sets of packets to parse: records [data, means]
    Hosts    \* host names to build queries for, as sequences of labels

Byte == 0 .. 255

ASSUME PacketAssumption ==
    /\ \A S \in Inputs : \A i \in S : i.data \in Seq(Byte)
    /\ \A h \in Hosts : h \in Seq(Seq(1 .. 127)) /\ h # <<>>

VARIABLES
    data,    \* the packet
    means,   \* what it was made to mean; the parser does not look at it
    host,    \* the host it asks for, <<>> if it was not built here
    at,      \* what the parser does next
    offset,  \* bytes of the packet that are dealt with
    left,    \* left[s]: entries of section s still to come
    name,    \* the state of Name::scan
    goal,    \* what the name is part of
    rd,      \* the record data being parsed: its type, its bounds, a cursor
    opt,     \* an OPT record was parsed
    addr     \* the first address among the answers

pvars == <<data, means, host, at, offset, left, name, goal, rd, opt, addr>>

Size == Len(data)
B(i) == data[i + 1]
U16(i) == 256 * B(i) + B(i + 1)

\* No return_pos; no address.
NoPos == -1
NoAddr == <<>>

\* The sections of a packet, in order.
Questions == 1
Answers == 2
Additional == 4
Sections == 1 .. 4

\* The codes that QueryType, Type, QueryClass and Class know.
Types == {1, 2} \cup 4 .. 16 \cup {28, 33, 41}
QueryTypes == (Types \ {41}) \cup 252 .. 255
Classes == 1 .. 4
QueryClasses == Classes \cup {255}

A == 1
SOA == 6
MX == 15
TXT == 16
AAAA == 28
SRV == 33
OPT == 41
NameTypes == {2, 5, 12}  \* NS, CNAME, PTR

PInit ==
    /\ \/ \E S \in Inputs : \E i \in S :
            data = i.data /\ means = i.means /\ host = <<>> /\ at = "header"
       \/ host \in Hosts /\ data = <<>> /\ means = <<"any">> /\ at = "build"
    /\ offset = 0
    /\ left = [s \in Sections |-> 0]
    /\ name = [start |-> 0, end |-> 0, hi |-> 0, pos |-> 0, largest |-> 0,
               ret |-> NoPos]
    /\ goal = "question"
    /\ rd = [typ |-> 0, lo |-> 0, hi |-> 0, pos |-> 0]
    /\ opt = FALSE
    /\ addr = NoAddr

inputVars == <<data, means, host>>

-----------------------------------------------------------------------------
(* The query.  lookup_on has a buffer of 512 bytes.                        *)

\* Mutant: a buffer for the longest name alone.
BufLen_256 == 256

BufLen == 512

HeaderSize == 12

\* Header::write: id, flags (recursion desired), four counts.  The id is
\* random, and nothing reads it again.
QueryHeader(n) == <<0, 0, 1, 0, 0, n>> \o [i \in 1 .. 6 |-> 0]

\* The check of write_name on a label.
Fits(off, part) == Len(part) < 63 /\ Len(part) + off + 1 <= BufLen

\* The bytes of the first n labels of the host.
Labels(n) == FlattenSeq([i \in 1 .. n |-> <<Len(host[i])>> \o host[i]])

NameFits ==
    \A i \in DOMAIN host : Fits(HeaderSize + Len(Labels(i - 1)), host[i])

\* Mutant: the terminating zero is forgotten.
QueryEnd_unterminated == <<0, A, 0, 1>>

\* What add_question writes after the labels: the end of the name, type A,
\* class IN.
QueryEnd == <<0, 0, A, 0, 1>>

\* add_question succeeds: the query goes out, and is parsed here.
BuildQuery ==
    /\ at = "build"
    /\ NameFits
    /\ HeaderSize + Len(Labels(Len(host))) + Len(QueryEnd) <= BufLen
    /\ data' = QueryHeader(1) \o Labels(Len(host)) \o QueryEnd
    /\ at' = "header"
    /\ UNCHANGED <<means, host, offset, left, name, goal, rd, opt, addr>>

\* A label does not fit: add_question gives up, lookup_on does not look, and
\* a header without a question is sent.
BuildRefused ==
    /\ at = "build"
    /\ ~NameFits
    /\ data' = QueryHeader(0)
    /\ at' = "header"
    /\ UNCHANGED <<means, host, offset, left, name, goal, rd, opt, addr>>

\* The labels fit, what comes after them does not: an index out of range.
BuildPanics ==
    /\ at = "build"
    /\ NameFits
    /\ HeaderSize + Len(Labels(Len(host))) + Len(QueryEnd) > BufLen
    /\ at' = "panic"
    /\ UNCHANGED <<inputVars, offset, left, name, goal, rd, opt, addr>>

-----------------------------------------------------------------------------
(* Name::scan.                                                             *)

\* Any error ends the parse.
Fail == at' = "error" /\ UNCHANGED <<offset, left, name, goal, rd, opt, addr>>

\* scan(data[lo..hi], data), for a name that is part of g.
StartScan(g, lo, hi) ==
    /\ at' = IF lo < hi THEN "name" ELSE "error"
    /\ name' = [start |-> lo, end |-> hi, hi |-> hi, pos |-> lo,
                largest |-> Size, ret |-> NoPos]
    /\ goal' = g

NameByte == B(name.pos)

NameEnds ==
    /\ at = "name"
    /\ NameByte = 0
    /\ at' = "named"
    /\ UNCHANGED <<inputVars, offset, left, name, goal, rd, opt, addr>>

\* The position a compression pointer names.
Target == U16(name.pos) % 16384

\* Mutants: a pointer may lead to where the last one led; it may lead to
\* itself.
GoodPointer_same ==
    /\ name.pos + 2 <= name.hi
    /\ Target < Size
    /\ Target <= name.largest

GoodPointer_self ==
    /\ name.pos + 2 <= name.hi
    /\ Target < Size
    /\ Target < name.largest \/ Target = name.pos

\* A pointer is two bytes, leads into the packet and, but for the first one,
\* to before the place that the last one led to.
GoodPointer ==
    /\ name.pos + 2 <= name.hi
    /\ Target < Size
    /\ Target < name.largest

\* The scan goes on at the target, in the rest of the packet.
Jumped ==
    [name EXCEPT !.ret = IF name.ret = NoPos THEN name.pos ELSE @,
                 !.largest = Target, !.pos = Target, !.hi = Size]

\* Mutant: the target of a pointer is not scanned.
ScanPointer_trusting ==
    /\ at = "name"
    /\ NameByte >= 192
    /\ IF GoodPointer
         THEN /\ name' = [name EXCEPT !.ret = name.pos]
              /\ at' = "named"
              /\ UNCHANGED <<offset, left, goal, rd, opt, addr>>
         ELSE Fail
    /\ UNCHANGED inputVars

ScanPointer ==
    /\ at = "name"
    /\ NameByte >= 192
    /\ IF GoodPointer
         THEN name' = Jumped /\ UNCHANGED <<at, offset, left, goal, rd, opt, addr>>
         ELSE Fail
    /\ UNCHANGED inputVars

LabelEnd == name.pos + NameByte + 1

\* Mutant: the byte after the label is not made sure of.
GoodLabel_short ==
    /\ LabelEnd <= name.hi
    /\ \A i \in name.pos + 1 .. LabelEnd - 1 : B(i) < 128

\* A label is ASCII and is not the last thing in the slice.
GoodLabel ==
    /\ LabelEnd < name.hi
    /\ \A i \in name.pos + 1 .. LabelEnd - 1 : B(i) < 128

ScanLabel ==
    /\ at = "name"
    /\ NameByte \in 1 .. 63
    /\ IF GoodLabel
         THEN /\ name' = [name EXCEPT !.pos = LabelEnd]
              /\ UNCHANGED <<at, offset, left, goal, rd, opt, addr>>
         ELSE Fail
    /\ UNCHANGED inputVars

\* The two other values of the upper bits.
ScanUnknown ==
    /\ at = "name"
    /\ NameByte \in 64 .. 191
    /\ Fail
    /\ UNCHANGED inputVars

\* Where the name ends, for the parser: start + byte_len.
NameEnd == IF name.ret # NoPos THEN name.ret + 2 ELSE name.pos + 1

-----------------------------------------------------------------------------
(* Packet::parse.                                                          *)

\* Header::parse: too short, or the reserved bit is set.
BadHeader == Size < HeaderSize \/ (B(3) \div 64) % 2 = 1

ParseHeader ==
    /\ at = "header"
    /\ IF BadHeader
         THEN Fail
         ELSE /\ left' = [s \in Sections |-> U16(2 + 2 * s)]
              /\ offset' = HeaderSize
              /\ at' = "next"
              /\ UNCHANGED <<name, goal, rd, opt, addr>>
    /\ UNCHANGED inputVars

\* The section that the next entry is in.
InSection(s) == left[s] > 0 /\ \A r \in 1 .. s - 1 : left[r] = 0

ParseQuestion ==
    /\ at = "next"
    /\ InSection(Questions)
    /\ StartScan("question", offset, Size)
    /\ UNCHANGED <<inputVars, offset, left, rd, opt, addr>>

\* The next additional record is an OPT record.
OptAhead ==
    /\ InSection(Additional)
    /\ offset + 3 <= Size
    /\ <<B(offset), U16(offset + 1)>> = <<0, OPT>>

ParseRecord ==
    /\ at = "next"
    /\ \E s \in Sections \ {Questions} : InSection(s)
    /\ ~OptAhead
    /\ StartScan("record", offset, Size)
    /\ UNCHANGED <<inputVars, offset, left, rd, opt, addr>>

\* The record data of type typ that starts at lo, if the packet has it all.
HasData(typ, lo, rdlen) ==
    IF lo + rdlen > Size
      THEN Fail
      ELSE /\ rd' = [typ |-> typ, lo |-> lo, hi |-> lo + rdlen, pos |-> lo]
           /\ at' = "rdata"
           /\ UNCHANGED <<offset, left, name, goal, opt, addr>>

\* parse_opt_record; a second OPT record is an error.
ParseOpt ==
    /\ at = "next"
    /\ OptAhead
    /\ IF opt \/ offset + 11 > Size
         THEN Fail
         ELSE HasData(OPT, offset + 11, U16(offset + 9))
    /\ UNCHANGED inputVars

ParseDone ==
    /\ at = "next"
    /\ \A s \in Sections : left[s] = 0
    /\ at' = "done"
    /\ UNCHANGED <<inputVars, offset, left, name, goal, rd, opt, addr>>

\* The upper bit of a class is prefer_unicast or multicast_unique.
KnownClass(code, known) == code % 32768 \in known

QuestionNamed ==
    /\ at = "named"
    /\ goal = "question"
    /\ IF /\ NameEnd + 4 <= Size
          /\ U16(NameEnd) \in QueryTypes
          /\ KnownClass(U16(NameEnd + 2), QueryClasses)
         THEN /\ offset' = NameEnd + 4
              /\ left' = [left EXCEPT ![Questions] = @ - 1]
              /\ at' = "next"
              /\ UNCHANGED <<name, goal, rd, opt, addr>>
         ELSE Fail
    /\ UNCHANGED inputVars

\* The fixed part of a record: type, class, time to live, length.
RecordNamed ==
    /\ at = "named"
    /\ goal = "record"
    /\ IF /\ NameEnd + 10 <= Size
          /\ U16(NameEnd) \in Types
          /\ KnownClass(U16(NameEnd + 2), Classes)
         THEN HasData(U16(NameEnd), NameEnd + 10, U16(NameEnd + 8))
         ELSE Fail
    /\ UNCHANGED inputVars

-----------------------------------------------------------------------------
(* RRData::parse.                                                          *)

RdLen == rd.hi - rd.lo

\* Mutant: the last one.
FirstAddr_last(s) ==
    IF s = Answers /\ rd.typ \in {A, AAAA} THEN SubSeq(data, rd.lo + 1, rd.hi) ELSE addr

\* The address dns_parse returns is that of the first record that has one.
FirstAddr(s) ==
    IF s = Answers /\ addr = NoAddr /\ rd.typ \in {A, AAAA}
      THEN SubSeq(data, rd.lo + 1, rd.hi)
      ELSE addr

\* Mutant: one byte too far.
RecordEnd_next == rd.hi + 1

\* Where the next record starts.
RecordEnd == rd.hi

\* The record is parsed.
EndRecord ==
    \E s \in Sections :
      /\ InSection(s)
      /\ left' = [left EXCEPT ![s] = @ - 1]
      /\ offset' = RecordEnd
      /\ addr' = FirstAddr(s)
      /\ opt' = (opt \/ OptAhead)
      /\ at' = "next"
      /\ UNCHANGED <<name, goal, rd>>

\* Addresses, and what is not parsed any further.
PlainData ==
    /\ at = "rdata"
    /\ rd.typ \notin NameTypes \cup {SOA, MX, TXT, SRV}
    /\ IF \/ rd.typ = A /\ RdLen # 4
          \/ rd.typ = AAAA /\ RdLen # 16
         THEN Fail
         ELSE EndRecord
    /\ UNCHANGED inputVars

\* Bytes in front of the name, for a type whose data is or ends in a name.
Lead == CASE rd.typ = MX -> 2 [] rd.typ = SRV -> 6 [] OTHER -> 0

\* The name has at least one byte, where the code makes sure of that.
LeadFits == Lead = 0 \/ RdLen > Lead

NamedData ==
    /\ at = "rdata"
    /\ rd.typ \in NameTypes \cup {SOA, MX, SRV}
    /\ IF LeadFits
         THEN /\ StartScan(IF rd.typ = SOA THEN "primary" ELSE "target",
                           rd.lo + Lead, rd.hi)
              /\ UNCHANGED <<offset, left, rd, opt, addr>>
         ELSE Fail
    /\ UNCHANGED inputVars

TargetNamed ==
    /\ at = "named"
    /\ goal = "target"
    /\ EndRecord
    /\ UNCHANGED inputVars

PrimaryNamed ==
    /\ at = "named"
    /\ goal = "primary"
    /\ StartScan("mailbox", NameEnd, rd.hi)
    /\ UNCHANGED <<inputVars, offset, left, rd, opt, addr>>

\* Five numbers follow the two names of a SOA record.
MailboxNamed ==
    /\ at = "named"
    /\ goal = "mailbox"
    /\ IF rd.hi - NameEnd < 20 THEN Fail ELSE EndRecord
    /\ UNCHANGED inputVars

\* TXT: at least one string.
TextData ==
    /\ at = "rdata"
    /\ rd.typ = TXT
    /\ at' = IF RdLen < 1 THEN "error" ELSE "txt"
    /\ UNCHANGED <<inputVars, offset, left, name, goal, rd, opt, addr>>

TextEnd == rd.pos + 1 + B(rd.pos)

IsAscii == \A i \in rd.pos + 1 .. TextEnd - 1 : B(i) < 128

\* One string of a TXT record.  ASCII is UTF-8; what else is, is left open.
TextString ==
    /\ at = "txt"
    /\ rd.pos < rd.hi
    /\ TextEnd <= rd.hi
    /\ rd' = [rd EXCEPT !.pos = TextEnd]
    /\ UNCHANGED <<inputVars, at, offset, left, name, goal, opt, addr>>

TextFails ==
    /\ at = "txt"
    /\ rd.pos < rd.hi
    /\ TextEnd <= rd.hi => ~IsAscii
    /\ Fail
    /\ UNCHANGED inputVars

TextEnds ==
    /\ at = "txt"
    /\ rd.pos >= rd.hi
    /\ EndRecord
    /\ UNCHANGED inputVars

-----------------------------------------------------------------------------
Build == BuildQuery \/ BuildRefused \/ BuildPanics

Scan == NameEnds \/ ScanPointer \/ ScanLabel \/ ScanUnknown

Parse ==
    \/ ParseHeader \/ ParseQuestion \/ ParseRecord \/ ParseOpt \/ ParseDone
    \/ QuestionNamed \/ RecordNamed

ParseData ==
    \/ PlainData \/ NamedData \/ TargetNamed \/ PrimaryNamed \/ MailboxNamed
    \/ TextData \/ TextString \/ TextFails \/ TextEnds

PNext == Build \/ Scan \/ Parse \/ ParseData

PSpec == PInit /\ [][PNext]_pvars /\ WF_pvars(PNext)

=============================================================================
