----------------------------- MODULE PacketProofs -----------------------------
(***************************************************************************)
(* The parser stays inside the packet, whatever bytes arrive, a scan of a  *)
(* name advances, and a name that it accepts can be followed to its end:   *)
(* PTypeOK, InBounds, ScanAdvances and Resolvable, for packets of any      *)
(* length and any contents.  A query asks for its host, AsksForHost, and   *)
(* the builder panics for no valid one, for hosts of any length.           *)
(***************************************************************************)
EXTENDS PacketProps, Induction

Scanning == at \in {"name", "named"}

\* Until the first pointer a scan is in the slice that it was given; from then
\* on it is in the packet, and the pointer that it returns to is in the slice.
ScanInv ==
    Scanning =>
      /\ name.start <= name.end /\ name.pos < name.hi
      /\ name.ret = NoPos => name.start <= name.pos /\ name.hi = name.end
      /\ name.ret # NoPos => name.start <= name.ret /\ name.ret + 2 <= name.end

\* Record data has its bounds in order, and a name in it ends where it ends.
DataInv ==
    /\ rd.lo <= rd.pos /\ rd.pos <= rd.hi
    /\ Scanning /\ goal \in {"target", "primary", "mailbox"} => name.end = rd.hi

\* A question is only looked for if one is left.
LeftInv == Scanning /\ goal = "question" => left[Questions] > 0

BuildInv == at = "build" => data = <<>> /\ host \in Hosts

\* The inductive invariant.
PInv == PTypeOK /\ ScanInv /\ DataInv /\ LeftInv /\ BuildInv

-----------------------------------------------------------------------------
\* A byte, or two, that are in the packet.
LEMMA ByteType ==
  ASSUME PTypeOK, NEW k \in Nat, k < Size
  PROVE  B(k) \in Byte
<1>1. data \in Seq(Byte)
  BY Zenon DEF PTypeOK
<1>2. k + 1 \in 1 .. Len(data)
  BY <1>1 DEF Size
<1> QED BY <1>1, <1>2, ElementOfSeq DEF B

LEMMA WordType ==
  ASSUME PTypeOK, NEW k \in Nat, k + 1 < Size
  PROVE  U16(k) \in TwoBytes
<1>1. Size \in Nat
  <2>1. data \in Seq(Byte)
    BY Zenon DEF PTypeOK
  <2> QED BY <2>1 DEF Size
<1>2. B(k) \in Byte /\ B(k + 1) \in Byte
  BY <1>1, ByteType
<1>3. \A a, b \in Byte : 256 * a + b \in TwoBytes
  <2> TAKE a, b \in Byte
  <2>1. a \in Int /\ b \in Int /\ 0 <= a /\ a <= 255 /\ 0 <= b /\ b <= 255
    BY DEF Byte
  <2>2. 256 * a + b \in Int /\ 0 <= 256 * a + b /\ 256 * a + b <= MaxTwoBytes
    BY <2>1, SMT DEF MaxTwoBytes
  <2> QED BY <2>2, SMT DEF TwoBytes
<1> QED BY <1>2, <1>3, Zenon DEF U16

LEMMA WordsAreNat == TwoBytes \subseteq Nat
<1>1. MaxTwoBytes \in Nat
  BY DEF MaxTwoBytes
<1> QED BY <1>1 DEF TwoBytes

\* What the invariant says of the numbers in it.
LEMMA Numbers ==
  ASSUME PTypeOK
  PROVE  /\ Size \in Nat /\ offset \in Nat /\ offset <= Size
         /\ name.start \in Nat /\ name.start <= Size
         /\ name.end \in Nat /\ name.end <= Size
         /\ name.hi \in Nat /\ name.hi <= Size
         /\ name.pos \in Nat /\ name.pos <= Size
         /\ name.largest \in Nat /\ name.largest <= Size
         /\ name.ret \in Int /\ (name.ret # NoPos => name.ret \in Nat /\ name.ret <= Size)
         /\ rd.typ \in Nat
         /\ rd.lo \in Nat /\ rd.lo <= Size
         /\ rd.hi \in Nat /\ rd.hi <= Size
         /\ rd.pos \in Nat /\ rd.pos <= Size
<1>1. data \in Seq(Byte) /\ offset \in 0 .. Size
  BY Zenon DEF PTypeOK
<1>2. Size \in Nat
  BY <1>1 DEF Size
<1>3. /\ name \in [start : 0 .. Size, end : 0 .. Size, hi : 0 .. Size, pos : 0 .. Size,
                   largest : 0 .. Size, ret : {NoPos} \cup 0 .. Size]
      /\ rd \in [typ : Nat, lo : 0 .. Size, hi : 0 .. Size, pos : 0 .. Size]
  BY Zenon DEF PTypeOK
<1> HIDE DEF Size
<1> QED BY <1>1, <1>2, <1>3 DEF NoPos

\* Where a name ends is after its start, and in the slice.
LEMMA NameEndType ==
  ASSUME PTypeOK, ScanInv, Scanning
  PROVE  /\ NameEnd \in Nat /\ name.start < NameEnd
         /\ NameEnd <= name.end /\ NameEnd <= Size
  BY Numbers DEF ScanInv, NameEnd, NoPos

\* The invariant has what InBounds asks for.
LEMMA PInvInBounds == PInv => InBounds
  BY Numbers, NameEndType DEF PInv, InBounds, ScanInv, DataInv, Scanning

-----------------------------------------------------------------------------
(* Steps that several actions share.                                       *)

\* What a step has to show of the types.
LEMMA PTypeStep ==
  ASSUME PTypeOK, data' = data, at' \in Places, goal' \in Goals,
         offset' \in 0 .. Size, left' \in [Sections -> TwoBytes],
         name' \in [start : 0 .. Size, end : 0 .. Size, hi : 0 .. Size, pos : 0 .. Size,
                    largest : 0 .. Size, ret : {NoPos} \cup 0 .. Size],
         rd' \in [typ : Nat, lo : 0 .. Size, hi : 0 .. Size, pos : 0 .. Size],
         opt' \in BOOLEAN
  PROVE  PTypeOK'
<1>1. Size' = Size
  BY Zenon DEF Size
<1>2. data' \in Seq(Byte)
  BY Zenon DEF PTypeOK
<1> QED BY <1>1, <1>2, Zenon DEF PTypeOK

\* An error, or the end.
LEMMA Stops ==
  ASSUME PInv, at' \in {"error", "panic", "done", "header"}, at # "build",
         UNCHANGED <<inputVars, offset, left, goal, rd, opt, addr>>,
         UNCHANGED name
  PROVE  PInv'
<1>1. ~Scanning' /\ at' # "build" /\ at' \in Places
  BY DEF Scanning, Places
<1>2. PTypeOK'
  BY <1>1, PTypeStep, Zenon DEF PInv, PTypeOK, inputVars
<1>3. ScanInv' /\ DataInv' /\ LeftInv' /\ BuildInv'
  BY <1>1 DEF PInv, ScanInv, DataInv, LeftInv, BuildInv
<1> QED BY <1>2, <1>3 DEF PInv

\* scan is called for a slice of the packet.
LEMMA StartScanStep ==
  ASSUME PInv, NEW g \in Goals, NEW lo \in Nat, NEW hi \in Nat, lo <= Size, hi <= Size,
         StartScan(g, lo, hi), UNCHANGED <<inputVars, offset, left, rd, opt, addr>>,
         g = "question" => left[Questions] > 0,
         g \in {"target", "primary", "mailbox"} => hi = rd.hi
  PROVE  PInv'
<1>0. Size \in Nat /\ Size' = Size
  BY Numbers DEF PInv, inputVars, Size
<1>1. /\ at' = IF lo < hi THEN "name" ELSE "error"
      /\ goal' = g
      /\ name' = [start |-> lo, end |-> hi, hi |-> hi, pos |-> lo,
                  largest |-> Size, ret |-> NoPos]
  BY DEF StartScan
<1>2. name' \in [start : 0 .. Size, end : 0 .. Size, hi : 0 .. Size, pos : 0 .. Size,
                 largest : 0 .. Size, ret : {NoPos} \cup 0 .. Size]
  BY <1>0, <1>1
<1>3. PTypeOK'
  <2>1. at' \in Places
    BY <1>1 DEF Places
  <2> QED BY <1>1, <1>2, <2>1, PTypeStep, Zenon DEF PInv, PTypeOK, inputVars
<1>4. ScanInv'
  BY <1>0, <1>1 DEF ScanInv, Scanning
<1>5. DataInv' /\ LeftInv' /\ BuildInv'
  BY <1>1 DEF PInv, DataInv, LeftInv, BuildInv, Scanning, inputVars
<1> QED BY <1>3, <1>4, <1>5 DEF PInv

LEMMA FailStep ==
  ASSUME PInv, at # "build", Fail, UNCHANGED inputVars
  PROVE  PInv'
  BY Stops DEF Fail

\* The data of a record is found, or is not there.
LEMMA HasDataStep ==
  ASSUME PInv, at # "build", UNCHANGED inputVars,
         NEW typ \in Nat, NEW lo \in Nat, NEW rdlen \in Nat, HasData(typ, lo, rdlen)
  PROVE  PInv'
<1>1. CASE lo + rdlen > Size
  BY <1>1, FailStep DEF HasData
<1>2. CASE ~(lo + rdlen > Size)
  <2>1. /\ rd' = [typ |-> typ, lo |-> lo, hi |-> lo + rdlen, pos |-> lo]
        /\ at' = "rdata"
        /\ UNCHANGED <<offset, left, name, goal, opt, addr>>
    BY <1>2 DEF HasData
  <2>2. Size \in Nat
    BY Numbers DEF PInv
  <2>3. rd' \in [typ : Nat, lo : 0 .. Size, hi : 0 .. Size, pos : 0 .. Size]
    BY <1>2, <2>1, <2>2
  <2>4. at' \in Places
    BY <2>1 DEF Places
  <2>5. PTypeOK'
    BY <2>1, <2>3, <2>4, PTypeStep, Zenon DEF PInv, PTypeOK, inputVars
  <2>6. ScanInv' /\ DataInv' /\ LeftInv' /\ BuildInv'
    BY <2>1, <2>2, <1>2 DEF ScanInv, DataInv, LeftInv, BuildInv, Scanning
  <2> QED BY <2>5, <2>6 DEF PInv
<1> QED BY <1>1, <1>2

\* An entry less is to come.
LEMMA OneLess ==
  ASSUME PInv, NEW s \in Sections, left[s] > 0, left' = [left EXCEPT ![s] = @ - 1]
  PROVE  left' \in [Sections -> TwoBytes]
<1>1. left \in [Sections -> TwoBytes]
  BY Zenon DEF PInv, PTypeOK
<1>2. MaxTwoBytes \in Nat
  BY DEF MaxTwoBytes
<1>3. left[s] - 1 \in TwoBytes
  BY <1>1, <1>2 DEF TwoBytes
<1> QED BY <1>1, <1>3

LEMMA EndRecordStep ==
  ASSUME PInv, at # "build", EndRecord, UNCHANGED inputVars
  PROVE  PInv'
<1> PICK s \in Sections :
      /\ InSection(s)
      /\ left' = [left EXCEPT ![s] = @ - 1]
      /\ offset' = RecordEnd
      /\ addr' = FirstAddr(s)
      /\ opt' = (opt \/ OptAhead)
      /\ at' = "next"
      /\ UNCHANGED <<name, goal, rd>>
  BY DEF EndRecord
<1>1. left' \in [Sections -> TwoBytes]
  BY OneLess DEF InSection
<1>2. offset' \in 0 .. Size
  BY Numbers DEF PInv, RecordEnd
<1>3. opt' \in BOOLEAN
  BY Zenon
<1>4. at' \in Places
  BY DEF Places
<1>5. PTypeOK'
  BY <1>1, <1>2, <1>3, <1>4, PTypeStep, Zenon DEF PInv, PTypeOK, inputVars
<1>6. ScanInv' /\ DataInv' /\ LeftInv' /\ BuildInv'
  BY DEF PInv, ScanInv, DataInv, LeftInv, BuildInv, Scanning
<1> QED BY <1>5, <1>6 DEF PInv

-----------------------------------------------------------------------------
(* The builder.                                                            *)

\* The host is one that the builder writes out.
Writable == host \in Seq(Seq(1 .. 127)) /\ NameFits

\* A label and its length.
Written(i) == <<Len(host[i])>> \o host[i]

\* What is written for a label is bytes: the length of one that fits is.
LEMMA WrittenType ==
  ASSUME Writable, NEW i \in 1 .. Len(host)
  PROVE  /\ host[i] \in Seq(1 .. 127) /\ Len(host[i]) \in Nat /\ Len(host[i]) < 63
         /\ Written(i) \in Seq(Byte) /\ Len(Written(i)) = Len(host[i]) + 1
         /\ Written(i)[1] = Len(host[i])
         /\ \A x \in 1 .. Len(host[i]) : Written(i)[x + 1] = host[i][x]
<1>1. host[i] \in Seq(1 .. 127) /\ i \in DOMAIN host
  BY ElementOfSeq DEF Writable
<1>2. Len(host[i]) \in Nat /\ Len(host[i]) < 63
  BY <1>1 DEF Writable, NameFits, Fits
<1>3. host[i] \in Seq(Byte)
  BY <1>1 DEF Byte
<1>4. <<Len(host[i])>> \in Seq(Byte)
  <2>1. \A n \in Nat : n < 63 => n \in Byte
    BY DEF Byte
  <2>2. Len(host[i]) \in Byte
    BY <1>2, <2>1
  <2> QED BY <2>2
<1>5. Written(i) \in Seq(Byte)
  BY <1>3, <1>4, ConcatProperties DEF Written
<1>6. \A n, p : p \in Seq(Byte) => /\ Len(<<n>> \o p) = Len(p) + 1
                                   /\ (<<n>> \o p)[1] = n
                                   /\ \A x \in 1 .. Len(p) : (<<n>> \o p)[x + 1] = p[x]
  OBVIOUS
<1> QED BY <1>1, <1>2, <1>3, <1>5, <1>6 DEF Written

\* The labels, one after the other.
LEMMA LabelsNext ==
  ASSUME Writable
  PROVE  /\ Labels(0) = <<>>
         /\ \A n \in 0 .. Len(host) : Labels(n) \in Seq(Byte)
         /\ \A n \in 0 .. Len(host) - 1 : Labels(n + 1) = Labels(n) \o Written(n + 1)
<1> DEFINE F(n) == [i \in 1 .. n |-> Written(i)]
<1>0. Len(host) \in Nat
  BY DEF Writable
<1>1. \A n : Labels(n) = FlattenSeq(F(n))
  BY Zenon DEF Labels, Written
<1>2. \A n \in 0 .. Len(host) :
         F(n) \in Seq(Seq(Byte)) /\ Len(F(n)) = n /\ \A i \in 1 .. n : F(n)[i] = Written(i)
  <2> TAKE n \in 0 .. Len(host)
  <2>1. \A i \in 1 .. n : Written(i) \in Seq(Byte)
    BY <1>0, WrittenType
  <2> HIDE DEF Written
  <2> QED BY <1>0, <2>1
<1> HIDE DEF F
<1>3. \A n \in 0 .. Len(host) : Labels(n) \in Seq(Byte)
  BY <1>1, <1>2, FlattenIsSeq, Zenon
<1>4. Labels(0) = <<>>
  <2>1. F(0) \in Seq(Seq(Byte)) /\ \A k \in 1 .. Len(F(0)) : F(0)[k] = <<>>
    BY <1>0, <1>2
  <2>2. FlattenSeq(F(0)) = <<>>
    BY <2>1, FlattenEmpty, Zenon
  <2> QED BY <1>1, <2>2
<1>5. ASSUME NEW n \in 0 .. Len(host) - 1
      PROVE  Labels(n + 1) = Labels(n) \o Written(n + 1)
  <2>1. n \in Nat /\ n \in 0 .. Len(host) /\ n + 1 \in 0 .. Len(host) /\ n + 1 \in 1 .. n + 1
    BY <1>0
  <2>2. PICK s, t \in Seq(Seq(Byte)) : s = F(n) /\ t = F(n + 1)
    BY <1>2, <2>1
  <2>3. Len(s) = n /\ Len(t) = n + 1 /\ t[n + 1] = Written(n + 1)
    BY <1>2, <2>1, <2>2
  <2>4. \A i \in 1 .. n : t[i] = s[i]
    <3> TAKE i \in 1 .. n
    <3>1. i \in 1 .. n + 1
      BY <2>1
    <3> QED BY <1>2, <2>1, <2>2, <3>1
  <2>5. FlattenSeq(t) = FlattenSeq(s) \o t[n + 1]
    BY <2>1, <2>3, <2>4, FlattenAppend
  <2> QED BY <1>1, <2>2, <2>3, <2>5, Zenon
<1> QED BY <1>3, <1>4, <1>5

\* The labels of a name that fits are bytes.
LEMMA LabelBytes ==
  ASSUME PInv, at = "build", NameFits
  PROVE  Labels(Len(host)) \in Seq(Byte)
<1>1. Writable
  BY PacketAssumption, Zenon DEF PInv, BuildInv, Writable
<1>2. Len(host) \in 0 .. Len(host)
  BY <1>1 DEF Writable
<1> QED BY <1>1, <1>2, LabelsNext

\* The packet is there; nothing in it has been looked at.
LEMMA BuiltStep ==
  ASSUME PInv, at = "build", data' \in Seq(Byte), at' = "header",
         UNCHANGED <<means, host, offset, left, name, goal, rd, opt, addr>>
  PROVE  PInv'
<1>1. Size = 0 /\ Size' \in Nat
  BY DEF PInv, BuildInv, Size
<1>2. /\ offset \in 0 .. 0
      /\ name \in [start : 0 .. 0, end : 0 .. 0, hi : 0 .. 0, pos : 0 .. 0,
                   largest : 0 .. 0, ret : {NoPos} \cup 0 .. 0]
      /\ rd \in [typ : Nat, lo : 0 .. 0, hi : 0 .. 0, pos : 0 .. 0]
  BY <1>1, Zenon DEF PInv, PTypeOK
<1>3. 0 .. 0 \subseteq 0 .. Size'
  BY <1>1
<1> HIDE DEF Size
<1>4. offset' \in 0 .. Size'
  BY <1>2, <1>3, Zenon
<1>5. name' \in [start : 0 .. Size', end : 0 .. Size', hi : 0 .. Size', pos : 0 .. Size',
                 largest : 0 .. Size', ret : {NoPos} \cup 0 .. Size']
  BY <1>2, <1>1
<1>6. rd' \in [typ : Nat, lo : 0 .. Size', hi : 0 .. Size', pos : 0 .. Size']
  BY <1>2, <1>1
<1>7. at' \in Places
  BY DEF Places
<1>8. PTypeOK'
  BY <1>4, <1>5, <1>6, <1>7, Zenon DEF PInv, PTypeOK
<1>9. ScanInv' /\ DataInv' /\ LeftInv' /\ BuildInv'
  BY DEF PInv, ScanInv, DataInv, LeftInv, BuildInv, Scanning
<1> QED BY <1>8, <1>9 DEF PInv

\* A header is twelve bytes.
LEMMA HeaderBytes ==
  ASSUME NEW n \in Byte
  PROVE  QueryHeader(n) \in Seq(Byte)
<1>1. <<0, 0, 1, 0, 0, n>> \in Seq(Byte)
  BY DEF Byte
<1>2. [i \in 1 .. 6 |-> 0] \in Seq(Byte)
  BY DEF Byte
<1> QED BY <1>1, <1>2, ConcatProperties DEF QueryHeader

LEMMA BuildStep ==
  ASSUME PInv, Build
  PROVE  PInv'
<1>1. CASE BuildQuery
  <2>1. QueryHeader(1) \in Seq(Byte)
    BY HeaderBytes DEF Byte
  <2>2. Labels(Len(host)) \in Seq(Byte)
    BY <1>1, LabelBytes DEF BuildQuery
  <2>3. QueryEnd \in Seq(Byte)
    BY DEF QueryEnd, Byte, A
  <2>4. data' \in Seq(Byte)
    BY <1>1, <2>1, <2>2, <2>3, ConcatProperties DEF BuildQuery
  <2> QED BY <1>1, <2>4, BuiltStep DEF BuildQuery
<1>2. CASE BuildRefused
  <2>1. data' \in Seq(Byte)
    BY <1>2, HeaderBytes DEF BuildRefused, Byte
  <2> QED BY <1>2, <2>1, BuiltStep DEF BuildRefused
<1>3. CASE BuildPanics
  <2>1. ~Scanning' /\ at' # "build" /\ at' \in Places
    BY <1>3 DEF BuildPanics, Scanning, Places
  <2>2. PTypeOK'
    BY <1>3, <2>1, PTypeStep, Zenon DEF BuildPanics, PInv, PTypeOK, inputVars
  <2>3. ScanInv' /\ DataInv' /\ LeftInv' /\ BuildInv'
    BY <1>3, <2>1 DEF BuildPanics, PInv, ScanInv, DataInv, LeftInv, BuildInv
  <2> QED BY <2>2, <2>3 DEF PInv
<1> QED BY <1>1, <1>2, <1>3 DEF Build

-----------------------------------------------------------------------------
(* The scan of a name.                                                     *)

\* The byte that is looked at is in the packet.
LEMMA NameByteType ==
  ASSUME PInv, at = "name"
  PROVE  NameByte \in Byte
<1>1. name.pos \in Nat /\ name.pos < Size
  BY Numbers DEF PInv, ScanInv, Scanning
<1> QED BY <1>1, ByteType DEF PInv, NameByte

\* A pointer leads into the packet, to before the last one, and the scan can
\* return to after it.
LEMMA JumpStep ==
  ASSUME PInv, at = "name", GoodPointer, name' = Jumped,
         UNCHANGED <<inputVars, at, offset, left, goal, rd, opt, addr>>
  PROVE  PInv' /\ name'.largest < name.largest
<1>1. Target \in Nat
  <2>1. name.pos \in Nat /\ name.pos + 1 < Size
    BY Numbers DEF PInv, GoodPointer
  <2>2. U16(name.pos) \in TwoBytes
    BY <2>1, WordType DEF PInv
  <2>3. U16(name.pos) \in Nat
    BY <2>2, WordsAreNat
  <2> QED BY <2>3 DEF Target
<1>2. name \in [start : 0 .. Size, end : 0 .. Size, hi : 0 .. Size, pos : 0 .. Size,
                largest : 0 .. Size, ret : {NoPos} \cup 0 .. Size]
  BY Zenon DEF PInv, PTypeOK
<1>3. Size \in Nat
  BY Numbers DEF PInv
<1> DEFINE r == IF name.ret = NoPos THEN name.pos ELSE name.ret
<1>4. name' = [start |-> name.start, end |-> name.end, hi |-> Size, pos |-> Target,
               largest |-> Target, ret |-> r]
  BY <1>2 DEF Jumped
<1>5. Target < Size /\ Target < name.largest /\ name.pos + 2 <= name.hi
  BY DEF GoodPointer
<1>6. r \in 0 .. Size /\ name.start <= r /\ r + 2 <= name.end
  BY <1>2, <1>3, <1>5, Numbers DEF PInv, ScanInv, Scanning, NoPos
<1> HIDE DEF r
<1>7. name' \in [start : 0 .. Size, end : 0 .. Size, hi : 0 .. Size, pos : 0 .. Size,
                 largest : 0 .. Size, ret : {NoPos} \cup 0 .. Size]
  BY <1>1, <1>2, <1>3, <1>4, <1>5, <1>6
<1>8. PTypeOK'
  BY <1>7, PTypeStep, Zenon DEF PInv, PTypeOK, inputVars
<1>9. ScanInv'
  BY <1>1, <1>3, <1>4, <1>5, <1>6 DEF PInv, ScanInv, Scanning, NoPos
<1>10. DataInv' /\ LeftInv' /\ BuildInv'
  BY <1>4 DEF PInv, DataInv, LeftInv, BuildInv, Scanning, inputVars
<1> QED BY <1>4, <1>5, <1>8, <1>9, <1>10 DEF PInv

\* A label leaves a byte of the slice to look at.
LEMMA LabelStep ==
  ASSUME PInv, at = "name", NameByte \in 1 .. 63, GoodLabel,
         name' = [name EXCEPT !.pos = LabelEnd],
         UNCHANGED <<inputVars, at, offset, left, goal, rd, opt, addr>>
  PROVE  PInv' /\ name'.largest = name.largest /\ name'.pos > name.pos
<1>1. name \in [start : 0 .. Size, end : 0 .. Size, hi : 0 .. Size, pos : 0 .. Size,
                largest : 0 .. Size, ret : {NoPos} \cup 0 .. Size]
  BY Zenon DEF PInv, PTypeOK
<1>2. Size \in Nat
  BY Numbers DEF PInv
<1>3. name' = [start |-> name.start, end |-> name.end, hi |-> name.hi, pos |-> LabelEnd,
               largest |-> name.largest, ret |-> name.ret]
  BY <1>1
<1>4. LabelEnd \in Nat /\ name.pos < LabelEnd /\ LabelEnd < name.hi
  <2> HIDE DEF NameByte
  <2> QED BY <1>1, <1>2 DEF LabelEnd, GoodLabel
<1>5. name' \in [start : 0 .. Size, end : 0 .. Size, hi : 0 .. Size, pos : 0 .. Size,
                 largest : 0 .. Size, ret : {NoPos} \cup 0 .. Size]
  BY <1>1, <1>2, <1>3, <1>4
<1>6. PTypeOK'
  BY <1>5, PTypeStep, Zenon DEF PInv, PTypeOK, inputVars
<1>7. ScanInv'
  BY <1>1, <1>2, <1>3, <1>4 DEF PInv, ScanInv, Scanning, NoPos
<1>8. DataInv' /\ LeftInv' /\ BuildInv'
  BY <1>3 DEF PInv, DataInv, LeftInv, BuildInv, Scanning, inputVars
<1> QED BY <1>3, <1>4, <1>6, <1>7, <1>8 DEF PInv

LEMMA ScanStep ==
  ASSUME PInv, Scan
  PROVE  PInv'
<1>1. CASE NameEnds
  <2>1. Scanning /\ Scanning' /\ at' # "build" /\ at' \in Places
    BY <1>1 DEF NameEnds, Scanning, Places
  <2>2. PTypeOK'
    BY <1>1, <2>1, PTypeStep, Zenon DEF NameEnds, PInv, PTypeOK, inputVars
  <2>3. ScanInv' /\ DataInv' /\ LeftInv' /\ BuildInv'
    BY <1>1, <2>1 DEF NameEnds, PInv, ScanInv, DataInv, LeftInv, BuildInv
  <2> QED BY <2>2, <2>3 DEF PInv
<1>2. CASE ScanPointer
  BY <1>2, JumpStep, FailStep DEF ScanPointer
<1>3. CASE ScanLabel
  BY <1>3, LabelStep, FailStep DEF ScanLabel
<1>4. CASE ScanUnknown
  BY <1>4, FailStep DEF ScanUnknown
<1> QED BY <1>1, <1>2, <1>3, <1>4 DEF Scan

-----------------------------------------------------------------------------
(* The parser.                                                             *)

\* Two bytes in the packet are a number.
LEMMA WordIsNat ==
  ASSUME PInv, NEW k \in Nat, k + 2 <= Size
  PROVE  U16(k) \in Nat
<1>1. k + 1 < Size
  BY Numbers DEF PInv
<1>2. U16(k) \in TwoBytes
  BY <1>1, WordType DEF PInv
<1> QED BY <1>2, WordsAreNat

LEMMA HeaderStep ==
  ASSUME PInv, ParseHeader
  PROVE  PInv'
<1>1. CASE BadHeader
  BY <1>1, FailStep DEF ParseHeader
<1>2. CASE ~BadHeader
  <2>1. /\ left' = [s \in Sections |-> U16(2 + 2 * s)]
        /\ offset' = HeaderSize
        /\ at' = "next"
        /\ UNCHANGED <<name, goal, rd, opt, addr>> /\ UNCHANGED inputVars
    BY <1>2 DEF ParseHeader
  <2>2. Size \in Nat /\ Size >= 12
    BY <1>2, Numbers DEF BadHeader, PInv, HeaderSize
  <2>3. \A s \in Sections : U16(2 + 2 * s) \in TwoBytes
    <3> TAKE s \in Sections
    <3>1. 2 + 2 * s \in Nat /\ (2 + 2 * s) + 1 < Size
      BY <2>2 DEF Sections
    <3> QED BY <3>1, WordType DEF PInv
  <2>4. left' \in [Sections -> TwoBytes]
    BY <2>1, <2>3
  <2>5. offset' \in 0 .. Size
    BY <2>1, <2>2 DEF HeaderSize
  <2>6. at' \in Places
    BY <2>1 DEF Places
  <2>7. PTypeOK'
    BY <2>1, <2>4, <2>5, <2>6, PTypeStep, Zenon DEF PInv, PTypeOK, inputVars
  <2>8. ScanInv' /\ DataInv' /\ LeftInv' /\ BuildInv'
    BY <2>1 DEF PInv, ScanInv, DataInv, LeftInv, BuildInv, Scanning
  <2> QED BY <2>7, <2>8 DEF PInv
<1> QED BY <1>1, <1>2

LEMMA QuestionStep ==
  ASSUME PInv, QuestionNamed
  PROVE  PInv'
<1>1. CASE Fail
  BY <1>1, FailStep DEF QuestionNamed
<1>2. CASE ~Fail
  <2>1. /\ NameEnd + 4 <= Size
        /\ offset' = NameEnd + 4
        /\ left' = [left EXCEPT ![Questions] = @ - 1]
        /\ at' = "next"
        /\ UNCHANGED <<name, goal, rd, opt, addr>> /\ UNCHANGED inputVars
    BY <1>2 DEF QuestionNamed
  <2>2. Scanning /\ goal = "question"
    BY DEF QuestionNamed, Scanning
  <2>3. offset' \in 0 .. Size
    <3>1. NameEnd \in Nat /\ Size \in Nat
      BY <2>2, NameEndType, Numbers DEF PInv
    <3> QED BY <2>1, <3>1
  <2>4. left' \in [Sections -> TwoBytes]
    BY <2>1, <2>2, OneLess DEF PInv, LeftInv, Sections, Questions
  <2>5. at' \in Places
    BY <2>1 DEF Places
  <2>6. PTypeOK'
    BY <2>1, <2>3, <2>4, <2>5, PTypeStep, Zenon DEF PInv, PTypeOK, inputVars
  <2>7. ScanInv' /\ DataInv' /\ LeftInv' /\ BuildInv'
    BY <2>1 DEF PInv, ScanInv, DataInv, LeftInv, BuildInv, Scanning
  <2> QED BY <2>6, <2>7 DEF PInv
<1> QED BY <1>1, <1>2

\* The start of a question or of a record, and the fixed part of a record.
LEMMA ParseStep ==
  ASSUME PInv, Parse
  PROVE  PInv'
<1>0. Size \in Nat /\ offset \in Nat /\ offset <= Size
  BY Numbers DEF PInv
<1>1. CASE ParseHeader
  BY <1>1, HeaderStep
<1>2. CASE ParseQuestion
  BY <1>0, <1>2, StartScanStep DEF ParseQuestion, InSection, Goals
<1>3. CASE ParseRecord
  <2>1. StartScan("record", offset, Size)
    BY <1>3 DEF ParseRecord
  <2> QED BY <1>0, <1>3, <2>1, StartScanStep DEF ParseRecord, Goals
<1>4. CASE ParseOpt
  <2>1. CASE opt \/ offset + 11 > Size
    BY <1>4, <2>1, FailStep DEF ParseOpt
  <2>2. CASE ~(opt \/ offset + 11 > Size)
    <3>1. U16(offset + 9) \in Nat
      BY <1>0, <2>2, WordIsNat
    <3>2. HasData(OPT, offset + 11, U16(offset + 9)) /\ at # "build" /\ UNCHANGED inputVars
      BY <1>4, <2>2 DEF ParseOpt
    <3>3. OPT \in Nat /\ offset + 11 \in Nat
      BY <1>0 DEF OPT
    <3> QED BY <3>1, <3>2, <3>3, HasDataStep
  <2> QED BY <2>1, <2>2
<1>5. CASE ParseDone
  BY <1>5, Stops DEF ParseDone
<1>6. CASE QuestionNamed
  BY <1>6, QuestionStep
<1>7. CASE RecordNamed
  <2>1. CASE Fail
    BY <1>7, <2>1, FailStep DEF RecordNamed
  <2>2. CASE ~Fail
    <3>1. /\ NameEnd + 10 <= Size
          /\ HasData(U16(NameEnd), NameEnd + 10, U16(NameEnd + 8))
          /\ at = "named" /\ UNCHANGED inputVars
      BY <1>7, <2>2 DEF RecordNamed
    <3>2. NameEnd \in Nat
      BY <3>1, NameEndType DEF PInv, Scanning
    <3>3. U16(NameEnd) \in Nat /\ U16(NameEnd + 8) \in Nat /\ NameEnd + 10 \in Nat
      BY <1>0, <3>1, <3>2, WordIsNat
    <3> QED BY <3>1, <3>3, HasDataStep
  <2> QED BY <2>1, <2>2
<1> QED BY <1>1, <1>2, <1>3, <1>4, <1>5, <1>6, <1>7 DEF Parse

-----------------------------------------------------------------------------
(* Record data.                                                            *)

\* The name that the data is or ends in.
LEMMA NamedDataStep ==
  ASSUME PInv, NamedData
  PROVE  PInv'
<1>1. CASE ~LeadFits
  BY <1>1, FailStep DEF NamedData
<1>2. CASE LeadFits
  <2> DEFINE g == IF rd.typ = SOA THEN "primary" ELSE "target"
             lo == rd.lo + Lead
  <2>1. /\ StartScan(g, lo, rd.hi)
        /\ UNCHANGED <<offset, left, rd, opt, addr>> /\ UNCHANGED inputVars
    BY <1>2 DEF NamedData
  <2>2. g \in Goals /\ g # "question"
    BY DEF Goals
  <2>3. Lead \in {0, 2, 6}
    BY DEF Lead, MX, SRV
  <2>4. /\ rd.lo \in Nat /\ rd.hi \in Nat /\ rd.hi <= Size /\ Size \in Nat
        /\ rd.lo <= rd.hi
    BY Numbers DEF PInv, DataInv
  <2>5. lo \in Nat /\ lo <= rd.hi
    BY <1>2, <2>3, <2>4 DEF LeadFits, RdLen
  <2> HIDE DEF g, lo
  <2> QED BY <2>1, <2>2, <2>4, <2>5, StartScanStep
<1> QED BY <1>1, <1>2

\* The next string of a TXT record ends in the data.
LEMMA TextStringStep ==
  ASSUME PInv, TextString
  PROVE  PInv'
<1>1. /\ rd.pos < rd.hi /\ TextEnd <= rd.hi
      /\ rd' = [rd EXCEPT !.pos = TextEnd]
      /\ at = "txt"
      /\ UNCHANGED <<inputVars, at, offset, left, name, goal, opt, addr>>
  BY DEF TextString
<1>2. /\ rd.lo \in Nat /\ rd.lo <= Size /\ rd.hi \in Nat /\ rd.hi <= Size
      /\ rd.pos \in Nat /\ rd.typ \in Nat /\ Size \in Nat /\ rd.lo <= rd.pos
  BY Numbers DEF PInv, DataInv
<1>3. B(rd.pos) \in Nat
  <2>1. B(rd.pos) \in Byte
    BY <1>1, <1>2, ByteType DEF PInv
  <2> QED BY <2>1 DEF Byte
<1>4. TextEnd \in Nat /\ rd.pos < TextEnd
  BY <1>2, <1>3 DEF TextEnd
<1>5. rd' = [typ |-> rd.typ, lo |-> rd.lo, hi |-> rd.hi, pos |-> TextEnd]
  <2>1. rd \in [typ : Nat, lo : 0 .. Size, hi : 0 .. Size, pos : 0 .. Size]
    BY Zenon DEF PInv, PTypeOK
  <2> QED BY <1>1, <2>1
<1>6. rd' \in [typ : Nat, lo : 0 .. Size, hi : 0 .. Size, pos : 0 .. Size]
  <2>1. TextEnd <= Size
    BY <1>1, <1>2, <1>4
  <2> HIDE DEF TextEnd, Size
  <2> QED BY <1>2, <1>4, <1>5, <2>1
<1>7. PTypeOK'
  BY <1>1, <1>6, PTypeStep, Zenon DEF PInv, PTypeOK, inputVars
<1>8. ScanInv' /\ DataInv' /\ LeftInv' /\ BuildInv'
  BY <1>1, <1>2, <1>4, <1>5 DEF ScanInv, DataInv, LeftInv, BuildInv, Scanning
<1> QED BY <1>7, <1>8 DEF PInv

LEMMA ParseDataStep ==
  ASSUME PInv, ParseData
  PROVE  PInv'
<1>1. CASE PlainData
  BY <1>1, FailStep, EndRecordStep DEF PlainData
<1>2. CASE NamedData
  BY <1>2, NamedDataStep
<1>3. CASE TargetNamed
  BY <1>3, EndRecordStep DEF TargetNamed
<1>4. CASE PrimaryNamed
  <2>1. StartScan("mailbox", NameEnd, rd.hi)
    BY <1>4 DEF PrimaryNamed
  <2>2. NameEnd \in Nat /\ NameEnd <= Size /\ rd.hi \in Nat /\ rd.hi <= Size
    BY <1>4, NameEndType, Numbers DEF PrimaryNamed, PInv, Scanning
  <2>3. "mailbox" \in Goals
    BY DEF Goals
  <2> QED BY <1>4, <2>1, <2>2, <2>3, StartScanStep DEF PrimaryNamed
<1>5. CASE MailboxNamed
  BY <1>5, FailStep, EndRecordStep DEF MailboxNamed
<1>6. CASE TextData
  <2>1. ~Scanning' /\ at' # "build" /\ at' \in Places
    BY <1>6 DEF TextData, Scanning, Places
  <2>2. PTypeOK'
    BY <1>6, <2>1, PTypeStep, Zenon DEF TextData, PInv, PTypeOK, inputVars
  <2>3. ScanInv' /\ DataInv' /\ LeftInv' /\ BuildInv'
    BY <1>6, <2>1 DEF TextData, PInv, ScanInv, DataInv, LeftInv, BuildInv
  <2> QED BY <2>2, <2>3 DEF PInv
<1>7. CASE TextString
  BY <1>7, TextStringStep
<1>8. CASE TextFails
  BY <1>8, FailStep DEF TextFails
<1>9. CASE TextEnds
  BY <1>9, EndRecordStep DEF TextEnds
<1> QED BY <1>1, <1>2, <1>3, <1>4, <1>5, <1>6, <1>7, <1>8, <1>9 DEF ParseData

-----------------------------------------------------------------------------
LEMMA PInvInit == PInit => PInv
<1> SUFFICES ASSUME PInit PROVE PInv
  OBVIOUS
<1>1. data \in Seq(Byte)
  <2>1. CASE \E S \in Inputs : \E i \in S : data = i.data
    BY <2>1, PacketAssumption, Zenon
  <2>2. CASE data = <<>>
    BY <2>2
  <2> QED BY <2>1, <2>2, Zenon DEF PInit
<1>2. Size \in Nat
  BY <1>1 DEF Size
<1>3. at \in {"header", "build"} /\ (at = "build" => data = <<>> /\ host \in Hosts)
  BY DEF PInit
<1>4. /\ offset = 0
      /\ left = [s \in Sections |-> 0]
      /\ name = [start |-> 0, end |-> 0, hi |-> 0, pos |-> 0, largest |-> 0,
                 ret |-> NoPos]
      /\ goal = "question"
      /\ rd = [typ |-> 0, lo |-> 0, hi |-> 0, pos |-> 0]
      /\ opt = FALSE
  BY Zenon DEF PInit
<1>5. at \in Places /\ goal \in Goals
  BY <1>3, <1>4 DEF Places, Goals
<1>6. offset \in 0 .. Size
  BY <1>2, <1>4
<1>7. left \in [Sections -> TwoBytes]
  <2>1. 0 \in TwoBytes
    BY DEF TwoBytes, MaxTwoBytes
  <2> QED BY <1>4, <2>1
<1>8. name \in [start : 0 .. Size, end : 0 .. Size, hi : 0 .. Size, pos : 0 .. Size,
                largest : 0 .. Size, ret : {NoPos} \cup 0 .. Size]
  BY <1>2, <1>4
<1>9. rd \in [typ : Nat, lo : 0 .. Size, hi : 0 .. Size, pos : 0 .. Size]
  BY <1>2, <1>4
<1>10. opt \in BOOLEAN
  BY <1>4, Zenon
<1>11. PTypeOK
  BY <1>1, <1>5, <1>6, <1>7, <1>8, <1>9, <1>10, Zenon DEF PTypeOK
<1>12. ScanInv /\ DataInv /\ LeftInv /\ BuildInv
  BY <1>3, <1>4 DEF ScanInv, DataInv, LeftInv, BuildInv, Scanning
<1> QED BY <1>11, <1>12 DEF PInv

LEMMA PInvStep == PInv /\ [PNext]_pvars => PInv'
<1> SUFFICES ASSUME PInv, [PNext]_pvars PROVE PInv'
  OBVIOUS
<1>1. CASE PNext
  BY <1>1, BuildStep, ScanStep, ParseStep, ParseDataStep DEF PNext
<1>2. CASE UNCHANGED pvars
  BY <1>2, Zenon DEF pvars, PInv, PTypeOK, ScanInv, DataInv, LeftInv, BuildInv,
     Scanning, Size
<1> QED BY <1>1, <1>2

\* The invariant holds in every state of every behaviour.
LEMMA PInvAlways == PSpec => []PInv
  BY PInvInit, PInvStep, PTL DEF PSpec

\* Every cursor of the parser, whatever packet of whatever length it is given,
\* is a position of the packet or its end.
THEOREM PacketTypeCorrect == PSpec => []PTypeOK
<1>1. PInv => PTypeOK
  BY DEF PInv
<1> QED BY <1>1, PInvAlways, PTL

\* No packet makes Packet::parse, RRData::parse or Name::scan index outside
\* the slice they look at: for packets of every length and content.
THEOREM ParserInBounds == PSpec => []InBounds
  BY PInvInBounds, PInvAlways, PTL

\* Every iteration of the loop in Name::scan lowers the largest position that
\* a pointer may lead to, or moves forwards in the slice: what the end of the
\* loop rests on.
THEOREM ScanAlwaysAdvances == PSpec => ScanAdvances
<1> DEFINE Advance ==
      at = "name" /\ at' = "name" =>
         \/ name'.largest < name.largest
         \/ name'.largest = name.largest /\ name'.pos > name.pos
<1>1. PInv /\ [PNext]_pvars => [Advance]_pvars
  <2> SUFFICES ASSUME PInv, PNext, at = "name", at' = "name" PROVE Advance
    BY Zenon DEF Advance
  <2>1. ScanPointer \/ ScanLabel
    BY DEF PNext, Build, BuildQuery, BuildRefused, BuildPanics, Scan, NameEnds, ScanUnknown,
       Fail, Parse, ParseHeader, ParseQuestion, ParseRecord, ParseOpt, ParseDone,
       QuestionNamed, RecordNamed, ParseData, PlainData, NamedData, TargetNamed,
       PrimaryNamed, MailboxNamed, TextData, TextString, TextFails, TextEnds
  <2>2. CASE ScanPointer
    BY <2>2, JumpStep DEF ScanPointer, Fail
  <2>3. CASE ScanLabel
    BY <2>3, LabelStep DEF ScanLabel, Fail
  <2> QED BY <2>1, <2>2, <2>3
<1> QED BY <1>1, PInvAlways, PTL DEF PSpec, ScanAdvances

\* add_question panics for no host whose name the protocol allows: the 512
\* bytes of lookup_on's buffer are enough for every name of at most 255.
THEOREM PanicOnlyIfInvalid == PSpec => []PanicsIfInvalid
<1>1. PInit => PanicsIfInvalid
  BY DEF PInit, PanicsIfInvalid
<1>2. PInv /\ PanicsIfInvalid /\ [PNext]_pvars => PanicsIfInvalid'
  <2> SUFFICES ASSUME PInv, PanicsIfInvalid, [PNext]_pvars, at' = "panic"
               PROVE  (Len(Labels(Len(host))) + 1 > 255)'
    BY DEF PanicsIfInvalid
  <2>1. CASE BuildPanics
    <3>1. Labels(Len(host)) \in Seq(Byte)
      BY <2>1, LabelBytes DEF BuildPanics
    <3>2. Len(Labels(Len(host))) \in Nat
      BY <3>1, LenProperties
    <3>3. HeaderSize + Len(Labels(Len(host))) + 5 > 512
      BY <2>1 DEF BuildPanics, QueryEnd, BufLen
    <3>4. Labels(Len(host))' = Labels(Len(host))
      BY <2>1, Zenon DEF BuildPanics, inputVars, Labels
    <3> HIDE DEF Labels
    <3> QED BY <3>2, <3>3, <3>4 DEF HeaderSize
  <2>2. CASE UNCHANGED pvars
    BY <2>2, Zenon DEF pvars, PanicsIfInvalid, Labels
  <2>3. BuildPanics \/ UNCHANGED pvars
    BY DEF PNext, Build, BuildQuery, BuildRefused, Scan, NameEnds, ScanUnknown,
       ScanPointer, ScanLabel, StartScan, HasData, EndRecord,
       Fail, Parse, ParseHeader, ParseQuestion, ParseRecord, ParseOpt, ParseDone,
       QuestionNamed, RecordNamed, ParseData, PlainData, NamedData, TargetNamed,
       PrimaryNamed, MailboxNamed, TextData, TextString, TextFails, TextEnds
  <2> QED BY <2>1, <2>2, <2>3
<1> QED BY <1>1, <1>2, PInvAlways, PTL DEF PSpec

-----------------------------------------------------------------------------
(* Names that can be followed.                                             *)

Positions == 0 .. Size - 1

\* From a label or a pointer to what follows it.
Edges == {<<p, Follow(p)>> : p \in {q \in Positions : GoesOn(q)}}

\* A scan has come from the start of the name to where it is, and is over at
\* the end of the name alone.
PathInv ==
    Scanning =>
      /\ \E k \in Nat : Path(Edges, Positions, name.start, name.pos, k)
      /\ at = "named" => B(name.pos) = 0

LEMMA FollowType ==
  ASSUME PTypeOK, NEW p \in Nat, GoesOn(p)
  PROVE  Follow(p) \in Nat
<1>1. B(p) \in Byte
  BY ByteType DEF GoesOn
<1>2. CASE IsPointer(p)
  <2>1. p + 1 < Size
    <3>1. ~(B(p) < 64)
      BY <1>1, <1>2 DEF IsPointer, Byte
    <3> QED BY <3>1 DEF GoesOn
  <2>2. U16(p) \in TwoBytes
    BY <2>1, WordType
  <2>3. U16(p) \in Nat
    BY <2>2, WordsAreNat
  <2>4. PICK x \in Nat : x = U16(p) % 16384
    BY <2>3
  <2> HIDE DEF U16, IsPointer
  <2> QED BY <1>2, <2>4 DEF Follow
<1>3. CASE ~IsPointer(p)
  BY <1>1, <1>3 DEF Follow, Byte
<1> QED BY <1>2, <1>3

\* The equation that EndsIn is defined by has a solution, so EndsIn solves it.
LEMMA EndsInEquation ==
  ASSUME PTypeOK
  PROVE  \A n, p \in Nat :
            EndsIn[n][p] = (\/ p < Size /\ B(p) = 0
                            \/ n > 0 /\ GoesOn(p) /\ EndsIn[n - 1][Follow(p)])
<1> DEFINE V == [Nat -> BOOLEAN]
           base == [p \in Nat |-> p < Size /\ B(p) = 0]
           After(h) == [p \in Nat |-> \/ p < Size /\ B(p) = 0
                                      \/ GoesOn(p) /\ h[Follow(p)]]
           step == [h \in V |-> After(h)]
           Body(f) == [n \in Nat |-> [p \in Nat |->
                         \/ p < Size /\ B(p) = 0
                         \/ n > 0 /\ GoesOn(p) /\ f[n - 1][Follow(p)]]]
<1>1. base \in V
  BY Zenon
<1>2. step \in [V -> V]
  BY Zenon
<1> HIDE DEF V, step
<1>3. PICK f \in [Nat -> V] : f[0] = base /\ \A n \in Nat : f[n + 1] = step[f[n]]
  <2> HIDE DEF base
  <2> QED BY <1>1, <1>2, IterationExists
<1>4. \A n \in Nat : f[n + 1] = After(f[n])
  <2> TAKE n \in Nat
  <2>1. f[n] \in V /\ f[n + 1] = step[f[n]]
    BY <1>3
  <2>2. \A h \in V : step[h] = After(h)
    BY Zenon DEF step
  <2> QED BY <2>1, <2>2, Zenon
<1>5. f = Body(f)
  <2>1. \A n \in Nat : f[n] = Body(f)[n]
    <3> TAKE n \in Nat
    <3>1. Body(f)[n] = [p \in Nat |->
                         \/ p < Size /\ B(p) = 0
                         \/ n > 0 /\ GoesOn(p) /\ f[n - 1][Follow(p)]]
      BY Zenon
    <3>2. CASE n = 0
      <4>1. Body(f)[n] = base
        <5>1. ~(n > 0)
          BY <3>2
        <5> QED BY <3>1, <5>1, Zenon
      <4> QED BY <1>3, <3>2, <4>1, Zenon
    <3>3. CASE n # 0
      <4>1. n > 0 /\ n - 1 \in Nat /\ (n - 1) + 1 = n
        BY <3>3
      <4>2. f[n] = After(f[n - 1])
        <5>1. f[(n - 1) + 1] = After(f[n - 1])
          BY <1>4, <4>1, Zenon
        <5> QED BY <4>1, <5>1, Zenon
      <4> QED BY <3>1, <4>1, <4>2, Zenon
    <3> QED BY <3>2, <3>3
  <2>2. DOMAIN f = Nat /\ DOMAIN Body(f) = Nat
    BY Zenon
  <2> HIDE DEF Body
  <2>3. f = [n \in Nat |-> f[n]]
    BY <1>3
  <2>4. Body(f) = [n \in Nat |-> Body(f)[n]]
    BY Zenon DEF Body
  <2> QED BY <2>1, <2>3, <2>4, Zenon
<1>6. EndsIn = CHOOSE g : g = Body(g)
  BY Zenon DEF EndsIn
<1>7. EndsIn = Body(EndsIn)
  <2> HIDE DEF Body
  <2> QED BY <1>5, <1>6, Zenon
<1> TAKE n, p \in Nat
<1>8. Body(EndsIn)[n] = [q \in Nat |->
                           \/ q < Size /\ B(q) = 0
                           \/ n > 0 /\ GoesOn(q) /\ EndsIn[n - 1][Follow(q)]]
  BY Zenon
<1> HIDE DEF Body
<1>9. EndsIn[n] = [q \in Nat |->
                     \/ q < Size /\ B(q) = 0
                     \/ n > 0 /\ GoesOn(q) /\ EndsIn[n - 1][Follow(q)]]
  BY <1>7, <1>8, Zenon
<1> QED BY <1>9, Zenon

\* From every place of a path to the end of a name, the name ends in as many
\* steps as the path has left.
LEMMA PathEnds ==
  ASSUME PTypeOK, NEW a, NEW b, NEW k \in Nat,
         Path(Edges, Positions, a, b, k), B(b) = 0,
         NEW n \in Nat, k <= n
  PROVE  EndsIn[n][a]
<1>0. Size \in Nat
  BY Numbers
<1>1. PICK s \in [0 .. k -> Positions] : IsPath(s, Edges, a, b, k)
  BY DEF Path
<1> DEFINE Ends(p, j) == \A x \in Nat : j <= x => EndsIn[x][p]
           Good == {j \in Nat : j <= k => Ends(s[k - j], j)}
<1>2. \A x, p \in Nat : EndsIn[x][p] = (\/ p < Size /\ B(p) = 0
                                        \/ x > 0 /\ GoesOn(p) /\ EndsIn[x - 1][Follow(p)])
  BY EndsInEquation
<1>3. \A i \in 0 .. k : s[i] \in Nat /\ s[i] < Size
  BY <1>0, <1>1 DEF Positions
<1>4. 0 \in Good
  <2>1. s[k - 0] = b /\ b \in Nat /\ b < Size
    BY <1>1, <1>3 DEF IsPath
  <2>2. ASSUME NEW x \in Nat PROVE EndsIn[x][b]
    BY <1>2, <2>1
  <2> QED BY <2>1, <2>2
<1>5. ASSUME NEW j \in Nat, j \in Good
      PROVE  j + 1 \in Good
  <2> SUFFICES ASSUME j + 1 <= k PROVE Ends(s[k - (j + 1)], j + 1)
    OBVIOUS
  <2> PICK i \in 0 .. k - 1 : i = k - (j + 1) /\ i + 1 = k - j
    OBVIOUS
  <2>1. Ends(s[i + 1], j)
    BY <1>5
  <2> HIDE DEF Good
  <2>2. <<s[i], s[i + 1]>> \in Edges
    BY <1>1 DEF IsPath
  <2>3. GoesOn(s[i]) /\ s[i + 1] = Follow(s[i])
    BY <2>2 DEF Edges
  <2>4. ASSUME NEW x \in Nat, j + 1 <= x PROVE EndsIn[x][s[i]]
    <3>1. x - 1 \in Nat /\ j <= x - 1 /\ x > 0
      BY <2>4
    <3>2. EndsIn[x - 1][Follow(s[i])]
      BY <2>1, <2>3, <3>1
    <3>3. s[i] \in Nat
      BY <1>3
    <3> QED BY <1>2, <2>3, <3>1, <3>2, <3>3, Zenon
  <2> QED BY <2>4
<1>6. Nat \subseteq Good
  <2> HIDE DEF Good
  <2> QED BY <1>4, <1>5, InductionOnSet, Zenon
<1>7. Ends(s[0], k)
  <2>1. k \in Good /\ k - k = 0
    BY <1>6
  <2> QED BY <2>1
<1> QED BY <1>1, <1>7 DEF IsPath

\* What the invariant has to say at the end of a scan.
LEMMA PathResolves ==
  ASSUME PInv, PathInv
  PROVE  Resolvable
<1> SUFFICES ASSUME at = "named" PROVE EndsIn[Size][name.start]
  BY DEF Resolvable
<1>0. PTypeOK /\ Size \in Nat
  BY Numbers DEF PInv
<1>1. PICK k \in Nat : Path(Edges, Positions, name.start, name.pos, k)
  BY DEF PathInv, Scanning
<1>2. B(name.pos) = 0
  BY DEF PathInv, Scanning
<1>3. PICK m \in Nat : m < Size /\ Path(Edges, Positions, name.start, name.pos, m)
  BY <1>0, <1>1, ShortPath DEF Positions
<1> QED BY <1>0, <1>2, <1>3, PathEnds

LEMMA SameEdges ==
  ASSUME data' = data
  PROVE  Positions' = Positions /\ Edges' = Edges
<1>1. Size' = Size
  BY Zenon DEF Size
<1>2. \A p : B(p)' = B(p)
  BY Zenon DEF B
<1>3. \A p : U16(p)' = U16(p) /\ (IsPointer(p)' <=> IsPointer(p))
  BY <1>2, Zenon DEF U16, IsPointer
<1>4. \A p : Follow(p)' = Follow(p)
  <2> TAKE p
  <2>1. U16(p)' = U16(p) /\ B(p)' = B(p) /\ (IsPointer(p)' <=> IsPointer(p))
    BY <1>2, <1>3
  <2> QED BY <2>1 DEF Follow
<1>5. \A p : GoesOn(p)' <=> GoesOn(p)
  BY <1>1, <1>2, <1>3, Zenon DEF GoesOn
<1>6. Positions' = Positions
  BY <1>1, Zenon DEF Positions
<1> QED BY <1>4, <1>5, <1>6, Zenon DEF Edges

\* A scan goes from one place of the path to the next.
LEMMA PathStep ==
  ASSUME PInv, PathInv, at = "name", at' = "name", data' = data,
         name'.start = name.start, GoesOn(name.pos), name'.pos = Follow(name.pos),
         name'.pos < Size
  PROVE  PathInv'
<1>1. PICK k \in Nat : Path(Edges, Positions, name.start, name.pos, k)
  BY DEF PathInv, Scanning
<1>0. name.pos \in Nat /\ Size \in Nat /\ PTypeOK
  BY Numbers DEF PInv
<1>2. PICK c \in Nat : c = Follow(name.pos)
  BY <1>0, FollowType
<1>3. name.pos \in Positions /\ c \in Positions
  BY <1>0, <1>2 DEF Positions, GoesOn
<1>4. <<name.pos, c>> \in Edges
  BY <1>2, <1>3 DEF Edges
<1>5. Path(Edges, Positions, name.start, c, k + 1) /\ k + 1 \in Nat
  BY <1>1, <1>3, <1>4, PathGrows
<1>6. Positions' = Positions /\ Edges' = Edges
  BY SameEdges
<1> HIDE DEF Edges, Positions
<1>7. \E j \in Nat : Path(Edges', Positions', name'.start, name'.pos, j)
  BY <1>2, <1>5, <1>6, Zenon
<1> QED BY <1>7 DEF PathInv

\* Nothing is said while no name is scanned.
LEMMA PathIdle ==
  ASSUME at' \notin {"name", "named"}
  PROVE  PathInv'
  BY DEF PathInv, Scanning

\* A scan starts where it is.
LEMMA PathStarts ==
  ASSUME PInv', NEW g, NEW lo \in Nat, NEW hi, StartScan(g, lo, hi)
  PROVE  PathInv'
<1>1. at' \in {"name", "error"} /\ name'.start = lo /\ name'.pos = lo
  BY DEF StartScan
<1>2. CASE at' = "error"
  BY <1>2, PathIdle
<1>3. CASE at' = "name"
  <2>1. lo < Size' /\ Size' \in Nat
    <3>1. PTypeOK' => (Size \in Nat /\ name.hi \in Nat /\ name.hi <= Size)'
      BY Numbers, PTL
    <3> QED BY <1>1, <1>3, <3>1 DEF PInv, ScanInv, Scanning
  <2>2. lo \in Positions'
    <3>1. \A n \in Nat : lo < n => lo \in 0 .. n - 1
      OBVIOUS
    <3>2. Positions' = 0 .. Size' - 1
      BY Zenon DEF Positions
    <3> QED BY <2>1, <3>1, <3>2, Zenon
  <2>4. Path(Edges', Positions', lo, lo, 0)
    BY <2>2, PathStays, Zenon
  <2> HIDE DEF Edges, Positions
  <2>5. \E k \in Nat : Path(Edges', Positions', name'.start, name'.pos, k)
    BY <1>1, <2>4
  <2> QED BY <1>3, <2>5 DEF PathInv
<1> QED BY <1>1, <1>2, <1>3

LEMMA PathScan ==
  ASSUME PInv, PathInv, Scan
  PROVE  PathInv'
<1>0. /\ PTypeOK /\ Size \in Nat /\ name.pos \in Nat
      /\ at = "name" => name.pos < name.hi /\ name.hi \in Nat /\ name.hi <= Size
  BY Numbers DEF PInv, ScanInv, Scanning
<1>1. CASE NameEnds
  <2>1. /\ at' = "named" /\ at = "name" /\ NameByte = 0
        /\ data' = data /\ name' = name
    BY <1>1 DEF NameEnds, inputVars
  <2>2. Positions' = Positions /\ Edges' = Edges
    BY <2>1, SameEdges
  <2>3. B(name.pos)' = B(name.pos)
    BY <2>1, Zenon DEF B
  <2> HIDE DEF Edges, Positions
  <2> QED BY <2>1, <2>2, <2>3 DEF PathInv, Scanning, NameByte
<1>2. CASE ScanPointer
  <2>1. at = "name" /\ NameByte >= 192 /\ data' = data
    BY <1>2 DEF ScanPointer, inputVars
  <2>2. CASE ~GoodPointer
    BY <1>2, <2>2, PathIdle DEF ScanPointer, Fail
  <2>3. CASE GoodPointer
    <3>1. name' = Jumped /\ at' = at
      BY <1>2, <2>3 DEF ScanPointer
    <3>2. name'.start = name.start /\ name'.pos = Target
      <4>1. name \in [start : 0 .. Size, end : 0 .. Size, hi : 0 .. Size, pos : 0 .. Size,
                      largest : 0 .. Size, ret : {NoPos} \cup 0 .. Size]
        BY <1>0, Zenon DEF PTypeOK
      <4> QED BY <3>1, <4>1 DEF Jumped
    <3>3. NameByte \in Byte
      BY <2>1, NameByteType
    <3>4. IsPointer(name.pos) /\ NameByte # 0 /\ NameByte = B(name.pos)
      BY <2>1, <3>3 DEF NameByte, IsPointer, Byte
    <3>5. name.pos < Size /\ name.pos + 1 < Size /\ Target < Size
      BY <1>0, <2>1, <2>3 DEF GoodPointer
    <3>6. GoesOn(name.pos)
      BY <3>4, <3>5 DEF GoesOn
    <3>7. Follow(name.pos) = Target
      BY <3>4 DEF Follow, Target
    <3> QED BY <2>1, <3>1, <3>2, <3>5, <3>6, <3>7, PathStep
  <2> QED BY <2>2, <2>3
<1>3. CASE ScanLabel
  <2>1. at = "name" /\ NameByte \in 1 .. 63 /\ data' = data
    BY <1>3 DEF ScanLabel, inputVars
  <2>2. CASE ~GoodLabel
    BY <1>3, <2>2, PathIdle DEF ScanLabel, Fail
  <2>3. CASE GoodLabel
    <3>1. name' = [name EXCEPT !.pos = LabelEnd] /\ at' = at
      BY <1>3, <2>3 DEF ScanLabel
    <3>2. name'.start = name.start /\ name'.pos = LabelEnd
      <4>1. name \in [start : 0 .. Size, end : 0 .. Size, hi : 0 .. Size, pos : 0 .. Size,
                      largest : 0 .. Size, ret : {NoPos} \cup 0 .. Size]
        BY <1>0, Zenon DEF PTypeOK
      <4> QED BY <3>1, <4>1
    <3>3. NameByte = B(name.pos)
      BY DEF NameByte
    <3> HIDE DEF NameByte
    <3>4. ~IsPointer(name.pos) /\ B(name.pos) # 0 /\ B(name.pos) < 64
      BY <2>1, <3>3 DEF IsPointer
    <3>5. GoesOn(name.pos)
      BY <1>0, <2>1, <3>4 DEF GoesOn
    <3>6. LabelEnd \in Int /\ LabelEnd < name.hi /\ LabelEnd = Follow(name.pos)
      BY <1>0, <2>1, <2>3, <3>3, <3>4 DEF LabelEnd, GoodLabel, Follow
    <3>7. LabelEnd < Size
      <4> HIDE DEF LabelEnd
      <4> QED BY <1>0, <2>1, <3>6
    <3> QED BY <2>1, <3>1, <3>2, <3>5, <3>6, <3>7, PathStep
  <2> QED BY <2>2, <2>3
<1>4. CASE ScanUnknown
  BY <1>4, PathIdle DEF ScanUnknown, Fail
<1> QED BY <1>1, <1>2, <1>3, <1>4 DEF Scan

LEMMA PathInvStep == PInv /\ PInv' /\ PathInv /\ [PNext]_pvars => PathInv'
<1> SUFFICES ASSUME PInv, PInv', PathInv, [PNext]_pvars PROVE PathInv'
  OBVIOUS
<1>0. /\ offset \in Nat /\ rd.lo \in Nat /\ Lead \in Nat
      /\ at = "named" => NameEnd \in Nat
  BY Numbers, NameEndType DEF PInv, Scanning, Lead, MX, SRV
<1>1. CASE UNCHANGED pvars
  <2>1. data' = data /\ name' = name /\ at' = at
    BY <1>1 DEF pvars
  <2>2. Positions' = Positions /\ Edges' = Edges
    BY <2>1, SameEdges
  <2>3. B(name.pos)' = B(name.pos)
    BY <2>1, Zenon DEF B
  <2> HIDE DEF Edges, Positions
  <2> QED BY <2>1, <2>2, <2>3 DEF PathInv, Scanning
<1>2. CASE Build
  BY <1>2, PathIdle DEF Build, BuildQuery, BuildRefused, BuildPanics
<1>3. CASE Scan
  BY <1>3, PathScan
<1>4. CASE ParseQuestion
  BY <1>0, <1>4, PathStarts DEF ParseQuestion
<1>5. CASE ParseRecord
  <2>1. StartScan("record", offset, Size)
    BY <1>5 DEF ParseRecord
  <2> QED BY <1>0, <2>1, PathStarts
<1>6. CASE NamedData
  <2>1. CASE ~LeadFits
    BY <1>6, <2>1, PathIdle DEF NamedData, Fail
  <2>2. CASE LeadFits
    <3> DEFINE g == IF rd.typ = SOA THEN "primary" ELSE "target"
               lo == rd.lo + Lead
    <3>1. StartScan(g, lo, rd.hi)
      BY <1>6, <2>2 DEF NamedData
    <3>2. lo \in Nat
      BY <1>0
    <3> HIDE DEF g, lo
    <3> QED BY <3>1, <3>2, PathStarts
  <2> QED BY <2>1, <2>2
<1>7. CASE PrimaryNamed
  <2>1. StartScan("mailbox", NameEnd, rd.hi) /\ at = "named"
    BY <1>7 DEF PrimaryNamed
  <2> QED BY <1>0, <2>1, PathStarts
<1>8. CASE \/ ParseHeader \/ ParseOpt \/ ParseDone \/ QuestionNamed \/ RecordNamed
           \/ PlainData \/ TargetNamed \/ MailboxNamed
           \/ TextData \/ TextString \/ TextFails \/ TextEnds
  <2>1. at' \notin {"name", "named"}
    BY <1>8 DEF ParseHeader, ParseOpt, ParseDone, QuestionNamed, RecordNamed, HasData, Fail,
       PlainData, TargetNamed, MailboxNamed, TextData, TextString, TextFails, TextEnds,
       EndRecord
  <2> QED BY <2>1, PathIdle
<1> QED BY <1>1, <1>2, <1>3, <1>4, <1>5, <1>6, <1>7, <1>8 DEF PNext, Parse, ParseData

\* A name that Name::scan accepts, in any packet, leads to its end along its
\* labels and pointers, in fewer steps than the packet has bytes: displaying it
\* neither panics nor goes in circles.
THEOREM NamesResolve == PSpec => []Resolvable
<1>1. PInit => PathInv
  BY DEF PInit, PathInv, Scanning
<1>2. PInv /\ PathInv => Resolvable
  BY PathResolves
<1> QED BY <1>1, <1>2, PathInvStep, PInvAlways, PTL DEF PSpec

-----------------------------------------------------------------------------
(* The query.                                                              *)

\* No host has an empty label: none that ends in a dot, or has two in a row.
ProperHosts == \A h \in Hosts : \A i \in DOMAIN h : h[i] # <<>>

\* The bytes of the first n labels come first.
LEMMA LabelsPrefix ==
  ASSUME Writable, NEW n \in 0 .. Len(host)
  PROVE  /\ Len(Labels(n)) \in Nat /\ Len(Labels(n)) <= Len(Labels(Len(host)))
         /\ \A k \in 1 .. Len(Labels(n)) : Labels(Len(host))[k] = Labels(n)[k]
<1>0. Len(host) \in Nat
  BY DEF Writable
<1> DEFINE Starts(m) == /\ Len(Labels(n)) <= Len(Labels(m))
                        /\ \A k \in 1 .. Len(Labels(n)) : Labels(m)[k] = Labels(n)[k]
           Good == {j \in Nat : n + j <= Len(host) => Starts(n + j)}
<1>1. \A m \in 0 .. Len(host) : Labels(m) \in Seq(Byte) /\ Len(Labels(m)) \in Nat
  BY LabelsNext, LenProperties
<1>2. 0 \in Good
  <2>1. Len(Labels(n)) \in Nat
    BY <1>1
  <2> QED BY <2>1
<1>3. ASSUME NEW j \in Nat, j \in Good
      PROVE  j + 1 \in Good
  <2> SUFFICES ASSUME n + (j + 1) <= Len(host) PROVE Starts(n + (j + 1))
    OBVIOUS
  <2>1. PICK m \in 0 .. Len(host) - 1 : m = n + j /\ m + 1 = n + (j + 1)
    BY <1>0
  <2>2. Starts(m)
    BY <1>0, <1>3, <2>1
  <2>3. Labels(m + 1) = Labels(m) \o Written(m + 1)
    BY LabelsNext
  <2>4. PICK a, b, c \in Seq(Byte) : a = Labels(n) /\ b = Labels(m) /\ c = Written(m + 1)
    <3>1. m \in 0 .. Len(host) /\ m + 1 \in 1 .. Len(host)
      BY <1>0
    <3> QED BY <1>1, <3>1, WrittenType
  <2>5. Len(a) <= Len(b) /\ \A k \in 1 .. Len(a) : b[k] = a[k]
    BY <2>2, <2>4
  <2>6. Len(a) <= Len(b \o c) /\ \A k \in 1 .. Len(a) : (b \o c)[k] = a[k]
    BY <2>5
  <2>7. Starts(m + 1)
    BY <2>3, <2>4, <2>6, Zenon
  <2> QED BY <2>1, <2>7, Zenon
<1>4. Nat \subseteq Good
  <2> HIDE DEF Good
  <2> QED BY <1>2, <1>3, InductionOnSet, Zenon
<1>5. PICK j \in Nat : n + j = Len(host)
  BY <1>0
<1>6. Starts(Len(host))
  BY <1>0, <1>4, <1>5
<1> QED BY <1>1, <1>6

\* After the first l places of z comes the label w: its length, and then its
\* bytes.
LabelIn(z, l, w) == z[l + 1] = Len(w) /\ \A x \in 1 .. Len(w) : z[l + 1 + x] = w[x]

\* Label n + 1 comes after the first n.
LEMMA LabelPlace ==
  ASSUME Writable, NEW n \in 0 .. Len(host) - 1
  PROVE  /\ Len(Labels(n)) \in Nat /\ Len(host[n + 1]) \in Nat
         /\ Len(Labels(n + 1)) = Len(Labels(n)) + 1 + Len(host[n + 1])
         /\ Len(Labels(n)) + 1 + Len(host[n + 1]) <= Len(Labels(Len(host)))
         /\ LabelIn(Labels(Len(host)), Len(Labels(n)), host[n + 1])
<1> PICK l : l = Len(Labels(n))
  OBVIOUS
<1> PICK w : w = host[n + 1]
  OBVIOUS
<1> PICK z : z = Labels(Len(host))
  OBVIOUS
<1>0. /\ Len(host) \in Nat /\ n \in 0 .. Len(host)
      /\ n + 1 \in 0 .. Len(host) /\ n + 1 \in 1 .. Len(host)
  BY DEF Writable
<1>1. Labels(n + 1) = Labels(n) \o Written(n + 1)
  BY LabelsNext
<1>2. PICK b, c \in Seq(Byte) : b = Labels(n) /\ c = Written(n + 1)
  BY <1>0, LabelsNext, WrittenType
<1>3. PICK i \in 1 .. Len(host) : i = n + 1
  BY <1>0
<1>4. /\ Len(w) \in Nat /\ Len(c) = Len(w) + 1 /\ c[1] = Len(w)
      /\ \A x \in 1 .. Len(w) : c[x + 1] = w[x]
  BY <1>2, <1>3, WrittenType
<1>5. l \in Nat /\ l = Len(b)
  BY <1>2
<1>6. PICK y : y = Labels(n + 1)
  OBVIOUS
<1>7. PICK v \in Nat : v = Len(w)
  BY <1>4
<1>8. /\ Len(y) = l + (v + 1)
      /\ \A k \in 1 .. v + 1 : y[l + k] = c[k]
  <2>1. PICK r : r = v + 1 /\ r = Len(c)
    BY <1>4, <1>7
  <2>2. /\ Len(b \o c) = Len(b) + Len(c)
        /\ \A k \in 1 .. Len(c) : (b \o c)[Len(b) + k] = c[k]
    BY ConcatPlaces, SMT
  <2>3. y = b \o c
    BY <1>1, <1>2, <1>6, Zenon
  <2> QED BY <1>5, <2>1, <2>2, <2>3, Zenon
<1>10. Len(y) <= Len(z) /\ \A k \in 1 .. Len(y) : z[k] = y[k]
  BY <1>0, <1>6, LabelsPrefix
<1>11. z[l + 1] = v /\ l + 1 + v <= Len(z) /\ Len(y) = l + 1 + v
  <2>1. l + 1 \in 1 .. Len(y) /\ 1 \in 1 .. v + 1
    BY <1>5, <1>8
  <2>2. l + (v + 1) = l + 1 + v
    BY <1>5
  <2> QED BY <1>4, <1>7, <1>8, <1>10, <2>1, <2>2, Zenon
<1>12. ASSUME NEW x \in 1 .. v PROVE z[l + 1 + x] = w[x]
  <2>1. PICK k \in 1 .. v + 1 : k = x + 1
    OBVIOUS
  <2>2. l + k \in 1 .. Len(y) /\ l + k = l + 1 + x
    BY <1>5, <1>8, <2>1
  <2>3. c[k] = w[x]
    BY <1>4, <1>7, <2>1
  <2> QED BY <1>8, <1>10, <2>1, <2>2, <2>3, Zenon
<1> HIDE DEF Labels
<1>13. LabelIn(z, l, w)
  BY <1>7, <1>11, <1>12, Zenon DEF LabelIn
<1> QED BY <1>5, <1>6, <1>7, <1>11, <1>13, Zenon

\* The packet that add_question makes.
Asked == data = QueryHeader(1) \o Labels(Len(host)) \o QueryEnd

\* Its header, with one question.
LEMMA HeaderLayout ==
  ASSUME NEW n \in Byte
  PROVE  /\ QueryHeader(n) \in Seq(Byte) /\ Len(QueryHeader(n)) = 12
         /\ QueryHeader(n)[4] = 0
         /\ QueryHeader(n)[5] = 0 /\ QueryHeader(n)[6] = n
         /\ \A i \in 7 .. 12 : QueryHeader(n)[i] = 0
<1> DEFINE a == <<0, 0, 1, 0, 0, n>>
           b == [i \in 1 .. 6 |-> 0]
<1>1. a \in Seq(Byte) /\ Len(a) = 6 /\ a[4] = 0 /\ a[5] = 0 /\ a[6] = n
  BY DEF Byte
<1>2. b \in Seq(Byte) /\ Len(b) = 6 /\ \A i \in 1 .. 6 : b[i] = 0
  BY DEF Byte
<1> HIDE DEF a, b
<1>3. PICK q : q = a \o b
  OBVIOUS
<1>4. /\ q \in Seq(Byte) /\ Len(q) = 6 + 6
      /\ \A k \in 1 .. 6 : q[k] = a[k]
      /\ \A k \in 1 .. 6 : q[6 + k] = b[k]
  <2>1. 6 = Len(a) /\ 6 = Len(b) /\ a \in Seq(Byte) /\ b \in Seq(Byte)
    BY <1>1, <1>2
  <2>2. /\ a \o b \in Seq(Byte) /\ Len(a \o b) = Len(a) + Len(b)
        /\ \A k \in 1 .. Len(a) : (a \o b)[k] = a[k]
        /\ \A k \in 1 .. Len(b) : (a \o b)[Len(a) + k] = b[k]
    BY <2>1, ConcatPlaces, SMT
  <2> QED BY <1>3, <2>1, <2>2, Zenon
<1>5. \A i \in 7 .. 12 : q[i] = 0
  <2> TAKE i \in 7 .. 12
  <2>1. PICK k \in 1 .. 6 : i = 6 + k
    OBVIOUS
  <2> QED BY <1>2, <1>4, <2>1
<1>6. QueryHeader(n) = q
  BY <1>3, Zenon DEF QueryHeader, a, b
<1>7. q[4] = 0 /\ q[5] = 0 /\ q[6] = n /\ 6 + 6 = 12
  BY <1>1, <1>4
<1> QED BY <1>4, <1>5, <1>6, <1>7, Zenon

\* Where the parts of the query are: the header, the labels, the end.
LEMMA QueryLayout ==
  ASSUME Writable, Asked, NEW l, l = Len(Labels(Len(host)))
  PROVE  /\ l \in Nat /\ data \in Seq(Byte) /\ Size = l + 17
         /\ \A k \in 1 .. 12 : data[k] = QueryHeader(1)[k]
         /\ \A k \in 1 .. l : data[12 + k] = Labels(Len(host))[k]
         /\ \A k \in 1 .. 5 : data[12 + l + k] = QueryEnd[k]
<1>1. PICK q \in Seq(Byte) : q = QueryHeader(1) /\ Len(q) = 12
  <2>1. 1 \in Byte
    BY DEF Byte
  <2> QED BY <2>1, HeaderLayout
<1>2. PICK z \in Seq(Byte) : z = Labels(Len(host)) /\ Len(z) = l
  <2>1. Len(host) \in 0 .. Len(host)
    BY DEF Writable
  <2> QED BY <2>1, LabelsNext
<1>3. PICK e \in Seq(Byte) : e = QueryEnd /\ Len(e) = 5
  <2>1. QueryEnd \in Seq(Byte)
    BY DEF QueryEnd, Byte, A
  <2>2. Len(QueryEnd) = 5
    BY DEF QueryEnd, A
  <2> QED BY <2>1, <2>2, Zenon
<1>4. PICK d : d = q \o z
  OBVIOUS
<1>5. /\ l \in Nat /\ d \in Seq(Byte) /\ Len(d) = Len(q) + Len(z)
      /\ \A k \in 1 .. Len(q) : d[k] = q[k]
      /\ \A k \in 1 .. Len(z) : d[Len(q) + k] = z[k]
  <2>1. /\ Len(z) \in Nat /\ q \o z \in Seq(Byte) /\ Len(q \o z) = Len(q) + Len(z)
        /\ \A k \in 1 .. Len(q) : (q \o z)[k] = q[k]
        /\ \A k \in 1 .. Len(z) : (q \o z)[Len(q) + k] = z[k]
    BY ConcatPlaces, SMT
  <2> QED BY <1>2, <1>4, <2>1, Zenon
<1>6. data = d \o e
  BY <1>1, <1>2, <1>3, <1>4, Zenon DEF Asked
<1>7. /\ data \in Seq(Byte) /\ Len(data) = Len(d) + Len(e)
      /\ \A k \in 1 .. Len(d) : data[k] = d[k]
      /\ \A k \in 1 .. Len(e) : data[Len(d) + k] = e[k]
  <2>1. d \in Seq(Byte)
    BY <1>5
  <2>2. /\ d \o e \in Seq(Byte) /\ Len(d \o e) = Len(d) + Len(e)
        /\ \A k \in 1 .. Len(d) : (d \o e)[k] = d[k]
        /\ \A k \in 1 .. Len(e) : (d \o e)[Len(d) + k] = e[k]
    BY <2>1, ConcatPlaces, SMT
  <2> QED BY <1>6, <2>2, Zenon
<1>8. Len(d) = 12 + l
  BY <1>1, <1>2, <1>5
<1>9. Size = l + 17
  BY <1>3, <1>5, <1>7, <1>8 DEF Size
<1>10. ASSUME NEW k \in 1 .. 12 PROVE data[k] = q[k]
  <2>1. \A n \in Nat : k \in 1 .. 12 + n
    OBVIOUS
  <2>2. k \in 1 .. Len(q) /\ k \in 1 .. Len(d)
    BY <1>1, <1>5, <1>8, <2>1, Zenon
  <2> QED BY <1>5, <1>7, <2>2, Zenon
<1>11. ASSUME NEW k \in 1 .. l PROVE data[12 + k] = z[k]
  <2>1. k \in 1 .. Len(z) /\ 12 + k \in 1 .. Len(d) /\ 12 = Len(q)
    BY <1>1, <1>2, <1>5, <1>8
  <2>2. d[12 + k] = z[k]
    BY <1>5, <2>1, Zenon
  <2> QED BY <1>7, <2>1, <2>2, Zenon
<1>12. ASSUME NEW k \in 1 .. 5 PROVE data[12 + l + k] = e[k]
  BY <1>3, <1>7, <1>8, Zenon
<1> HIDE DEF Labels, QueryHeader, QueryEnd
<1> QED BY <1>1, <1>2, <1>3, <1>5, <1>7, <1>9, <1>10, <1>11, <1>12, Zenon

\* The counts of a header that was built here, and its reserved bit.
LEMMA HeaderRead ==
  ASSUME NEW n \in {0, 1}, NEW d, d = QueryHeader(n),
         \A k \in 1 .. 12 : data[k] = d[k]
  PROVE  B(3) = 0 /\ U16(4) = n /\ U16(6) = 0 /\ U16(8) = 0 /\ U16(10) = 0
<1>1. n \in Byte /\ n \in Nat
  BY DEF Byte
<1>2. d[4] = 0 /\ d[5] = 0 /\ d[6] = n /\ \A i \in 7 .. 12 : d[i] = 0
  BY <1>1, HeaderLayout
<1>3. /\ data[4] = 0 /\ data[5] = 0 /\ data[6] = n /\ data[7] = 0 /\ data[8] = 0
      /\ data[9] = 0 /\ data[10] = 0 /\ data[11] = 0 /\ data[12] = 0
  BY <1>2
<1>4. /\ B(3) = 0 /\ B(4) = 0 /\ B(5) = n /\ B(6) = 0 /\ B(7) = 0
      /\ B(8) = 0 /\ B(9) = 0 /\ B(10) = 0 /\ B(11) = 0
  BY <1>3 DEF B
<1> HIDE DEF B
<1>5. /\ U16(4) = 256 * B(4) + B(5) /\ U16(6) = 256 * B(6) + B(7)
      /\ U16(8) = 256 * B(8) + B(9) /\ U16(10) = 256 * B(10) + B(11)
  BY DEF U16
<1> HIDE DEF U16
<1> QED BY <1>1, <1>4, <1>5

\* A label in the query: its length, and its bytes, which are ASCII.
LEMMA QueryLabel ==
  ASSUME Writable, Asked, NEW n \in 0 .. Len(host) - 1, NEW p, p = 12 + Len(Labels(n))
  PROVE  /\ p \in Nat /\ Len(host[n + 1]) \in Nat /\ B(p) = Len(host[n + 1])
         /\ B(p) < 63
         /\ \A x \in 1 .. B(p) : data[p + 1 + x] = host[n + 1][x]
         /\ \A i \in p + 1 .. p + B(p) : B(i) < 128
         /\ p + 1 + B(p) = 12 + Len(Labels(n + 1))
         /\ p + 1 + B(p) < Size
<1>1. PICK w : w = host[n + 1]
  OBVIOUS
<1>2. PICK v : v = Len(Labels(n))
  OBVIOUS
<1>4. PICK z : z = Labels(Len(host))
  OBVIOUS
<1>3. PICK l : l = Len(Labels(Len(host))) /\ l = Len(z)
  BY <1>4, Zenon
<1>a. PICK y : y = Len(Labels(n + 1))
  OBVIOUS
<1>b. /\ v \in Nat /\ Len(w) \in Nat
      /\ y = v + 1 + Len(w) /\ v + 1 + Len(w) <= l
  BY <1>1, <1>2, <1>3, <1>a, LabelPlace
<1>c. z[v + 1] = Len(w) /\ \A x \in 1 .. Len(w) : z[v + 1 + x] = w[x]
  <2>1. LabelIn(Labels(Len(host)), Len(Labels(n)), host[n + 1])
    BY LabelPlace
  <2>2. LabelIn(z, v, w)
    BY <1>1, <1>2, <1>4, <2>1, Zenon
  <2> QED BY <2>2, Zenon DEF LabelIn
<1>d. l \in Nat /\ Size = l + 17
  BY <1>3, QueryLayout
<1>e. \A k \in 1 .. l : data[12 + k] = z[k]
  BY <1>3, <1>4, QueryLayout
<1>f. PICK c \in Nat : c = Len(w)
  BY <1>b
<1>g. /\ v \in Nat /\ y = v + 1 + c /\ v + 1 + c <= l /\ p = 12 + v /\ p \in Nat
  BY <1>2, <1>b, <1>f
<1>h. z[v + 1] = c /\ \A x \in 1 .. c : z[v + 1 + x] = w[x]
  BY <1>c, <1>f, Zenon
<1>7. w \in Seq(1 .. 127) /\ c < 63
  <2>1. PICK i \in 1 .. Len(host) : i = n + 1
    BY DEF Writable
  <2> QED BY <1>1, <1>f, <2>1, WrittenType
<1>10. B(p) = c
  <2>1. v + 1 \in 1 .. l /\ p + 1 = 12 + (v + 1)
    BY <1>d, <1>g
  <2> QED BY <1>e, <1>h, <2>1, Zenon DEF B
<1>11. ASSUME NEW x \in 1 .. c PROVE data[p + 1 + x] = w[x]
  <2>1. v + 1 + x \in 1 .. l /\ p + 1 + x = 12 + (v + 1 + x)
    BY <1>d, <1>g
  <2> QED BY <1>e, <1>h, <2>1, Zenon
<1>12. ASSUME NEW i \in p + 1 .. p + c PROVE B(i) < 128
  <2>1. PICK x \in 1 .. c : i + 1 = p + 1 + x
    <3>1. i - p \in 1 .. c /\ i + 1 = p + 1 + (i - p)
      BY <1>g
    <3> QED BY <3>1
  <2>2. B(i) = w[x]
    BY <1>11, <2>1, Zenon DEF B
  <2>3. w[x] \in 1 .. 127
    BY <1>7, <1>f, ElementOfSeq
  <2>4. \A u \in 1 .. 127 : u < 128
    OBVIOUS
  <2> QED BY <2>2, <2>3, <2>4, Zenon
<1> HIDE DEF B, Labels
<1>13. p + 1 + c = 12 + y /\ p + 1 + c < Size
  BY <1>d, <1>g
<1>14. Len(host[n + 1]) = c
  BY <1>1, <1>f, Zenon
<1> QED BY <1>1, <1>7, <1>a, <1>g, <1>10, <1>11, <1>12, <1>13, <1>14, Zenon

\* What follows the labels: the end of the name, type A, class IN.
LEMMA QueryTail ==
  ASSUME Writable, Asked, NEW p, p = 12 + Len(Labels(Len(host)))
  PROVE  /\ p \in Nat /\ Size = p + 5 /\ B(p) = 0
         /\ U16(p + 1) = 1 /\ U16(p + 3) = 1
<1>1. PICK l : l = Len(Labels(Len(host)))
  OBVIOUS
<1>2. l \in Nat /\ Size = l + 17 /\ \A k \in 1 .. 5 : data[12 + l + k] = QueryEnd[k]
  BY <1>1, QueryLayout
<1>3. p = 12 + l /\ p \in Nat /\ Size = p + 5
  BY <1>1, <1>2
<1>4. \A k \in 1 .. 5 : data[p + k] = QueryEnd[k]
  BY <1>2, <1>3, Zenon
<1>5. data[p + 1] = 0 /\ data[p + 2] = 0 /\ data[p + 3] = 1 /\ data[p + 4] = 0 /\ data[p + 5] = 1
  BY <1>4 DEF QueryEnd, A
<1>6. B(p) = 0 /\ B(p + 1) = 0 /\ B(p + 2) = 1 /\ B(p + 3) = 0 /\ B(p + 4) = 1
  BY <1>3, <1>5 DEF B
<1> HIDE DEF B
<1>7. p + 1 + 1 = p + 2 /\ p + 3 + 1 = p + 4
  BY <1>3
<1>8. U16(p + 1) = 256 * 0 + 1 /\ U16(p + 3) = 256 * 0 + 1
  BY <1>6, <1>7 DEF U16
<1> QED BY <1>3, <1>6, <1>8

-----------------------------------------------------------------------------
(* The labels of a name, read from the packet.                             *)

LabelAt(p) == SubSeq(data, p + 2, p + 1 + B(p))

\* The labels of the name at p, if h has those of the rest.
MoreLabels(p, h) ==
    IF ~GoesOn(p) THEN <<>>
    ELSE IF IsPointer(p) THEN h[Follow(p)]
    ELSE <<LabelAt(p)>> \o h[Follow(p)]

\* The equation that LabelsAt is defined by has a solution, so LabelsAt solves
\* it.
LEMMA LabelsAtEquation ==
  ASSUME PTypeOK
  PROVE  \A n, p \in Nat : LabelsAt[n][p] = IF n = 0 THEN <<>> ELSE MoreLabels(p, LabelsAt[n - 1])
<1> DEFINE W == {LabelAt(p) : p \in Nat}
           V == [Nat -> Seq(W)]
           none == [p \in Nat |-> <<>>]
           After(h) == [p \in Nat |-> MoreLabels(p, h)]
           step == [h \in V |-> After(h)]
           Body(f) == [n \in Nat |-> [p \in Nat |->
                         IF n = 0 THEN <<>> ELSE MoreLabels(p, f[n - 1])]]
<1>1. none \in V
  <2>1. <<>> \in Seq(W)
    OBVIOUS
  <2> QED BY <2>1, Zenon
<1>2. step \in [V -> V]
  <2> SUFFICES ASSUME NEW h \in V, NEW p \in Nat PROVE MoreLabels(p, h) \in Seq(W)
    BY Zenon
  <2>1. CASE ~GoesOn(p)
    <3>1. MoreLabels(p, h) = <<>>
      BY <2>1, Zenon DEF MoreLabels
    <3> QED BY <3>1
  <2>2. CASE GoesOn(p)
    <3>1. PICK t \in Seq(W) : t = h[Follow(p)]
      BY <2>2, FollowType
    <3>2. PICK w \in W : w = LabelAt(p)
      BY Zenon
    <3>3. MoreLabels(p, h) \in {t, <<w>> \o t}
      BY <2>2, <3>1, <3>2, Zenon DEF MoreLabels
    <3> HIDE DEF W
    <3>4. <<w>> \o t \in Seq(W)
      BY <3>2
    <3> QED BY <3>3, <3>4, Zenon
  <2> QED BY <2>1, <2>2
<1> HIDE DEF V, W, step
<1>3. PICK f \in [Nat -> V] : f[0] = none /\ \A n \in Nat : f[n + 1] = step[f[n]]
  <2> HIDE DEF none
  <2> QED BY <1>1, <1>2, IterationExists
<1>4. \A n \in Nat : f[n + 1] = After(f[n])
  <2> TAKE n \in Nat
  <2>1. f[n] \in V /\ f[n + 1] = step[f[n]]
    BY <1>3
  <2>2. \A h \in V : step[h] = After(h)
    BY Zenon DEF step
  <2> QED BY <2>1, <2>2, Zenon
<1>5. f = Body(f)
  <2>1. \A n \in Nat : f[n] = Body(f)[n]
    <3> TAKE n \in Nat
    <3>1. Body(f)[n] = [p \in Nat |-> IF n = 0 THEN <<>> ELSE MoreLabels(p, f[n - 1])]
      BY Zenon
    <3>2. CASE n = 0
      <4>1. Body(f)[n] = none
        BY <3>1, <3>2, Zenon
      <4> QED BY <1>3, <3>2, <4>1, Zenon
    <3>3. CASE n # 0
      <4>1. n - 1 \in Nat /\ (n - 1) + 1 = n
        BY <3>3
      <4>2. f[n] = After(f[n - 1])
        <5>1. f[(n - 1) + 1] = After(f[n - 1])
          BY <1>4, <4>1, Zenon
        <5> QED BY <4>1, <5>1, Zenon
      <4> QED BY <3>1, <3>3, <4>2, Zenon
    <3> QED BY <3>2, <3>3
  <2> HIDE DEF Body
  <2>2. f = [n \in Nat |-> f[n]]
    BY <1>3
  <2>3. Body(f) = [n \in Nat |-> Body(f)[n]]
    BY Zenon DEF Body
  <2> QED BY <2>1, <2>2, <2>3, Zenon
<1>6. LabelsAt = CHOOSE g : g = Body(g)
  <2> DEFINE Text(g) == [n \in Nat |-> [p \in Nat |->
                 IF n = 0 \/ ~GoesOn(p) THEN <<>>
                 ELSE IF IsPointer(p) THEN g[n - 1][Follow(p)]
                 ELSE <<SubSeq(data, p + 2, p + 1 + B(p))>> \o g[n - 1][Follow(p)]]]
  <2>1. LabelsAt = CHOOSE g : g = Text(g)
    BY Zenon DEF LabelsAt
  <2>2. \A g : Text(g) = Body(g)
    BY Zenon DEF MoreLabels, LabelAt
  <2> HIDE DEF Text, Body
  <2> QED BY <2>1, <2>2, Zenon
<1>7. LabelsAt = Body(LabelsAt)
  <2> HIDE DEF Body
  <2> QED BY <1>5, <1>6, Zenon
<1> TAKE n, p \in Nat
<1>8. Body(LabelsAt)[n] = [q \in Nat |-> IF n = 0 THEN <<>> ELSE MoreLabels(q, LabelsAt[n - 1])]
  BY Zenon
<1> HIDE DEF Body
<1>9. LabelsAt[n] = [q \in Nat |-> IF n = 0 THEN <<>> ELSE MoreLabels(q, LabelsAt[n - 1])]
  BY <1>7, <1>8, Zenon
<1> QED BY <1>9, Zenon

\* A label that is in the packet is read as it was written.
LEMMA LabelRead ==
  ASSUME data \in Seq(Byte), NEW p \in Nat, NEW w \in Seq(1 .. 127), Len(w) = B(p),
         p + 1 + B(p) < Size, \A x \in 1 .. B(p) : data[p + 1 + x] = w[x]
  PROVE  LabelAt(p) = w
<1>1. PICK c \in Nat : c = B(p)
  OBVIOUS
<1>2. PICK m, e \in Nat : m = p + 2 /\ e = p + 1 + c
  OBVIOUS
<1>3. Len(data) \in Nat /\ e < Len(data)
  BY <1>1, <1>2 DEF Size
<1> PICK s : s = SubSeq(data, m, e)
  OBVIOUS
<1>4. s = LabelAt(p)
  BY <1>1, <1>2, Zenon DEF LabelAt
<1>5. s \in Seq(Byte) /\ Len(s) = c /\ \A x \in 1 .. c : s[x] = data[p + 1 + x]
  <2>1. \A i \in m .. e : data[i] \in Byte
    BY <1>2, <1>3, ElementOfSeq
  <2>2. /\ s \in Seq(Byte) /\ Len(s) = (IF m <= e THEN e - m + 1 ELSE 0)
        /\ \A i \in 1 .. e - m + 1 : s[i] = data[m + i - 1]
    BY <2>1, SubSeqProperties
  <2>3. e - m + 1 = c /\ (~(m <= e) => c = 0)
    BY <1>2
  <2>4. \A x \in 1 .. c : m + x - 1 = p + 1 + x
    BY <1>2
  <2>5. Len(s) = c
    BY <2>2, <2>3
  <2> QED BY <2>2, <2>3, <2>4, <2>5, Zenon
<1>6. w \in Seq(Byte) /\ Len(w) = c
  BY <1>1 DEF Byte
<1>7. \A x \in 1 .. c : s[x] = w[x]
  BY <1>1, <1>5, Zenon
<1>8. s = w
  BY <1>5, <1>6, <1>7, SeqEqual
<1> QED BY <1>4, <1>8, Zenon

\* The rest of a sequence from one place on, and from the next.
LEMMA RestOf ==
  ASSUME NEW S, NEW h \in Seq(S), NEW i \in 1 .. Len(h)
  PROVE  SubSeq(h, i, Len(h)) = <<h[i]>> \o SubSeq(h, i + 1, Len(h))
<1> PICK N \in Nat : N = Len(h)
  OBVIOUS
<1> PICK a : a = SubSeq(h, i, N)
  OBVIOUS
<1> PICK b : b = SubSeq(h, i + 1, N)
  OBVIOUS
<1>1. a \in Seq(S) /\ Len(a) = N - i + 1 /\ \A k \in 1 .. N - i + 1 : a[k] = h[i + k - 1]
  BY SubSeqProperties
<1>2. b \in Seq(S) /\ Len(b) = N - i /\ \A k \in 1 .. N - i : b[k] = h[i + k]
  BY SubSeqProperties
<1> PICK c : c = <<h[i]>> \o b
  OBVIOUS
<1>3. c \in Seq(S) /\ Len(c) = N - i + 1 /\ c[1] = h[i] /\ \A k \in 1 .. N - i : c[k + 1] = b[k]
  <2>1. h[i] \in S
    OBVIOUS
  <2> QED BY <1>2, <2>1
<1>4. \A k \in 1 .. N - i + 1 : a[k] = c[k]
  <2> TAKE k \in 1 .. N - i + 1
  <2>1. CASE k = 1
    BY <1>1, <1>3, <2>1
  <2>2. CASE k # 1
    <3>1. k - 1 \in 1 .. N - i /\ i + (k - 1) = i + k - 1
      BY <2>2
    <3> QED BY <1>1, <1>2, <1>3, <3>1
  <2> QED BY <2>1, <2>2
<1>5. a = c
  BY <1>1, <1>3, <1>4, SeqEqual
<1> QED BY <1>5

\* Every label has a byte, if only its length.
LEMMA LabelsLong ==
  ASSUME Writable, NEW n \in 0 .. Len(host)
  PROVE  n <= Len(Labels(n)) /\ Len(Labels(n)) \in Nat
<1>0. Len(host) \in Nat
  BY DEF Writable
<1> DEFINE Good == {j \in Nat : j <= Len(host) => j <= Len(Labels(j))}
<1>1. 0 \in Good
  BY <1>0, LabelsPrefix
<1>2. ASSUME NEW j \in Nat, j \in Good
      PROVE  j + 1 \in Good
  <2> SUFFICES ASSUME j + 1 <= Len(host) PROVE j + 1 <= Len(Labels(j + 1))
    OBVIOUS
  <2>1. j \in 0 .. Len(host) - 1 /\ j <= Len(host)
    BY <1>0
  <2>2. j <= Len(Labels(j))
    BY <1>2, <2>1
  <2>3. PICK l, w \in Nat : l = Len(Labels(j)) /\ w = Len(host[j + 1])
                            /\ Len(Labels(j + 1)) = l + 1 + w
    BY <2>1, LabelPlace
  <2>4. \A c, d, e \in Nat : c <= d => c + 1 <= d + 1 + e
    OBVIOUS
  <2>5. j + 1 <= l + 1 + w
    BY <2>2, <2>3, <2>4, Zenon
  <2> QED BY <2>3, <2>5, Zenon
<1>3. Nat \subseteq Good
  <2> HIDE DEF Good
  <2> QED BY <1>1, <1>2, InductionOnSet, Zenon
<1>4. n \in Good
  <2> HIDE DEF Good
  <2> QED BY <1>3
<1> QED BY <1>0, <1>4, LabelsPrefix

\* The name of the query, read from label n + 1 on.
LEMMA QueryReads ==
  ASSUME PTypeOK, Writable, Asked, \A i \in 1 .. Len(host) : host[i] # <<>>,
         NEW m \in Nat, Len(host) <= m
  PROVE  LabelsAt[m][12] = host
<1>0. PICK N \in Nat : N = Len(host)
  BY DEF Writable
<1>e. \A x, p \in Nat : LabelsAt[x][p] = IF x = 0 THEN <<>> ELSE MoreLabels(p, LabelsAt[x - 1])
  BY LabelsAtEquation
<1>d. data \in Seq(Byte) /\ Size \in Nat /\ host \in Seq(Seq(1 .. 127))
  BY Numbers, Zenon DEF PTypeOK, Writable
<1> DEFINE Place(i) == 12 + Len(Labels(i))
           Reads(i, x) == LabelsAt[x][Place(i)] = SubSeq(host, i + 1, N)
           Good == {j \in Nat : j <= N => \A x \in Nat : j <= x => Reads(N - j, x)}
<1>1. 0 \in Good
  <2> SUFFICES ASSUME NEW x \in Nat PROVE LabelsAt[x][Place(N)] = SubSeq(host, N + 1, N)
    OBVIOUS
  <2>1. PICK p : p = Place(N)
    OBVIOUS
  <2>2. p \in Nat /\ B(p) = 0
    BY <1>0, <2>1, QueryTail
  <2>3. ~GoesOn(p)
    BY <2>2 DEF GoesOn
  <2>4. LabelsAt[x][p] = <<>>
    BY <1>e, <2>2, <2>3, Zenon DEF MoreLabels
  <2>5. SubSeq(host, N + 1, N) = <<>>
    BY SubSeqEmpty
  <2> QED BY <2>1, <2>4, <2>5
<1>2. ASSUME NEW j \in Nat, j \in Good
      PROVE  j + 1 \in Good
  <2> SUFFICES ASSUME j + 1 <= N, NEW x \in Nat, j + 1 <= x
               PROVE  Reads(N - (j + 1), x)
    OBVIOUS
  <2>1. PICK i \in 0 .. N - 1 : i = N - (j + 1) /\ i + 1 = N - j
    OBVIOUS
  <2>2. x - 1 \in Nat /\ j <= x - 1 /\ j <= N /\ x # 0
    OBVIOUS
  <2>3. Reads(N - j, x - 1)
    BY <1>2, <2>2
  <2> HIDE DEF Good
  <2>4. LabelsAt[x - 1][Place(i + 1)] = SubSeq(host, i + 2, N)
    <3>1. (i + 1) + 1 = i + 2
      OBVIOUS
    <3> QED BY <2>1, <2>3, <3>1, Zenon
  <2>5. PICK p : p = Place(i)
    OBVIOUS
  <2>6. PICK w \in Seq(1 .. 127) : w = host[i + 1] /\ w # <<>>
    <3>1. i + 1 \in 1 .. Len(host)
      BY <1>0
    <3> QED BY <1>d, <3>1, ElementOfSeq
  <2>7. /\ p \in Nat /\ Len(w) \in Nat /\ B(p) = Len(w) /\ B(p) < 63
        /\ p + 1 + B(p) = Place(i + 1) /\ p + 1 + B(p) < Size
    BY <1>0, <2>5, <2>6, QueryLabel
  <2>8. \A y \in 1 .. B(p) : data[p + 1 + y] = w[y]
    <3>1. i \in 0 .. Len(host) - 1
      BY <1>0
    <3>2. \A y \in 1 .. B(p) : data[p + 1 + y] = host[i + 1][y]
      BY <2>5, <3>1, QueryLabel
    <3> QED BY <2>6, <3>2, Zenon
  <2>9. LabelAt(p) = w
    BY <1>d, <2>7, <2>8, LabelRead
  <2>10. B(p) # 0
    BY <2>6, <2>7, EmptySeq
  <2>11. GoesOn(p) /\ ~IsPointer(p) /\ Follow(p) = Place(i + 1)
    <3> HIDE DEF B, Place
    <3> QED BY <1>d, <2>7, <2>10 DEF GoesOn, IsPointer, Follow
  <2>12. LabelsAt[x][p] = <<w>> \o SubSeq(host, i + 2, N)
    <3> PICK h : h = LabelsAt[x - 1]
      OBVIOUS
    <3>1. LabelsAt[x][p] = MoreLabels(p, h)
      BY <1>e, <2>2, <2>7, Zenon
    <3>2. MoreLabels(p, h) = <<LabelAt(p)>> \o h[Follow(p)]
      BY <2>11, Zenon DEF MoreLabels
    <3>3. h[Follow(p)] = SubSeq(host, i + 2, N)
      BY <2>4, <2>11, Zenon
    <3> QED BY <2>9, <3>1, <3>2, <3>3, Zenon
  <2>13. SubSeq(host, i + 1, N) = <<w>> \o SubSeq(host, i + 2, N)
    <3>1. PICK k \in 1 .. Len(host) : k = i + 1 /\ k + 1 = i + 2
      BY <1>0
    <3>2. SubSeq(host, k, Len(host)) = <<host[k]>> \o SubSeq(host, k + 1, Len(host))
      BY <1>d, RestOf
    <3> QED BY <1>0, <2>6, <3>1, <3>2, Zenon
  <2> QED BY <2>1, <2>5, <2>12, <2>13, Zenon
<1>3. Nat \subseteq Good
  <2> HIDE DEF Good
  <2> QED BY <1>1, <1>2, InductionOnSet, Zenon
<1>4. Reads(0, m)
  <2>1. N \in Good /\ N - N = 0 /\ N <= N /\ N <= m
    <3> HIDE DEF Good
    <3> QED BY <1>0, <1>3
  <2> QED BY <2>1
<1>5. Place(0) = 12
  <2>1. Labels(0) = <<>>
    BY LabelsNext
  <2> QED BY <2>1
<1>6. SubSeq(host, 0 + 1, N) = host
  BY <1>0, <1>d
<1> QED BY <1>4, <1>5, <1>6, Zenon

-----------------------------------------------------------------------------
(* A query, from its making to the end of its parse.                       *)

\* No entry is left to parse; one question is.
NoneLeft == \A s \in Sections : left[s] = 0
OneLeft == left[Questions] = 1 /\ \A s \in Sections \ {Questions} : left[s] = 0

\* Where label i + 1 of the host is, or the end of the name.
Place(i) == 12 + Len(Labels(i))

\* The scan is in the name of the question, and no pointer was met.
OnHost == goal = "question" /\ name.start = 12 /\ name.ret = NoPos /\ name.hi = Size

\* A header alone was sent.
RefusedInv ==
    /\ data = QueryHeader(0)
    /\ at = "header" \/ (at \in {"next", "done"} /\ NoneLeft)

\* What the parser does with the query, step by step.
AskedInv ==
    /\ Asked
    /\ Writable
    /\ \/ at = "header"
       \/ at = "next" /\ OneLeft /\ offset = 12
       \/ at = "name" /\ OneLeft /\ OnHost /\ \E i \in 0 .. Len(host) : name.pos = Place(i)
       \/ at = "named" /\ OneLeft /\ OnHost /\ name.pos = Place(Len(host))
       \/ at \in {"next", "done"} /\ NoneLeft /\ offset = Size

AskInv ==
    host # <<>> =>
      /\ host \in Hosts
      /\ at \in {"build", "panic"} \/ RefusedInv \/ AskedInv

\* Which handler is next is decided by where the parser is.
LEMMA NextAt ==
  ASSUME PNext
  PROVE  /\ at = "build" => Build
         /\ at = "header" => ParseHeader
         /\ at = "next" => ParseQuestion \/ ParseRecord \/ ParseOpt \/ ParseDone
         /\ at = "name" => Scan
         /\ at = "named" /\ goal = "question" => QuestionNamed
         /\ at \notin {"done", "panic", "error"}
  BY DEF PNext, Build, BuildQuery, BuildRefused, BuildPanics, Scan, NameEnds, ScanUnknown,
     ScanPointer, ScanLabel, Parse, ParseHeader, ParseQuestion, ParseRecord, ParseOpt,
     ParseDone, QuestionNamed, RecordNamed, ParseData, PlainData, NamedData, TargetNamed,
     PrimaryNamed, MailboxNamed, TextData, TextString, TextFails, TextEnds

LEMMA HostStays ==
  ASSUME [PNext]_pvars
  PROVE  host' = host /\ (at # "build" => data' = data)
  BY DEF pvars, inputVars, PNext, Build, BuildQuery, BuildRefused, BuildPanics, Scan,
     NameEnds, ScanUnknown, ScanPointer, ScanLabel, Parse, ParseHeader, ParseQuestion,
     ParseRecord, ParseOpt, ParseDone, QuestionNamed, RecordNamed, ParseData, PlainData,
     NamedData, TargetNamed, PrimaryNamed, MailboxNamed, TextData, TextString, TextFails,
     TextEnds

\* What only depends on the packet and the host.
LEMMA SameQuery ==
  ASSUME data' = data, host' = host
  PROVE  /\ Size' = Size /\ (Asked' <=> Asked) /\ (Writable' <=> Writable)
         /\ \A i : Place(i)' = Place(i)
<1>1. Size' = Size
  BY Zenon DEF Size
<1>2. \A i : Labels(i)' = Labels(i)
  BY Zenon DEF Labels
<1>3. \A i : Place(i)' = Place(i)
  BY <1>2, Zenon DEF Place
<1>4. Labels(Len(host))' = Labels(Len(host))
  BY Zenon DEF Labels
<1>5. Asked' <=> Asked
  BY <1>4, Zenon DEF Asked
<1>6. NameFits' <=> NameFits
  BY Zenon DEF NameFits, Labels, Fits
<1> QED BY <1>1, <1>3, <1>5, <1>6, Zenon DEF Writable

\* The header of what was sent is accepted, and counts n questions.
LEMMA HeaderAccepted ==
  ASSUME PTypeOK, at = "header", NEW n \in {0, 1}, NEW d, d = QueryHeader(n), 12 <= Size,
         \A k \in 1 .. 12 : data[k] = d[k], ParseHeader
  PROVE  /\ at' = "next" /\ offset' = 12
         /\ left'[Questions] = n /\ \A s \in Sections \ {Questions} : left'[s] = 0
<1>1. B(3) = 0 /\ U16(4) = n /\ U16(6) = 0 /\ U16(8) = 0 /\ U16(10) = 0
  BY HeaderRead
<1>2. Size \in Nat
  BY Numbers
<1>3. ~BadHeader
  <2>1. (0 \div 64) % 2 # 1
    OBVIOUS
  <2>2. ~(Size < HeaderSize)
    BY <1>2 DEF HeaderSize
  <2> QED BY <1>1, <2>1, <2>2, Zenon DEF BadHeader
<1>4. /\ left' = [s \in Sections |-> U16(2 + 2 * s)]
      /\ offset' = HeaderSize /\ at' = "next"
  BY <1>3, Zenon DEF ParseHeader
<1> HIDE DEF U16
<1>5. left'[1] = U16(4) /\ left'[2] = U16(6) /\ left'[3] = U16(8) /\ left'[4] = U16(10)
  BY <1>4 DEF Sections
<1>6. \A s \in Sections \ {Questions} : s = 2 \/ s = 3 \/ s = 4
  BY DEF Sections, Questions
<1> QED BY <1>1, <1>4, <1>5, <1>6 DEF Questions, HeaderSize

\* The query is made, or a header alone, or nothing.
LEMMA AskBuild ==
  ASSUME host \in Hosts, at = "build", Build
  PROVE  AskInv'
<1>1. host' = host
  BY DEF Build, BuildQuery, BuildRefused, BuildPanics, inputVars
<1>2. CASE BuildQuery
  <2>1. /\ data' = QueryHeader(1) \o Labels(Len(host)) \o QueryEnd
        /\ at' = "header" /\ NameFits
    BY <1>2, Zenon DEF BuildQuery
  <2>2. Labels(Len(host))' = Labels(Len(host))
    BY <1>1, Zenon DEF Labels
  <2>3. Asked'
    BY <2>1, <2>2, Zenon DEF Asked
  <2>4. NameFits'
    BY <1>1, <2>1, Zenon DEF NameFits, Labels, Fits
  <2>5. host' \in Seq(Seq(1 .. 127))
    BY <1>1, PacketAssumption
  <2>6. Writable'
    BY <2>4, <2>5, Zenon DEF Writable
  <2> QED BY <1>1, <2>1, <2>3, <2>6, Zenon DEF AskInv, AskedInv
<1>3. CASE BuildRefused
  <2>1. data' = QueryHeader(0) /\ at' = "header"
    BY <1>3, Zenon DEF BuildRefused
  <2>2. RefusedInv'
    BY <2>1, Zenon DEF RefusedInv
  <2> QED BY <1>1, <2>2, Zenon DEF AskInv
<1>4. CASE BuildPanics
  <2>1. at' = "panic"
    BY <1>4, Zenon DEF BuildPanics
  <2> QED BY <1>1, <2>1, Zenon DEF AskInv
<1> QED BY <1>2, <1>3, <1>4, Zenon DEF Build

\* Nothing is left to parse: the parse is over.
LEMMA AskDone ==
  ASSUME at = "next", NoneLeft, PNext
  PROVE  at' = "done" /\ UNCHANGED <<inputVars, offset, left, name, goal>>
<1>1. \A s \in Sections : ~InSection(s)
  BY DEF NoneLeft, InSection
<1>2. ~OptAhead
  BY <1>1 DEF OptAhead, Sections, Additional
<1>3. Questions \in Sections
  BY DEF Questions, Sections
<1>4. ParseDone
  BY <1>1, <1>2, <1>3, NextAt, Zenon DEF ParseQuestion, ParseRecord, ParseOpt
<1> QED BY <1>4, Zenon DEF ParseDone

\* A header alone is parsed, and nothing more.
LEMMA AskRefused ==
  ASSUME PTypeOK, RefusedInv, PNext
  PROVE  RefusedInv'
<1>1. data' = data
  BY HostStays DEF RefusedInv
<1>2. CASE at = "header"
  <2>1. PICK d : d = QueryHeader(0)
    OBVIOUS
  <2>2. d \in Seq(Byte) /\ Len(d) = 12
    <3>1. 0 \in Byte
      BY DEF Byte
    <3> QED BY <2>1, <3>1, HeaderLayout
  <2>3. data = d
    BY <2>1, Zenon DEF RefusedInv
  <2>4. 12 <= Size
    <3>1. Size = 12
      BY <2>2, <2>3, Zenon DEF Size
    <3> HIDE DEF Size
    <3> QED BY <3>1
  <2>5. ParseHeader
    BY <1>2, NextAt
  <2>6. \A k \in 1 .. 12 : data[k] = d[k]
    BY <2>3, Zenon
  <2>7. 0 \in {0, 1}
    OBVIOUS
  <2>8. /\ at' = "next"
        /\ left'[Questions] = 0 /\ \A s \in Sections \ {Questions} : left'[s] = 0
    <3> HIDE DEF QueryHeader
    <3> QED BY <1>2, <2>1, <2>4, <2>5, <2>6, <2>7, HeaderAccepted
  <2>9. NoneLeft'
    BY <2>8, Zenon DEF NoneLeft
  <2> QED BY <1>1, <2>8, <2>9, Zenon DEF RefusedInv
<1>3. CASE at = "next" /\ NoneLeft
  <2>1. at' = "done" /\ left' = left
    BY <1>3, AskDone
  <2>2. NoneLeft'
    BY <1>3, <2>1, Zenon DEF NoneLeft
  <2> QED BY <1>1, <2>1, <2>2, Zenon DEF RefusedInv
<1>4. CASE at = "done"
  BY <1>4, NextAt
<1> QED BY <1>2, <1>3, <1>4 DEF RefusedInv

\* The header of the query is parsed.
LEMMA AskHeader ==
  ASSUME PTypeOK, Asked, Writable, at = "header", ParseHeader
  PROVE  at' = "next" /\ OneLeft' /\ offset' = 12
<1>1. PICK d : d = QueryHeader(1)
  OBVIOUS
<1>2. PICK l \in Nat : l = Len(Labels(Len(host))) /\ Size = l + 17
  BY QueryLayout
<1>3. \A k \in 1 .. 12 : data[k] = d[k]
  BY <1>1, QueryLayout
<1>4. 12 <= Size
  BY <1>2
<1>5. 1 \in {0, 1}
  OBVIOUS
<1>6. /\ at' = "next" /\ offset' = 12
      /\ left'[Questions] = 1 /\ \A s \in Sections \ {Questions} : left'[s] = 0
  <2> HIDE DEF QueryHeader
  <2> QED BY <1>1, <1>3, <1>4, <1>5, HeaderAccepted
<1> QED BY <1>6, Zenon DEF OneLeft

\* The question is looked for.
LEMMA AskQuestion ==
  ASSUME PTypeOK, Asked, Writable, at = "next", OneLeft, offset = 12, PNext
  PROVE  /\ at' = "name" /\ OneLeft' /\ OnHost' /\ name'.pos = Place(0)
<1>1. \A s \in Sections \ {Questions} : ~InSection(s)
  BY DEF OneLeft, InSection
<1>2. ~OptAhead /\ ~\A s \in Sections : left[s] = 0
  BY <1>1 DEF OptAhead, Sections, Additional, Questions, OneLeft
<1>3. ParseQuestion
  BY <1>1, <1>2, NextAt, Zenon DEF ParseRecord, ParseOpt, ParseDone
<1>4. StartScan("question", offset, Size) /\ left' = left /\ data' = data
  BY <1>3 DEF ParseQuestion, inputVars
<1>5. PICK l \in Nat : l = Len(Labels(Len(host))) /\ Size = l + 17
  BY QueryLayout
<1>6. at' = "name"
  <2>1. offset < Size
    BY <1>5
  <2> QED BY <1>4, <2>1, Zenon DEF StartScan
<1>7. Size' = Size
  BY <1>4, Zenon DEF Size
<1>8. OnHost' /\ name'.pos = 12
  BY <1>4, <1>7 DEF StartScan, OnHost
<1>9. Place(0) = 12
  <2>1. Labels(0) = <<>>
    BY LabelsNext
  <2> QED BY <2>1 DEF Place
<1>10. OneLeft'
  BY <1>4, Zenon DEF OneLeft
<1> QED BY <1>6, <1>8, <1>9, <1>10, Zenon

\* One step of the scan of the query's name: over a label, or its end.
LEMMA AskScan ==
  ASSUME PInv, Asked, Writable, \A k \in 1 .. Len(host) : host[k] # <<>>,
         at = "name", OnHost, Scan,
         NEW i \in 0 .. Len(host), name.pos = Place(i)
  PROVE  /\ left' = left /\ OnHost'
         /\ \/ at' = "named" /\ name'.pos = Place(Len(host))
            \/ at' = "name" /\ \E k \in 0 .. Len(host) : name'.pos = Place(k)
<1>0. /\ PTypeOK /\ Len(host) \in Nat /\ NameByte = B(name.pos)
      /\ name \in [start : 0 .. Size, end : 0 .. Size, hi : 0 .. Size, pos : 0 .. Size,
                   largest : 0 .. Size, ret : {NoPos} \cup 0 .. Size]
  BY DEF PInv, PTypeOK, Writable, NameByte
<1>1. CASE i = Len(host)
  <2>1. NameByte = 0
    BY <1>0, <1>1, QueryTail DEF Place
  <2>2. NameEnds
    BY <2>1 DEF Scan, ScanPointer, ScanLabel, ScanUnknown
  <2>3. at' = "named" /\ name' = name /\ left' = left /\ goal' = goal /\ data' = data
    BY <2>2 DEF NameEnds, inputVars
  <2>4. Size' = Size
    BY <2>3, Zenon DEF Size
  <2>5. OnHost'
    BY <2>3, <2>4, Zenon DEF OnHost
  <2>6. name'.pos = Place(Len(host))
    BY <1>1, <2>3, Zenon
  <2> QED BY <2>3, <2>5, <2>6, Zenon
<1>2. CASE i # Len(host)
  <2>1. PICK k \in 0 .. Len(host) - 1 : k = i /\ k + 1 \in 0 .. Len(host) /\ k + 1 \in 1 .. Len(host)
    BY <1>0, <1>2
  <2>2. PICK p \in Nat : p = name.pos /\ p = Place(k)
    BY <1>0, <2>1, Numbers
  <2>3. PICK c \in Nat : c = Len(host[k + 1]) /\ c = B(p)
    BY <2>1, <2>2, QueryLabel DEF Place
  <2>4. /\ c < 63 /\ p + 1 + c = Place(k + 1) /\ p + 1 + c < Size
    BY <2>1, <2>2, <2>3, QueryLabel DEF Place
  <2>5. \A x \in p + 1 .. p + c : B(x) < 128
    BY <2>1, <2>2, <2>3, QueryLabel DEF Place
  <2>6. c # 0
    <3>1. host[k + 1] \in Seq(1 .. 127) /\ host[k + 1] # <<>>
      BY <2>1, ElementOfSeq DEF Writable
    <3> QED BY <2>3, <3>1, EmptySeq
  <2>7. NameByte = c
    BY <1>0, <2>2, <2>3, Zenon
  <2> HIDE DEF NameByte, B
  <2>8. ScanLabel
    <3>1. c # 0 /\ ~(c >= 192) /\ c \notin 64 .. 191
      BY <2>4, <2>6
    <3>2. ~NameEnds /\ ~ScanPointer /\ ~ScanUnknown
      BY <2>7, <3>1, Zenon DEF NameEnds, ScanPointer, ScanUnknown
    <3> QED BY <3>2, Zenon DEF Scan
  <2>9. LabelEnd = p + 1 + c /\ LabelEnd - 1 = p + c
    BY <2>2, <2>7 DEF LabelEnd
  <2>10. GoodLabel
    <3>1. LabelEnd < name.hi
      BY <2>4, <2>9, Zenon DEF OnHost
    <3>2. \A x \in name.pos + 1 .. LabelEnd - 1 : B(x) < 128
      BY <2>2, <2>5, <2>9, Zenon
    <3> QED BY <3>1, <3>2, Zenon DEF GoodLabel
  <2>11. /\ name' = [name EXCEPT !.pos = LabelEnd]
         /\ at' = at /\ left' = left /\ goal' = goal /\ data' = data
    BY <2>8, <2>10 DEF ScanLabel, inputVars
  <2>12. /\ name'.pos = LabelEnd /\ name'.start = name.start
         /\ name'.ret = name.ret /\ name'.hi = name.hi
    <3> HIDE DEF LabelEnd
    <3> QED BY <1>0, <2>11
  <2>13. Size' = Size
    BY <2>11, Zenon DEF Size
  <2>14. OnHost'
    BY <2>11, <2>12, <2>13, Zenon DEF OnHost
  <2>15. name'.pos = Place(k + 1)
    BY <2>4, <2>9, <2>12, Zenon
  <2> QED BY <2>1, <2>11, <2>14, <2>15, Zenon
<1> QED BY <1>1, <1>2

\* The question is parsed, to the last byte of the query.
LEMMA AskNamed ==
  ASSUME PInv, Asked, Writable, at = "named", OneLeft, OnHost,
         name.pos = Place(Len(host)), QuestionNamed
  PROVE  at' = "next" /\ NoneLeft' /\ offset' = Size
<1>0. /\ PTypeOK /\ Questions \in Sections
      /\ left \in [Sections -> TwoBytes]
  BY DEF PInv, PTypeOK, Questions, Sections
<1>1. PICK p \in Nat : p = name.pos /\ p = Place(Len(host))
  BY <1>0, Numbers
<1>2. Size = p + 5 /\ U16(p + 1) = 1 /\ U16(p + 3) = 1
  BY <1>1, QueryTail DEF Place
<1>3. NameEnd = p + 1
  BY <1>1 DEF NameEnd, OnHost
<1>4. NameEnd + 4 = Size /\ NameEnd + 2 = p + 3 /\ NameEnd + 4 <= Size
  BY <1>2, <1>3
<1>5. 1 \in QueryTypes /\ KnownClass(1, QueryClasses)
  BY DEF QueryTypes, Types, KnownClass, QueryClasses, Classes
<1> HIDE DEF U16, NameEnd
<1>6. U16(NameEnd) \in QueryTypes /\ KnownClass(U16(NameEnd + 2), QueryClasses)
  BY <1>2, <1>3, <1>4, <1>5, Zenon
<1>7. /\ offset' = NameEnd + 4 /\ at' = "next"
      /\ left' = [left EXCEPT ![Questions] = @ - 1]
  BY <1>4, <1>6, Zenon DEF QuestionNamed
<1>8. NoneLeft'
  <2>1. left'[Questions] = 1 - 1
    BY <1>0, <1>7 DEF OneLeft
  <2>2. \A s \in Sections \ {Questions} : left'[s] = left[s]
    BY <1>0, <1>7
  <2>3. \A s \in Sections : left'[s] = 0
    BY <2>1, <2>2 DEF OneLeft
  <2> QED BY <2>3, Zenon DEF NoneLeft
<1> QED BY <1>4, <1>7, <1>8, Zenon

LEMMA AskedStep ==
  ASSUME ProperHosts, PInv, host \in Hosts, AskedInv, PNext
  PROVE  AskedInv'
<1>0. PTypeOK /\ Asked /\ Writable /\ at # "build"
  BY DEF PInv, AskedInv
<1>1. data' = data /\ host' = host
  BY <1>0, HostStays
<1>2. /\ Asked' /\ Writable' /\ Size' = Size
      /\ \A i : Place(i)' = Place(i)
  BY <1>0, <1>1, SameQuery
<1>3. CASE at = "header"
  <2>1. ParseHeader
    BY <1>3, NextAt
  <2>2. at' = "next" /\ OneLeft' /\ offset' = 12
    BY <1>0, <1>3, <2>1, AskHeader
  <2> QED BY <1>2, <2>2, Zenon DEF AskedInv
<1>4. CASE at = "next" /\ OneLeft /\ offset = 12
  <2>1. at' = "name" /\ OneLeft' /\ OnHost' /\ name'.pos = Place(0)
    BY <1>0, <1>4, AskQuestion
  <2>2. 0 \in 0 .. Len(host')
    BY <1>0, <1>1 DEF Writable
  <2>3. name'.pos = Place(0)'
    BY <1>2, <2>1, Zenon
  <2> QED BY <1>2, <2>1, <2>2, <2>3, Zenon DEF AskedInv
<1>5. CASE at = "name" /\ OneLeft /\ OnHost /\ \E i \in 0 .. Len(host) : name.pos = Place(i)
  <2>1. PICK i \in 0 .. Len(host) : name.pos = Place(i)
    BY <1>5
  <2>2. \A k \in 1 .. Len(host) : host[k] # <<>>
    BY <1>0 DEF ProperHosts, Writable
  <2>3. Scan
    BY <1>5, NextAt
  <2>4. /\ left' = left /\ OnHost'
        /\ \/ at' = "named" /\ name'.pos = Place(Len(host))
           \/ at' = "name" /\ \E k \in 0 .. Len(host) : name'.pos = Place(k)
    BY <1>0, <1>5, <2>1, <2>2, <2>3, AskScan
  <2>5. OneLeft'
    BY <1>5, <2>4, Zenon DEF OneLeft
  <2>6. Place(Len(host))' = Place(Len(host))
    BY <1>1, Zenon DEF Place, Labels
  <2> QED BY <1>1, <1>2, <2>4, <2>5, <2>6, Zenon DEF AskedInv
<1>6. CASE at = "named" /\ OneLeft /\ OnHost /\ name.pos = Place(Len(host))
  <2>1. QuestionNamed
    BY <1>6, NextAt DEF OnHost
  <2>2. at' = "next" /\ NoneLeft' /\ offset' = Size
    BY <1>0, <1>6, <2>1, AskNamed
  <2> QED BY <1>2, <2>2, Zenon DEF AskedInv
<1>7. CASE at \in {"next", "done"} /\ NoneLeft /\ offset = Size
  <2>1. at = "next"
    BY <1>7, NextAt
  <2>2. at' = "done" /\ left' = left /\ offset' = offset
    BY <1>7, <2>1, AskDone
  <2>3. NoneLeft'
    BY <1>7, <2>2, Zenon DEF NoneLeft
  <2> QED BY <1>2, <1>7, <2>2, <2>3, Zenon DEF AskedInv
<1> QED BY <1>3, <1>4, <1>5, <1>6, <1>7, Zenon DEF AskedInv

LEMMA AskInvStep ==
  ASSUME ProperHosts, PInv, AskInv, [PNext]_pvars
  PROVE  AskInv'
<1>1. host' = host
  BY HostStays
<1>2. CASE host = <<>>
  BY <1>1, <1>2, Zenon DEF AskInv
<1>3. CASE host # <<>> /\ PNext
  <2>1. host \in Hosts /\ PTypeOK
    BY <1>3, Zenon DEF AskInv, PInv
  <2>2. CASE at \in {"build", "panic"}
    <3>1. at = "build" /\ Build
      BY <1>3, <2>2, NextAt
    <3> QED BY <2>1, <3>1, AskBuild
  <2>3. CASE RefusedInv
    <3>1. RefusedInv'
      BY <1>3, <2>1, <2>3, AskRefused
    <3> QED BY <1>1, <2>1, <3>1, Zenon DEF AskInv
  <2>4. CASE AskedInv
    <3>1. AskedInv'
      BY <1>3, <2>1, <2>4, AskedStep
    <3> QED BY <1>1, <2>1, <3>1, Zenon DEF AskInv
  <2> QED BY <1>3, <2>2, <2>3, <2>4, Zenon DEF AskInv
<1>4. CASE UNCHANGED pvars
  <2>1. /\ data' = data /\ host' = host /\ at' = at /\ left' = left /\ name' = name
        /\ goal' = goal /\ offset' = offset
    BY <1>4 DEF pvars
  <2>2. /\ (Asked' <=> Asked) /\ (Writable' <=> Writable) /\ Size' = Size
        /\ \A i : Place(i)' = Place(i)
    BY <2>1, SameQuery
  <2>3. Place(Len(host))' = Place(Len(host))
    BY <2>1, Zenon DEF Place, Labels
  <2>4. (NoneLeft' <=> NoneLeft) /\ (OneLeft' <=> OneLeft) /\ (OnHost' <=> OnHost)
    BY <2>1, <2>2, Zenon DEF NoneLeft, OneLeft, OnHost
  <2>5. RefusedInv => RefusedInv'
    BY <2>1, <2>4, Zenon DEF RefusedInv
  <2>6. AskedInv => AskedInv'
    BY <2>1, <2>2, <2>3, <2>4, Zenon DEF AskedInv
  <2> QED BY <2>1, <2>5, <2>6, Zenon DEF AskInv
<1> QED BY <1>2, <1>3, <1>4

\* What the parser has read is the host, and all of the query.
LEMMA AskInvAsks ==
  ASSUME ProperHosts, PInv, AskInv
  PROVE  AsksForHost
<1> SUFFICES ASSUME host # <<>> PROVE AsksForHost
  BY Zenon DEF AsksForHost
<1>1. PTypeOK /\ host \in Hosts /\ Size \in Nat
  BY Numbers DEF AskInv, PInv
<1>2. CASE at \in {"build", "panic"}
  BY <1>2 DEF AsksForHost
<1>3. CASE RefusedInv
  <2>1. at # "error" /\ at # "named"
    BY <1>3 DEF RefusedInv
  <2>2. Size = 12
    <3>1. 0 \in Byte
      BY DEF Byte
    <3>2. Len(QueryHeader(0)) = 12
      BY <3>1, HeaderLayout
    <3> QED BY <1>3, <3>2, Zenon DEF RefusedInv, Size
  <2> HIDE DEF Size
  <2>3. ~(Size > HeaderSize)
    BY <2>2 DEF HeaderSize
  <2> QED BY <2>1, <2>3, Zenon DEF AsksForHost
<1>4. CASE AskedInv
  <2>1. Asked /\ Writable
    BY <1>4, Zenon DEF AskedInv
  <2>2. at # "error" /\ (at = "done" => offset = Size) /\ (at = "named" => name.start = 12)
    BY <1>4 DEF AskedInv, OnHost
  <2>3. Len(host) <= Size
    <3>1. PICK n \in Nat : n = Len(host) /\ n \in 0 .. Len(host)
      BY <2>1 DEF Writable
    <3>2. PICK l \in Nat : l = Len(Labels(n))
      BY <2>1, <3>1, LabelsLong
    <3>3. n <= l
      BY <2>1, <3>1, <3>2, LabelsLong
    <3>4. Size = l + 17
      BY <2>1, <3>1, <3>2, QueryLayout
    <3> QED BY <3>1, <3>3, <3>4
  <2>4. \A k \in 1 .. Len(host) : host[k] # <<>>
    BY <1>1, <2>1 DEF ProperHosts, Writable
  <2>5. LabelsAt[Size][12] = host
    BY <1>1, <2>1, <2>3, <2>4, QueryReads
  <2> QED BY <2>2, <2>5, Zenon DEF AsksForHost
<1> QED BY <1>2, <1>3, <1>4, Zenon DEF AskInv

\* The query that lookup_on sends for a host, whatever its labels and however
\* many, is parsed again to that host and to its last byte; a host that does
\* not fit is not asked for.
THEOREM QueryAsksForHost ==
  ASSUME ProperHosts
  PROVE  PSpec => []AsksForHost
<1>1. PInit => AskInv
  BY DEF PInit, AskInv
<1>2. PInv /\ AskInv /\ [PNext]_pvars => AskInv'
  BY AskInvStep
<1>3. PInv /\ AskInv => AsksForHost
  BY AskInvAsks
<1> QED BY <1>1, <1>2, <1>3, PInvAlways, PTL DEF PSpec

=============================================================================
