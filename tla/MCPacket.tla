------------------------------ MODULE MCPacket ------------------------------
(***************************************************************************)
(* Packets and hosts for TLC: every short name over a few bytes, packets   *)
(* encoded from small messages, the same packets cut short, and hosts      *)
(* around the limits of the builder.                                       *)
(***************************************************************************)
EXTENDS PacketProps

CONSTANTS
    NameBytes,   \* bytes that the exhaustive names are made of
    NameLength   \* bound: their longest length

SeqsUpTo(S, n) == UNION {[1 .. m -> S] : m \in 0 .. n}

\* A header with these counts.
HeaderOf(q, an, ns, ar) == <<0, 0, 129, 128, 0, q, 0, an, 0, ns, 0, ar>>

TypeAndClass(typ) == <<0, typ, 0, 1>>

\* One question; its name is all there is, or is followed by type and class.
NamePackets ==
    {[data |-> HeaderOf(1, 0, 0, 0) \o n \o tail, means |-> <<"any">>] :
       n \in SeqsUpTo(NameBytes, NameLength), tail \in {<<>>, TypeAndClass(A)}}

-----------------------------------------------------------------------------
(* Encoding messages.  The question is for "x", at byte 12.                *)

Question == <<1, 120, 0>> \o TypeAndClass(A)
Names == {<<192, 12>>, <<1, 121, 192, 12>>, <<0>>}

\* One piece of record data of each kind.
DataOf(typ) ==
    CASE typ = A -> <<10, 0, 0, 1>>
      [] typ = AAAA -> [i \in 1 .. 16 |-> i]
      [] typ \in NameTypes -> <<192, 12>>
      [] typ = MX -> <<0, 1, 1, 122, 192, 12>>
      [] typ = SRV -> <<0, 1, 0, 1, 0, 80, 192, 12>>
      [] typ = SOA -> <<192, 12, 1, 122, 0>> \o [i \in 1 .. 20 |-> 0]
      [] typ = TXT -> <<1, 118, 2, 61, 62>>
      [] OTHER -> <<9>>

RecordOf(owner, unique, typ) ==
    owner \o <<0, typ, IF unique THEN 128 ELSE 0, 1, 0, 0, 1, 0, 0, Len(DataOf(typ))>>
          \o DataOf(typ)

OptRecord == <<0, 0, OPT, 16, 0, 0, 0, 0, 0, 0, 2, 5, 6>>

AnswerTypes == {A, AAAA, 5, SOA, MX, TXT, SRV, 13}

\* The records that a section of the message has.
Messages == [owner : Names, unique : BOOLEAN, answers : SeqsUpTo(AnswerTypes, 2),
             ns : {<<>>, <<2>>}, additional : {<<>>, <<A>>, <<OPT>>, <<A, OPT>>, <<OPT, OPT>>}]

Section(m, types) ==
    FlattenSeq([i \in DOMAIN types |->
                  IF types[i] = OPT THEN OptRecord ELSE RecordOf(m.owner, m.unique, types[i])])

Encode(m) ==
    HeaderOf(1, Len(m.answers), Len(m.ns), Len(m.additional)) \o Question
      \o Section(m, m.answers) \o Section(m, m.ns) \o Section(m, m.additional)

Meaning(m) ==
    LET addresses == SelectSeq(m.answers, LAMBDA t : t \in {A, AAAA}) IN
    IF m.additional = <<OPT, OPT>> THEN <<"reject">>
    ELSE IF addresses = <<>> THEN <<"addr", NoAddr>>
    ELSE <<"addr", DataOf(Head(addresses))>>

WholePackets == {[data |-> Encode(m), means |-> Meaning(m)] : m \in Messages}

\* Messages with one or two answers, cut short at every byte.
CutPackets ==
    UNION {{[data |-> SubSeq(e, 1, n), means |-> <<"reject">>] : n \in 0 .. Len(e) - 1} :
           e \in {Encode(m) : m \in {x \in Messages : ~x.unique /\ x.ns = <<>>
                                                     /\ Len(x.answers) = 1}}}

\* One answer with this type, class and data.
Answer(typ, cls, d) ==
    HeaderOf(1, 1, 0, 0) \o Question
      \o <<192, 12, 0, typ, 0, cls, 0, 0, 1, 0, 0, Len(d)>> \o d

Zeros(n) == [i \in 1 .. n |-> 0]

\* Record data that is a byte short or long, an unknown type, an unknown
\* class, a name that runs out of its record data; the reserved bit.
BadPackets ==
    {[data |-> d, means |-> <<"reject">>] : d \in
       {Answer(A, 1, Zeros(n)) : n \in {0, 3, 5}}
         \cup {Answer(AAAA, 1, Zeros(n)) : n \in {15, 17}}
         \cup {Answer(MX, 1, Zeros(2)), Answer(SRV, 1, Zeros(6))}
         \cup {Answer(SOA, 1, Zeros(n)) : n \in {0, 1, 2, 21}}
         \cup {Answer(TXT, 1, d) : d \in {<<>>, <<1>>, <<0, 2, 65>>}}
         \cup {Answer(3, 1, <<>>), Answer(13, 5, <<>>), Answer(5, 1, <<1, 65>>),
               <<0, 0, 0, 64>> \o Zeros(8)}}

\* Text that is not ASCII, and may be UTF-8 or not.
TextPackets == {[data |-> Answer(TXT, 1, <<2, 195, 169>>), means |-> <<"any">>]}

MCInputs == {NamePackets, WholePackets, CutPackets, BadPackets, TextPackets}

-----------------------------------------------------------------------------
\* A label of n bytes.
Word(n) == [i \in 1 .. n |-> 97]

\* Hosts of one and two labels around the longest label, and hosts that fill
\* the buffer to its last bytes.
MCHosts ==
    {<<Word(n)>> : n \in {1, 61, 62, 63}}
      \cup {<<Word(m), Word(n)>> : m, n \in {1, 62, 63}}
      \cup {[i \in 1 .. 7 |-> Word(62)] \o <<Word(n)>> : n \in 48 .. 62}
      \cup {[i \in 1 .. 3 |-> Word(62)] \o <<Word(n)>> : n \in {50, 62}}
      \cup {[i \in 1 .. 4 |-> Word(62)] \o <<Word(1)>>}

=============================================================================
