------------------------------ MODULE DnsWire ------------------------------
(***************************************************************************)
(* A packet on its way between two nodes: DnsPacket::write measures it     *)
(* record by record, writes as many records as fit, and from_buffer reads  *)
(* them at the other end, which may pass them on in a packet of its own    *)
(* (src/src/dns/protocol.rs, src/src/dns/buffer.rs).                       *)
(*                                                                         *)
(* A buffer is a function from positions to what begins there: a label, a  *)
(* pointer, the end of a name, or the numbers and bytes of a record as one *)
(* cell.  Lengths are in bytes.                                            *)
(***************************************************************************)
EXTENDS Integers, Sequences, FiniteSets

CONSTANTS
    Packets,         \* the packets nodes make up
    LabelLen, Lower, \* of every label: bytes, and what to_lowercase makes of it
    BodyLen,         \* of every text or blob: bytes
    MaxHops          \* bound on how often a packet is passed on

Root == <<"">>  \* what split('.') makes of the empty name

HEADER == 12
META == 10             \* type, class, ttl and length
QUESTION_META == 4     \* type and class, which binary_len leaves out
BYTE_BUFFER == 512
POINTER_RANGE == 2^14
LABEL_RANGE == 2^6     \* lengths with one of the two highest bits are jumps

(* The transports: UDP without EDNS into a BytePacketBuffer, TCP into a    *)
(* StreamPacketBuffer.                                                     *)
Transports == {"udp", "tcp"}

max_size(transport) == IF transport = "udp" THEN 512 - 32 ELSE 65535

-----------------------------------------------------------------------------
(* Names are what split('.') can return.  Of a record, value stands for    *)
(* the ttl and the numbers, names for the names after them, and data, a    *)
(* body behind `prefix` bytes, is what TXT, TLSA and OPT carry.            *)
Labels == DOMAIN LabelLen

Names == Seq(Labels) \ {<<>>}

Types ==
    {"UNKNOWN", "A", "NS", "CNAME", "SOA", "PTR", "MX", "TXT", "AAAA", "SRV", "TLSA", "OPT"}

NameCount(type) ==
    CASE type \in {"NS", "CNAME", "PTR", "MX", "SRV"} -> 1 [] type = "SOA" -> 2 [] OTHER -> 0

Data == [body : DOMAIN BodyLen, prefix : Nat]

DnsRecord ==
    {r \in [type : Types, domain : Names, value : Nat, names : Seq(Names), data : Data] :
        Len(r.names) = NameCount(r.type)}

DnsQuestion == [name : Names, type : Types]

(* A code that ResultCode does not know is read as NOERROR.                *)
ResultCode == [NOERROR |-> 0, FORMERR |-> 1, SERVFAIL |-> 2, NXDOMAIN |-> 3, NOTIMP |-> 4, REFUSED |-> 5]

from_num(n) ==
    IF \E c \in DOMAIN ResultCode : ResultCode[c] = n
    THEN CHOOSE c \in DOMAIN ResultCode : ResultCode[c] = n
    ELSE "NOERROR"

Flags ==
    [recursion_desired : BOOLEAN, truncated_message : BOOLEAN, authoritative_answer : BOOLEAN,
     opcode : 0..15, response : BOOLEAN, rescode : DOMAIN ResultCode, checking_disabled : BOOLEAN,
     authed_data : BOOLEAN, z : BOOLEAN, recursion_available : BOOLEAN]

(* Nodes ask one question at a time.                                       *)
DnsPacket ==
    {p \in [flags : Flags, questions : Seq(DnsQuestion),
            answers : Seq(DnsRecord), authorities : Seq(DnsRecord), resources : Seq(DnsRecord)] :
        Len(p.questions) <= 1}

ASSUME WireAssumption ==
    /\ MaxHops \in Nat /\ Lower \in [Labels -> Labels]
    /\ \A l \in Labels : LabelLen[l] \in Nat
    /\ "" \in Labels /\ LabelLen[""] = 0 /\ Lower[""] = ""
    /\ "" \in DOMAIN BodyLen /\ \A b \in DOMAIN BodyLen : BodyLen[b] \in Nat
    /\ Packets \subseteq DnsPacket

VARIABLES
    transport, packet, hops,
    phase,         \* measure, header, write, read, done, failed, garbage
    next,          \* the record whose turn it is
    test_buffer, size, record_count,
    header,        \* counts, truncated_message
    buffer,
    pos, parsed    \* of the reader

measuring == <<test_buffer, size, record_count, header>>

vars == <<transport, packet, hops, phase, next, measuring, buffer, pos, parsed>>

-----------------------------------------------------------------------------
(* Buffers.                                                                *)
EmptyBuffer == [cells |-> <<>>, pos |-> 0, labels |-> <<>>]

End == [kind |-> "end"]

(* f with g written over it.                                               *)
Over(f, g) == [x \in DOMAIN f \cup DOMAIN g |-> IF x \in DOMAIN g THEN g[x] ELSE f[x]]

Put(b, cell, length) ==
    [cells |-> Over(b.cells, [p \in {b.pos} |-> cell]), pos |-> b.pos + length, labels |-> b.labels]

Suffix(name, i) == SubSeq(name, i, Len(name))

(* The position before each label, and after the last of them.             *)
Positions(start, name) ==
    LET at[i \in 0..Len(name)] == IF i = 0 THEN start ELSE at[i - 1] + 1 + LabelLen[name[i]]
    IN  at

Label(l) == IF LabelLen[l] = 0 THEN End ELSE [kind |-> "label", label |-> l]

(* Labels are written up to the longest suffix that is in the buffer       *)
(* already, and each suffix is remembered where it begins.                 *)
Known(b, name) == {i \in 1..Len(name) : Suffix(name, i) \in DOMAIN b.labels}

LabelsWritten(name, known) ==
    CHOOSE n \in 0..Len(name) : (n = Len(name) \/ n + 1 \in known) /\ \A i \in known : n < i

(* Mutant: a label is saved after its length has been written.             *)
MutantSavedLate(b, name, n, at) ==
    [cells |-> Over(b.cells, [p \in {at[i - 1] : i \in 1..n} |->
                                Label(name[CHOOSE i \in 1..n : at[i - 1] = p])]),
     pos |-> at[n],
     labels |-> Over(b.labels, [s \in {Suffix(name, i) : i \in 1..n} |-> at[Len(name) - Len(s)] + 1])]

(* Mutant: every label of a name is saved where the name begins.           *)
MutantSavedAtStart(b, name, n, at) ==
    [cells |-> Over(b.cells, [p \in {at[i - 1] : i \in 1..n} |->
                                Label(name[CHOOSE i \in 1..n : at[i - 1] = p])]),
     pos |-> at[n],
     labels |-> Over(b.labels, [s \in {Suffix(name, i) : i \in 1..n} |-> at[0]])]

WithLabels(b, name, n, at) ==
    [cells |-> Over(b.cells, [p \in {at[i - 1] : i \in 1..n} |->
                                Label(name[CHOOSE i \in 1..n : at[i - 1] = p])]),
     pos |-> at[n],
     labels |-> Over(b.labels, [s \in {Suffix(name, i) : i \in 1..n} |-> at[Len(name) - Len(s)]])]

write_qname(b, name) ==
    LET n == LabelsWritten(name, Known(b, name))
        written == WithLabels(b, name, n, Positions(b.pos, name))
    IN  IF n = Len(name) THEN Put(written, End, 1)
        ELSE Put(written, [kind |-> "pointer", to |-> b.labels[Suffix(name, n + 1)] % POINTER_RANGE], 2)

(* What begins at a position.  Behind the data a BytePacketBuffer has      *)
(* zeros up to its end; a stream has nothing.                              *)
Cell(b, p, t) ==
    IF p \in DOMAIN b.cells THEN b.cells[p]
    ELSE IF p < b.pos THEN [kind |-> "middle"]
    ELSE IF t = "udp" /\ p < BYTE_BUFFER THEN [kind |-> "zero"]
    ELSE [kind |-> "none"]

Outcome(kind) == IF kind = "none" THEN "failed" ELSE "garbage"

(* Labels are collected until the end of the name; the first jump fixes    *)
(* where reading goes on.  An entry of `loop` per round of the loop.  Of a *)
(* label's length one byte is written, whatever the length; that of a long *)
(* label is read as a jump or as the length of a shorter one.              *)
Loop(at, name, jumped, here, status) ==
    [at |-> at, name |-> name, jumped |-> jumped, pos |-> here, status |-> status]

PastLabel(s, l) == Loop(s.at + 1 + LabelLen[l], Append(s.name, Lower[l]), s.jumped, s.pos, "reading")

Jump(s, to) == Loop(to, s.name, TRUE, IF s.jumped THEN s.pos ELSE s.at + 2, "reading")

AtEnd(s) == Loop(s.at, s.name, s.jumped, IF s.jumped THEN s.pos ELSE s.at + 1, "ok")

Round(s, cell) ==
    IF s.status # "reading" THEN s
    ELSE CASE cell.kind = "label" /\ LabelLen[cell.label] < LABEL_RANGE -> PastLabel(s, cell.label)
           [] cell.kind = "pointer" -> Jump(s, cell.to)
           [] cell.kind \in {"end", "zero"} -> AtEnd(s)
           [] OTHER -> Loop(s.at, s.name, s.jumped, s.pos, Outcome(cell.kind))

Rounds(b) == Cardinality(DOMAIN b.cells) + 1

NameRead(s) ==
    [status |-> IF s.status = "reading" THEN "garbage" ELSE s.status,
     name |-> IF s.name = <<>> THEN Root ELSE s.name, pos |-> s.pos]

read_qname(b, start, t) ==
    LET loop[k \in 0..Rounds(b)] ==
            IF k = 0 THEN Loop(start, <<>>, FALSE, start, "reading")
            ELSE Round(loop[k - 1], Cell(b, loop[k - 1].at, t))
    IN  NameRead(loop[Rounds(b)])

-----------------------------------------------------------------------------
(* Records.                                                                *)
NoData == [body |-> "", prefix |-> 0]

DataLen(data) == BodyLen[data.body] + data.prefix

(* Bytes of numbers before and behind the names.                           *)
Fixed(type) ==
    CASE type = "A" -> 4 [] type = "AAAA" -> 16 [] type = "MX" -> 2 [] type = "SRV" -> 6
      [] type = "TLSA" -> 3 [] OTHER -> 0

Behind(type) == IF type = "SOA" THEN 20 ELSE 0

(* A TXT record is written with the length of its text before the text.    *)
Written(r) == IF r.type = "TXT" THEN [r EXCEPT !.data.prefix = @ + 1] ELSE r

(* Records of unknown types are left out.                                  *)
DnsRecord_write(b, r) ==
    LET w == Written(r)
        named == IF r.type = "OPT" THEN Put(b, End, 1) ELSE write_qname(b, r.domain)
        meta == [kind |-> "meta", type |-> r.type, value |-> r.value, data |-> w.data]
        filled == Put(named, meta, META + Fixed(r.type) + DataLen(w.data))
        full[i \in 0..Len(r.names)] ==
            IF i = 0 THEN filled ELSE write_qname(full[i - 1], r.names[i])
    IN  IF r.type = "UNKNOWN" THEN b
        ELSE [full[Len(r.names)] EXCEPT !.pos = @ + Behind(r.type)]

(* The reader takes the data as it comes, length byte and all, and refuses *)
(* in a BytePacketBuffer a range that reaches its last byte.  Of a text,   *)
(* from_utf8_lossy keeps what is UTF-8; a length byte of 128 or more       *)
(* before it is not, and becomes the three bytes of U+FFFD.                *)
from_utf8_lossy(type, data) ==
    IF type = "TXT" /\ (DataLen(data) - 1) % 256 >= 128 THEN [data EXCEPT !.prefix = @ + 2] ELSE data

ReadNames(b, start, n, t) ==
    LET read[i \in 0..n] == IF i = 0 THEN [status |-> "ok", pos |-> start]
                            ELSE read_qname(b, read[i - 1].pos, t)
    IN  read

Refused(meta, end, t) == meta.type \in {"TXT", "TLSA", "OPT"} /\ t = "udp" /\ end >= BYTE_BUFFER

RecordOf(domain, meta, names, n, t) ==
    IF Refused(meta, names[n].pos, t) THEN [status |-> "failed"]
    ELSE IF \E i \in 0..n : names[i].status # "ok"
    THEN [status |-> CHOOSE s \in {names[i].status : i \in 0..n} : s # "ok"]
    ELSE [status |-> "ok", pos |-> names[n].pos + Behind(meta.type),
          record |-> [type |-> meta.type, domain |-> domain.name, value |-> meta.value,
                      names |-> [i \in 1..n |-> names[i].name],
                      data |-> from_utf8_lossy(meta.type, meta.data)]]

(* Zeros are a record of type 0 with nothing in it.                        *)
MetaOf(cell) ==
    IF cell.kind = "zero" THEN [kind |-> "meta", type |-> "UNKNOWN", value |-> 0, data |-> NoData]
    ELSE cell

AfterName(b, domain, meta, t) ==
    IF domain.status # "ok" THEN [status |-> domain.status]
    ELSE IF meta.kind # "meta" THEN [status |-> Outcome(meta.kind)]
    ELSE RecordOf(domain, meta,
                  ReadNames(b, domain.pos + META + Fixed(meta.type) + DataLen(meta.data),
                            NameCount(meta.type), t),
                  NameCount(meta.type), t)

NameThen(b, domain, t) == AfterName(b, domain, MetaOf(Cell(b, domain.pos, t)), t)

DnsRecord_read(b, start, t) == NameThen(b, read_qname(b, start, t), t)

-----------------------------------------------------------------------------
(* Questions.                                                              *)
binary_len(q) == Positions(1, q.name)[Len(q.name)]

question_write(b, q) == Put(write_qname(b, q.name), [kind |-> "question", type |-> q.type], QUESTION_META)

QuestionOf(name, cell) ==
    IF name.status # "ok" THEN [status |-> name.status]
    ELSE IF cell.kind \notin {"question", "zero"} THEN [status |-> Outcome(cell.kind)]
    ELSE [status |-> "ok", pos |-> name.pos + QUESTION_META,
          questions |-> <<[name |-> name.name,
                           type |-> IF cell.kind = "zero" THEN "UNKNOWN" ELSE cell.type]>>]

question_read(b, start, t) ==
    LET name == read_qname(b, start, t)
    IN  QuestionOf(name, Cell(b, name.pos, t))

ReadQuestions(b, n, t) ==
    IF n = 0 THEN [status |-> "ok", pos |-> HEADER, questions |-> <<>>]
    ELSE question_read(b, HEADER, t)

WriteQuestion(b, p) == IF p.questions = <<>> THEN b ELSE question_write(b, p.questions[1])

(* Mutant: the header is not measured.                                     *)
MutantHeaderForgotten(p) == IF p.questions = <<>> THEN 0 ELSE binary_len(p.questions[1])

MeasuredQuestion(p) == HEADER + (IF p.questions = <<>> THEN 0 ELSE binary_len(p.questions[1]))

-----------------------------------------------------------------------------
(* The two bytes of flags.                                                 *)
NewFlags ==
    [recursion_desired |-> FALSE, truncated_message |-> FALSE, authoritative_answer |-> FALSE,
     opcode |-> 0, response |-> FALSE, rescode |-> "NOERROR", checking_disabled |-> FALSE,
     authed_data |-> FALSE, z |-> FALSE, recursion_available |-> FALSE]

Bit(flag, k) == IF flag THEN 2^k ELSE 0

IsSet(byte, k) == (byte \div 2^k) % 2 = 1

FlagBytes(f) ==
    <<Bit(f.recursion_desired, 0) + Bit(f.truncated_message, 1) + Bit(f.authoritative_answer, 2)
        + 8 * f.opcode + Bit(f.response, 7),
      ResultCode[f.rescode] + Bit(f.checking_disabled, 4) + Bit(f.authed_data, 5)
        + Bit(f.z, 6) + Bit(f.recursion_available, 7)>>

FlagsRead(a, b) ==
    [recursion_desired |-> IsSet(a, 0), truncated_message |-> IsSet(a, 1),
     authoritative_answer |-> IsSet(a, 2), opcode |-> (a \div 8) % 16, response |-> IsSet(a, 7),
     rescode |-> from_num(b % 16), checking_disabled |-> IsSet(b, 4),
     authed_data |-> IsSet(b, 5), z |-> IsSet(b, 6), recursion_available |-> IsSet(b, 7)]

(* execute_query: the header of a reply that is made of another.           *)
ReplyFlags(f) ==
    [recursion_desired |-> f.recursion_desired, truncated_message |-> FALSE,
     authoritative_answer |-> f.authoritative_answer, opcode |-> 0, response |-> TRUE,
     rescode |-> f.rescode, checking_disabled |-> FALSE, authed_data |-> FALSE, z |-> FALSE,
     recursion_available |-> TRUE]

-----------------------------------------------------------------------------
Records(p) == p.answers \o p.authorities \o p.resources

Section(p, i) ==
    IF i <= Len(p.answers) THEN "answers"
    ELSE IF i <= Len(p.answers) + Len(p.authorities) THEN "authorities" ELSE "resources"

NewHeader == [answers |-> 0, authorities |-> 0, resources |-> 0, truncated_message |-> FALSE]

(* A packet without records.                                               *)
Opened(flags, questions) ==
    [flags |-> flags, questions |-> questions, answers |-> <<>>, authorities |-> <<>>, resources |-> <<>>]

NoPacket == Opened(NewFlags, <<>>)

Count(h) == h.answers + h.authorities + h.resources

(* A packet about to be measured: its questions are.                       *)
Start(p) ==
    /\ packet' = p /\ phase' = "measure" /\ next' = 1
    /\ test_buffer' = WriteQuestion(EmptyBuffer, p) /\ size' = MeasuredQuestion(p)
    /\ record_count' = Len(Records(p))
    /\ header' = NewHeader /\ buffer' = EmptyBuffer /\ pos' = 0 /\ parsed' = NoPacket

Init ==
    /\ transport \in Transports /\ hops = 0
    /\ packet \in Packets /\ phase = "measure" /\ next = 1
    /\ test_buffer = WriteQuestion(EmptyBuffer, packet) /\ size = MeasuredQuestion(packet)
    /\ record_count = Len(Records(packet))
    /\ header = NewHeader /\ buffer = EmptyBuffer /\ pos = 0 /\ parsed = NoPacket

(* The first pass of DnsPacket::write: a record that fits is counted, the  *)
(* first that does not ends the packet.                                    *)
(* Mutant: the record that does not fit is counted as well.                *)
MutantCountsTheLast(after, new) ==
    LET fits == new <= max_size(transport)
    IN  /\ test_buffer' = after /\ size' = new
        /\ record_count' = IF fits THEN record_count ELSE next - 1
        /\ header' = [header EXCEPT ![Section(packet, next)] = @ + 1, !.truncated_message = ~fits]
        /\ next' = IF fits THEN next + 1 ELSE next
        /\ phase' = IF fits THEN "measure" ELSE "header"

Measured(after, new) ==
    LET fits == new <= max_size(transport)
    IN  /\ test_buffer' = after /\ size' = new
        /\ record_count' = IF fits THEN record_count ELSE next - 1
        /\ header' = IF fits THEN [header EXCEPT ![Section(packet, next)] = @ + 1]
                     ELSE [header EXCEPT !.truncated_message = TRUE]
        /\ next' = IF fits THEN next + 1 ELSE next
        /\ phase' = IF fits THEN "measure" ELSE "header"

MeasureRecord ==
    /\ phase = "measure" /\ next <= Len(Records(packet))
    /\ \E after \in {DnsRecord_write(test_buffer, Records(packet)[next])} :
          Measured(after, size + after.pos - test_buffer.pos)
    /\ UNCHANGED <<transport, packet, hops, buffer, pos, parsed>>

WriteHeader ==
    /\ phase = "header" \/ (phase = "measure" /\ next > Len(Records(packet)))
    /\ LET flags == [packet.flags EXCEPT !.truncated_message = @ \/ header.truncated_message]
           cell == [kind |-> "header", flags |-> FlagBytes(flags)]
       IN  buffer' = WriteQuestion(Put(EmptyBuffer, cell, HEADER), packet)
    /\ phase' = "write" /\ next' = 1
    /\ UNCHANGED <<transport, packet, hops, measuring, pos, parsed>>

WriteRecord ==
    /\ phase = "write" /\ next <= record_count
    /\ buffer' = DnsRecord_write(buffer, Records(packet)[next])
    /\ next' = next + 1
    /\ UNCHANGED <<transport, packet, hops, phase, measuring, pos, parsed>>

(* The other end: header and question, then one record after the other, as *)
(* many of each section as the header says.                                *)
ReadHeader ==
    /\ phase = "write" /\ next > record_count
    /\ \E q \in {ReadQuestions(buffer, Len(packet.questions), transport)} :
           IF q.status = "ok"
           THEN /\ phase' = "read" /\ next' = 1 /\ pos' = q.pos
                /\ parsed' = Opened(FlagsRead(buffer.cells[0].flags[1], buffer.cells[0].flags[2]),
                                    q.questions)
           ELSE /\ phase' = q.status
                /\ UNCHANGED <<next, pos, parsed>>
    /\ UNCHANGED <<transport, packet, hops, measuring, buffer>>

SectionRead(p) ==
    IF Len(p.answers) < header.answers THEN "answers"
    ELSE IF Len(p.authorities) < header.authorities THEN "authorities" ELSE "resources"

ReadRecord ==
    /\ phase = "read" /\ next <= Count(header)
    /\ \E r \in {DnsRecord_read(buffer, pos, transport)} :
           IF r.status = "ok"
           THEN /\ parsed' = [parsed EXCEPT ![SectionRead(parsed)] = Append(@, r.record)]
                /\ next' = next + 1 /\ pos' = r.pos /\ phase' = "read"
           ELSE /\ phase' = r.status
                /\ UNCHANGED <<next, pos, parsed>>
    /\ UNCHANGED <<transport, packet, hops, measuring, buffer>>

(* A record that the section of a reply contains is not pushed again.      *)
Pushed(section, r) == IF \E i \in DOMAIN section : section[i] = r THEN section ELSE Append(section, r)

Distinct(section) ==
    LET kept[i \in 0..Len(section)] == IF i = 0 THEN <<>> ELSE Pushed(kept[i - 1], section[i])
    IN  kept[Len(section)]

Reply(p) ==
    [flags |-> ReplyFlags(p.flags), questions |-> p.questions, answers |-> Distinct(p.answers),
     authorities |-> Distinct(p.authorities), resources |-> Distinct(p.resources)]

(* What has been read goes into a reply of the node that read it.          *)
PassOn ==
    /\ phase = "read" /\ next > Count(header) /\ hops < MaxHops
    /\ hops' = hops + 1
    /\ Start(Reply(parsed))
    /\ UNCHANGED transport

Next == MeasureRecord \/ WriteHeader \/ WriteRecord \/ ReadHeader \/ ReadRecord \/ PassOn

Spec == Init /\ [][Next]_vars

-----------------------------------------------------------------------------
AllRead == phase = "read" /\ next > Count(header)

Named(name) == \A i \in DOMAIN name : LabelLen[name[i]] \in 1..(LABEL_RANGE - 1)

(* Packets of known types whose names have no empty label and none of 64   *)
(* bytes or more.  An OPT record has the root's name, which is written as  *)
(* it should be.                                                           *)
Clean(p) ==
    /\ \A i \in DOMAIN p.questions : Named(p.questions[i].name)
    /\ \A i \in DOMAIN Records(p) :
          LET r == Records(p)[i]
          IN  /\ r.type # "UNKNOWN"
              /\ IF r.type = "OPT" THEN r.domain = Root ELSE Named(r.domain)
              /\ \A j \in DOMAIN r.names : Named(r.names[j])

Lowered(name) == [i \in DOMAIN name |-> Lower[name[i]]]

(* What a reader makes of a record: names in lower case, and before the    *)
(* text of a TXT record a character more, of one byte or of three.         *)
Longer(data) == IF DataLen(data) % 256 < 128 THEN 1 ELSE 3

AsRead(r) ==
    [type |-> r.type, domain |-> Lowered(r.domain), value |-> r.value,
     names |-> [i \in DOMAIN r.names |-> Lowered(r.names[i])],
     data |-> IF r.type = "TXT" THEN [r.data EXCEPT !.prefix = @ + Longer(r.data)] ELSE r.data]

Taken(p, section) == [i \in 1..header[section] |-> AsRead(p[section][i])]

(* What a node writes, another one reads: whatever names are written as    *)
(* pointers to other names, the records that fit arrive in their sections, *)
(* in order and, but for what AsRead says, as they were (DnsPacket::write, *)
(* from_buffer), and every flag of the header, that of a packet cut short  *)
(* included.  For packets that end before the range of a pointer does; a   *)
(* question alone, which is not measured, has to fit into its datagram.    *)
WhatIsWrittenIsRead ==
    /\ Clean(packet) /\ buffer.pos <= POINTER_RANGE
    /\ transport = "udp" /\ record_count = 0 => buffer.pos <= BYTE_BUFFER
    =>
        /\ phase \notin {"failed", "garbage"}
        /\ AllRead =>
              /\ parsed.flags =
                    [packet.flags EXCEPT !.truncated_message = @ \/ header.truncated_message]
              /\ parsed.questions = [i \in DOMAIN packet.questions |->
                    [packet.questions[i] EXCEPT !.name = Lowered(@)]]
              /\ \A section \in {"answers", "authorities", "resources"} :
                    parsed[section] = Taken(packet, section)

(* The packet that is sent, unless it is a question only, is no longer     *)
(* than the limit and the four bytes of the question that binary_len       *)
(* leaves out, although the limit is checked against another buffer than   *)
(* the one that is sent; and nothing is cut off that would have fitted.    *)
CutToSize ==
    phase = "write" /\ next > record_count =>
        LET rest == Len(packet.questions) * QUESTION_META
        IN  /\ record_count = 0 \/ buffer.pos - rest <= max_size(transport)
            /\ header.truncated_message <=> record_count < Len(Records(packet))
            /\ header.truncated_message =>
                  DnsRecord_write(buffer, Records(packet)[record_count + 1]).pos - rest
                    > max_size(transport)

(* A pointer leads to an earlier place, and within the range of a pointer  *)
(* to one where a label begins, so that a name that begins there ends      *)
(* (write_qname, save_label).                                              *)
PointersGoBack ==
    \A p \in DOMAIN buffer.cells : buffer.cells[p].kind = "pointer" =>
        /\ buffer.cells[p].to < p
        /\ p < POINTER_RANGE =>
              Cell(buffer, buffer.cells[p].to, transport).kind \in {"label", "end"}

(* Every record a reader of the packet is told of is there, unless its     *)
(* type is unknown: those are counted and not written.                     *)
CountsTellWhatFollows ==
    phase = "write" /\ next > record_count =>
        LET skipped == {i \in 1..record_count : Records(packet)[i].type = "UNKNOWN"}
            present == {p \in DOMAIN buffer.cells : buffer.cells[p].kind = "meta"}
        IN  /\ Cardinality(present) + Cardinality(skipped) = Count(header)
            /\ header.answers <= Len(packet.answers)
            /\ header.authorities > 0 => header.answers = Len(packet.answers)
            /\ header.resources > 0 => header.authorities = Len(packet.authorities)
=============================================================================
