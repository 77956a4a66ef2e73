----------------------------- MODULE WireCodec -----------------------------
(***************************************************************************)
(* The wire codec of dns_io.c: the buffer and its primitive reads and      *)
(* writes, domain names with compression through the buffer's known-name  *)
(* table, questions, resource records and whole packets.                  *)
(*                                                                         *)
(* Bytes are integers 0..255 and offsets are 0-based, as in buffer->pos.  *)
(* On this side a name is the sequence of its labels and a label the      *)
(* sequence of its bytes; the dotted C string the decoder builds is that  *)
(* sequence with a '.' after each label, the last one then overwritten by *)
(* the terminator (labels hold neither '.' nor 0).  Every buffer the      *)
(* programs decode from or encode into is zero-filled (memset in          *)
(* DNS_buffer_create, "= {0}" arrays in dns_network.c), so a byte past    *)
(* what was written or received reads as 0.                                *)
(*                                                                         *)
(* A failing step makes the C function return false at once               *)
(* (ENSURE_SUCCESS); here it sets the sticky flag err, after which every  *)
(* operation leaves the buffer alone.  Bytes written before the failure   *)
(* stay, and pos with them, as in the code.  The flag under records a     *)
(* decoded name that produced no character, for which                    *)
(* DNS_buffer_read_DNS_name writes one byte before its output.            *)
(***************************************************************************)
EXTENDS DnsZone, Bitwise

CLASS_IN == 1

\* known_names_find_pos's "not found".
NotFound == 65535

\* known_names_find_name's NULL (a stored name is never empty).
NoName == <<>>

\* A buffer over the bytes bytes with capacity cap, position 0 and no
\* known names: DNS_buffer_create (bytes empty) and DNS_buffer_from_ptr.
Buffer(bytes, cap) ==
    [ptr |-> bytes, cap |-> cap, pos |-> 0, known |-> <<>>, err |-> FALSE, under |-> FALSE]

Byte(b, o) == IF o < Len(b.ptr) THEN b.ptr[o + 1] ELSE 0

CheckCapacity(b, size) == b.pos + size <= b.cap

Zeros(n) == [i \in 1..n |-> 0]

\* The byte array p with s stored from offset o on.
Store(p, o, s) ==
    LET q == IF o + Len(s) > Len(p) THEN p \o Zeros(o + Len(s) - Len(p)) ELSE p
    IN  [i \in DOMAIN q |-> IF i > o /\ i <= o + Len(s) THEN s[i - o] ELSE q[i]]

Fail(b) == [b EXCEPT !.err = TRUE]

\* A write of fixed width (DNS_buffer_write_u8/u16/u32, the header
\* memcpy): capacity is checked for the whole width first.
WriteAtomic(b, s) ==
    IF b.err THEN b
    ELSE IF ~CheckCapacity(b, Len(s)) THEN Fail(b)
    ELSE [b EXCEPT !.ptr = Store(@, b.pos, s), !.pos = @ + Len(s)]

\* A loop of DNS_buffer_write_u8 calls: the bytes that fit are written,
\* and the first that does not fit fails the buffer.
WriteEach(b, s) ==
    LET n  == IF b.cap - b.pos < Len(s) THEN b.cap - b.pos ELSE Len(s)
        b1 == [b EXCEPT !.ptr = Store(@, b.pos, SubSeq(s, 1, n)), !.pos = @ + n]
    IN  IF b.err THEN b ELSE IF n < Len(s) THEN Fail(b1) ELSE b1

\* A read of fixed width n (DNS_buffer_read_u8/u16/u32, the header memcpy).
Read(b, n) ==
    IF b.err \/ ~CheckCapacity(b, n)
    THEN [buf |-> Fail(b), val |-> Zeros(n)]
    ELSE [buf |-> [b EXCEPT !.pos = @ + n], val |-> [i \in 1..n |-> Byte(b, b.pos + i - 1)]]

\* Big-endian encodings (htons/htonl, the shifts of write_u16/u32).
U16(v) == <<(v \div 256) % 256, v % 256>>
U32(v) == <<(v \div 16777216) % 256, (v \div 65536) % 256, (v \div 256) % 256, v % 256>>
Num(s) == FoldLeft(LAMBDA acc, v : acc * 256 + v, 0, s)

-----------------------------------------------------------------------------
(* The known-name table.                                                   *)

KnownAppendSkip(b, name, pos) == b
KnownAppend(b, name, pos) == [b EXCEPT !.known = Append(@, [name |-> name, pos |-> pos])]

\* known_names_find_pos: the position of the first entry equal to s.
FindPos(b, s) ==
    LET m == SelectInSeq(b.known, LAMBDA e : e.name = s)
    IN  IF m = 0 THEN NotFound ELSE b.known[m].pos

\* known_names_find_name: the name of the first entry at position p.
FindName(b, p) ==
    LET m == SelectInSeq(b.known, LAMBDA e : e.pos = p)
    IN  IF m = 0 THEN NoName ELSE b.known[m].name

\* The labels of a stored wire name (length bytes and label bytes).
RECURSIVE WireLabels(_)
WireLabels(w) ==
    IF w = <<>> THEN <<>>
    ELSE <<SubSeq(w, 2, 1 + w[1])>> \o WireLabels(SubSeq(w, 2 + w[1], Len(w)))

-----------------------------------------------------------------------------
(* Names: DNS_buffer_write_DNS_name.                                       *)

\* The uncompressed wire form built in converted_name: every label after
\* its length cast to uint8, then the zero byte of the fresh buffer.
Converted(name) ==
    FlattenSeq([i \in DOMAIN name |-> <<Len(name[i]) % 256>> \o name[i]]) \o <<0>>

\* strlen of the dotted name.
StrLen(name) ==
    IF name = <<>> THEN 0
    ELSE FoldLeft(LAMBDA acc, l : acc + Len(l) + 1, 0, name) - 1

\* The C string starting at offset k of s (strcmp and the known-name copy
\* stop at the first 0).
CStr(s, k) ==
    LET zeros == {j \in (k + 1)..Len(s) : s[j] = 0}
    IN  SubSeq(s, k + 1, IF zeros = {} THEN Len(s) ELSE Min(zeros) - 1)

\* The do-while loop over converted: a suffix already in the table is
\* written as a pointer and ends the name (that u16 write is unchecked but
\* cannot fail, the capacity of the whole name having been checked);
\* otherwise the suffix is recorded at the current position and its first
\* label written.
\* A compression pointer to offset p: 0xC000 | p as a u16.
PointerNoFlag(p) == U16(p)
Pointer(p) == U16(p | 49152)

RECURSIVE WriteLabels(_, _, _), WriteSuffix(_, _, _, _)
WriteLabels(b, conv, k) == IF b.err THEN b ELSE WriteSuffix(b, conv, k, FindPos(b, CStr(conv, k)))

\* The suffix of conv at k, found at offset find or not (NotFound).
WriteSuffix(b, conv, k, find) ==
    CASE find # NotFound -> WriteAtomic(b, Pointer(find))
      [] conv[k + 1] = 0 -> WriteAtomic(b, <<0>>)
      [] OTHER ->
            WriteLabels(WriteEach(WriteAtomic(KnownAppend(b, CStr(conv, k), b.pos), <<conv[k + 1]>>),
                                  SubSeq(conv, k + 2, k + 1 + conv[k + 1])),
                        conv, k + 1 + conv[k + 1])

WriteDNSName(b, name) ==
    IF b.err THEN b
    ELSE IF ~CheckCapacity(b, StrLen(name) + 2) THEN Fail(b)
    ELSE WriteLabels(b, Converted(name), 0)

-----------------------------------------------------------------------------
(* Names: DNS_buffer_read_DNS_name.                                        *)

\* known_names_append on the decode side: the wire bytes from offset o up
\* to the terminating zero, a pointer on the way replaced by the name the
\* table holds for its target (here the offset is computed with << 8).
RECURSIVE CopyWire(_, _)
CopyWire(b, o) ==
    LET tag == Byte(b, o) IN
    CASE tag = 0         -> <<>>
      [] tag \div 64 = 3 -> FindName(b, (tag % 64) * 256 + Byte(b, o + 1))
      [] OTHER           -> <<tag>> \o [i \in 1..tag |-> Byte(b, o + i)] \o CopyWire(b, o + 1 + tag)

\* A pointer whose second byte r2 was read: the name found at the
\* offset ((tag & 0x3F) << 4) | byte, or nothing.
PointerName(r2, tag, labels) ==
    [buf |-> r2.buf,
     labels |-> IF r2.buf.err THEN labels
                ELSE labels \o WireLabels(FindName(r2.buf, ((tag % 64) * 16) | r2.val[1]))]

\* The decode loop: a label (any tag below 0xC0 but 0) is recorded in the
\* table at its offset and appended; a pointer's target offset is computed
\* as ((tag & 0x3F) << 4) | next byte, the name found there (if any) is
\* appended and the loop ends; a zero tag ends it.  r is the tag read.
RECURSIVE ReadLabels(_, _), ReadLabelsAt(_, _), ReadLabel(_, _, _)
ReadLabels(b, labels) == ReadLabelsAt(Read(b, 1), labels)

ReadLabelsAt(r, labels) ==
    CASE r.buf.err -> [buf |-> r.buf, labels |-> labels]
      [] r.val[1] # 0 /\ r.val[1] \div 64 # 3 -> ReadLabel(r.buf, r.val[1], labels)
      [] r.val[1] \div 64 = 3 -> PointerName(Read(r.buf, 1), r.val[1], labels)
      [] OTHER -> [buf |-> r.buf, labels |-> labels]

\* A label of length tag at b's position.
ReadLabel(b, tag, labels) ==
    IF ~CheckCapacity(b, tag) THEN [buf |-> Fail(b), labels |-> labels]
    ELSE ReadLabels([KnownAppend(b, CopyWire(b, b.pos - 1), b.pos - 1) EXCEPT !.pos = @ + tag],
                    Append(labels, [i \in 1..tag |-> Byte(b, b.pos + i - 1)]))

\* The name of a decoded name: "*(name - 1) = '\0'" underflows when it is
\* empty.
NameOf(d) ==
    [buf  |-> IF ~d.buf.err /\ d.labels = <<>> THEN [d.buf EXCEPT !.under = TRUE] ELSE d.buf,
     name |-> d.labels]

ReadDNSName(b) == NameOf(ReadLabels(b, <<>>))

-----------------------------------------------------------------------------
(* Questions, resource records, packets.                                   *)

\* A wire-side resource record: data is a name for NS, CNAME, PTR and MX
\* (with the preference apart), and one 4-byte label for A.
WireRR(n, t, pref, d) == [name |-> n, type |-> t, class |-> CLASS_IN, ttl |-> 60, pref |-> pref, data |-> d]

WriteQuery(b, q) ==
    WriteAtomic(WriteAtomic(WriteDNSName(b, q.name), U16(q.type)), U16(q.class))

\* One fixed-width field read behind those in r.
ReadField(r, n) == LET x == Read(r.buf, n) IN [buf |-> x.buf, vals |-> Append(r.vals, Num(x.val))]

ReadQueryOf(name, h) == [buf |-> h.buf, q |-> [name |-> name, type |-> h.vals[1], class |-> h.vals[2]]]

ReadQuery(b) == LET n == ReadDNSName(b) IN ReadQueryOf(n.name, ReadField(ReadField([buf |-> n.buf, vals |-> <<>>], 2), 2))

\* DNS_buffer_write_RR: the length field is skipped (pos += 2, unchecked),
\* the data written, and the length written back behind it.
WriteRRData(b, rr) ==
    CASE rr.type = TYPE_A  -> WriteAtomic(b, rr.data[1])
      [] rr.type = TYPE_MX -> WriteDNSName(WriteAtomic(b, U16(rr.pref)), rr.data)
      [] OTHER             -> WriteDNSName(b, rr.data)

Backpatch(pos, b) ==
    IF b.err THEN b ELSE [b EXCEPT !.ptr = Store(@, pos, U16((b.pos - pos - 2) % 65536))]

WriteRRBody(b, rr) ==
    IF b.err THEN b ELSE Backpatch(b.pos, WriteRRData([b EXCEPT !.pos = @ + 2], rr))

WriteRR(b, rr) ==
    WriteRRBody(WriteAtomic(WriteAtomic(WriteAtomic(WriteDNSName(b, rr.name),
                    U16(rr.type)), U16(rr.class)), U32(rr.ttl)), rr)

\* DNS_buffer_read_RR: an A record whose length is not 4 takes its data
\* from the start of the message; a data part read short or long is
\* skipped to the declared length.

NameData(m) == [buf |-> m.buf, pref |-> 0, data |-> m.name]
MxData(r) == [NameData(ReadDNSName(r.buf)) EXCEPT !.pref = Num(r.val)]

ReadRRData(b, type, len) ==
    CASE type = TYPE_A /\ len # 4 ->
            [buf |-> [b EXCEPT !.pos = @ + len], pref |-> 0,
             data |-> <<[i \in 1..len |-> Byte(b, i - 1)]>>]
      [] type = TYPE_A  -> LET r == Read(b, 4) IN [buf |-> r.buf, pref |-> 0, data |-> <<r.val>>]
      [] type = TYPE_MX -> MxData(Read(b, 2))
      [] OTHER          -> NameData(ReadDNSName(b))

\* h: the buffer after the fixed fields, and their values type, class,
\* ttl, length; d: the data read behind them.
ReadRREnd(name, h, d) ==
    LET len == h.vals[4]
        rr  == [name |-> name, type |-> h.vals[1], class |-> h.vals[2], ttl |-> h.vals[3],
                pref |-> d.pref, data |-> d.data]
    IN  CASE h.buf.err -> [buf |-> h.buf, rr |-> rr]
          [] ~CheckCapacity(h.buf, len) -> [buf |-> Fail(h.buf), rr |-> rr]
          [] d.buf.err -> [buf |-> d.buf, rr |-> rr]
          [] OTHER -> [buf |-> [d.buf EXCEPT !.pos = h.buf.pos + len], rr |-> rr]

ReadRRFields(name, h) == ReadRREnd(name, h, ReadRRData(h.buf, h.vals[1], h.vals[4]))

ReadRRNamed(n) ==
    ReadRRFields(n.name, ReadField(ReadField(ReadField(ReadField([buf |-> n.buf, vals |-> <<>>], 2), 2), 4), 2))

ReadRR(b) == ReadRRNamed(ReadDNSName(b))

\* A packet: the header fields kept (id, qr, rcode) and the four sections;
\* the header counts are the section lengths (every append in dns_query.c
\* increments them).
HeaderBytes(p) ==
    U16(p.id) \o <<p.qr * 128, p.rcode>> \o U16(Len(p.questions)) \o U16(Len(p.answers))
    \o U16(Len(p.authorities)) \o U16(Len(p.additionals))

\* The items of one section in order (each ENSURE_SUCCESS returns at the
\* first failure, which the sticky err flag stands for).
RECURSIVE WriteQueries(_, _)
WriteQueries(b, qs) == IF qs = <<>> THEN b ELSE WriteQueries(WriteQuery(b, Head(qs)), Tail(qs))

RECURSIVE WriteRRs(_, _)
WriteRRs(b, rrs) == IF rrs = <<>> THEN b ELSE WriteRRs(WriteRR(b, Head(rrs)), Tail(rrs))

WritePacket(b, p) ==
    WriteRRs(WriteRRs(WriteRRs(WriteQueries(WriteAtomic(b, HeaderBytes(p)), p.questions),
        p.answers), p.authorities), p.additionals)

\* n reads of one section, stopping at the first failure.
RECURSIVE ReadQueries(_, _, _), NextQuery(_, _, _)
ReadQueries(b, n, acc) ==
    IF n = 0 \/ b.err THEN [buf |-> b, items |-> acc] ELSE NextQuery(ReadQuery(b), n, acc)
NextQuery(r, n, acc) == ReadQueries(r.buf, n - 1, Append(acc, r.q))

RECURSIVE ReadRRs(_, _, _), NextRR(_, _, _)
ReadRRs(b, n, acc) ==
    IF n = 0 \/ b.err THEN [buf |-> b, items |-> acc] ELSE NextRR(ReadRR(b), n, acc)
NextRR(r, n, acc) == ReadRRs(r.buf, n - 1, Append(acc, r.rr))

\* One more section read behind those in r.
AddSection(r, x) == [buf |-> x.buf, secs |-> Append(r.secs, x.items)]
QuerySection(r, n) == AddSection(r, ReadQueries(r.buf, n, <<>>))
RRSection(r, n) == AddSection(r, ReadRRs(r.buf, n, <<>>))

\* The four sections in order, counts[k] items in the k-th.
ReadSections(b, counts) ==
    RRSection(RRSection(RRSection(QuerySection([buf |-> b, secs |-> <<>>], counts[1]),
        counts[2]), counts[3]), counts[4])

\* Mutant: the header's flags byte is not shifted.
PacketFromNoShift(v, s) ==
    [ok  |-> ~s.buf.err,
     buf |-> s.buf,
     pkt |-> [id |-> Num(SubSeq(v, 1, 2)), qr |-> v[3], rcode |-> v[4] % 16,
              questions |-> s.secs[1], answers |-> s.secs[2],
              authorities |-> s.secs[3], additionals |-> s.secs[4]]]

\* The packet from the header bytes v and the sections s read behind them.
PacketFrom(v, s) ==
    [ok  |-> ~s.buf.err,
     buf |-> s.buf,
     pkt |-> [id |-> Num(SubSeq(v, 1, 2)), qr |-> v[3] \div 128, rcode |-> v[4] % 16,
              questions |-> s.secs[1], answers |-> s.secs[2],
              authorities |-> s.secs[3], additionals |-> s.secs[4]]]

PacketOf(h) ==
    PacketFrom(h.val, ReadSections(h.buf, [k \in 1..4 |-> Num(SubSeq(h.val, 2 * k + 3, 2 * k + 4))]))

\* DNS_buffer_read_packet: the header, then as many questions and records
\* as its counts say.  ok is its return value.
ReadPacket(b) == PacketOf(Read(b, 12))

=============================================================================
