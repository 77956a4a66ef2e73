----------------------------- MODULE Transport -----------------------------
(***************************************************************************)
(* One request/reply exchange through the wire codec (dns_network.c).     *)
(*                                                                         *)
(* UDP: the resolver's DNS_network_send_query_udp encodes a request into  *)
(* a BUFFER_SIZE buffer and sends what was written; a role's              *)
(* DNS_network_handle_query_udp decodes the datagram over its length,     *)
(* answers with DNS_query_create_response (or FORMERR) and sends what the *)
(* encoder wrote; the resolver decodes the reply over its whole           *)
(* BUFFER_SIZE receive buffer.                                             *)
(*                                                                         *)
(* TCP: the stub's DNS_network_send_query_tcp and the local server's      *)
(* DNS_network_handle_query_tcp frame each message with a 2-byte length,  *)
(* and each side reads it with a single recv, which may return any        *)
(* non-empty prefix of what the peer sent (the client's recv may return 0 *)
(* as well).  The server decodes over what it received; the client over   *)
(* its whole buffer.                                                       *)
(*                                                                         *)
(* The local server process first sets up its listening socket; when      *)
(* socket, bind or listen fails, DNS_server_start_local returns and the   *)
(* process ends, and every later connect of the stub is refused.          *)
(***************************************************************************)
EXTENDS Responder, WireCodec, Client

CONSTANTS
    Servers,      \* the authoritative roles
    Zone,         \* Zone[s]: the zone table of role s
    LocalZone,    \* the tables the local server's iterative path ends in
    Questions,    \* questions the resolver asks a role
    Commands,     \* dns_client command lines: [arg, type] (argv[1], argv[2])
    Ids,          \* values the never-written request id can have
    LabelBytes,   \* the bytes of each label string
    AddrBytes,    \* the 4 bytes inet_addr gives each dotted quad
    MxPref,       \* the preference in the MX rows' "pref,name" data
    BufferSize    \* BUFFER_SIZE

VARIABLES
    chan,       \* "udp" (to role srvRole) or "tcp" (to the local server)
    stage,      \* "idle", "request" (sent), "reply" (answered), "done"
    srvRole,    \* the role a UDP request is sent to
    req,        \* the request packet the client built (wire form)
    reqWire,    \* the bytes sent for it (with the length for TCP)
    srv,        \* the server's decoding: [ok, pkt, under, full]
    reply,      \* the reply packet the server built (wire form)
    replyWire,  \* the bytes sent for it
    cli,        \* the client's decoding of the reply
    cmd,        \* the dns_client command line of a TCP exchange
    outcome,    \* which report dns_client's main ends in
    local       \* the local server process: "down" (not started yet),
                \* "listening" (in its accept loop) or "exited"

vars == <<chan, stage, srvRole, req, reqWire, srv, reply, replyWire, cli, cmd, outcome, local>>

-----------------------------------------------------------------------------
(* Between the string names of the zone tables and the byte names of the  *)
(* codec.                                                                  *)

ToWireName(n) == [i \in DOMAIN n |-> LabelBytes[n[i]]]

\* The label string with these bytes; "?" for bytes no table knows, which
\* no lookup matches.
ToStrLabel(l) ==
    IF \E s \in DOMAIN LabelBytes : LabelBytes[s] = l
    THEN CHOOSE s \in DOMAIN LabelBytes : LabelBytes[s] = l
    ELSE "?"

ToWireRR(r) ==
    WireRR(ToWireName(r.name), r.type,
           IF r.type = TYPE_MX THEN MxPref ELSE 0,
           IF r.type = TYPE_A THEN <<AddrBytes[r.data[1]]>> ELSE ToWireName(r.data))

ToWirePacket(p, qr) ==
    LET rrs(s) == [i \in DOMAIN s |-> ToWireRR(s[i])]
    IN  [id |-> p.id, qr |-> qr, rcode |-> p.rcode,
         questions |-> [i \in DOMAIN p.questions |->
                          [name |-> ToWireName(p.questions[i].name),
                           type |-> p.questions[i].type, class |-> CLASS_IN]],
         answers |-> rrs(p.answers), authorities |-> rrs(p.authorities),
         additionals |-> rrs(p.additionals)]

\* The decoded request as the responders see it: a question of a class
\* DNS_class_to_str does not know is skipped like one of unknown type.
FromWireRequest(p) ==
    [id |-> p.id,
     questions |-> [i \in DOMAIN p.questions |->
                      Question([j \in DOMAIN p.questions[i].name |->
                                   ToStrLabel(p.questions[i].name[j])],
                               IF p.questions[i].class = CLASS_IN
                               THEN p.questions[i].type ELSE TYPE_UNKNOWN)]]

-----------------------------------------------------------------------------
(* The programs' packets.                                                  *)

\* DNS_query_create_request(name, type): the id is never written.
Request(q, id) ==
    [id |-> id, qr |-> 0, rcode |-> R_NO_ERROR,
     questions |-> <<[name |-> ToWireName(q.name), type |-> q.type, class |-> CLASS_IN]>>,
     answers |-> <<>>, authorities |-> <<>>, additionals |-> <<>>]

\* What DNS_query_create_response_local sends when the iterative path
\* reaches the role holding the name: that role's answers and, for each
\* MX answer, the additional rows named like its exchange; no authority.
LocalReply(request) ==
    LET r    == Respond(LocalZone, request)
        glue == SelectSeq(r.additionals, LAMBDA g :
                    \E i \in DOMAIN r.answers : r.answers[i].type = TYPE_MX /\ r.answers[i].data = g.name)
    IN  [r EXCEPT !.authorities = <<>>, !.additionals = glue,
                  !.rcode = IF @ = R_QUERY_TYPE_UNSUPPORTED THEN @
                            ELSE IF r.answers = <<>> /\ glue = <<>> THEN R_NOT_EXIST
                            ELSE R_NO_ERROR]

\* The bytes DNS_buffer_write_packet leaves in a fresh buffer of capacity
\* cap, whatever it returned (the callers ignore it and send pos bytes).
Written(b) == SubSeq(b.ptr, 1, b.pos)
Encode(p, cap) == Written(WritePacket(Buffer(<<>>, cap), p))

\* The TCP framing: the length as a u16 in network order, then the bytes.
Frame(bytes) == U16(Len(bytes) % 65536) \o bytes

\* DNS_buffer_read_packet over bytes in a buffer of capacity cap; full
\* says whether every byte sent was received.
Decoded(d, full) == [ok |-> d.ok, pkt |-> d.pkt, under |-> d.buf.under, full |-> full]
Decode(bytes, cap, full) == Decoded(ReadPacket(Buffer(bytes, cap)), full)

NoDecode == [ok |-> FALSE, pkt |-> <<>>, under |-> FALSE, full |-> FALSE]
NoPacket == [id |-> 0]
NoCommand == [arg |-> <<>>, type |-> ""]

-----------------------------------------------------------------------------

TypeOK ==
    /\ chan \in {"udp", "tcp"}
    /\ stage \in {"idle", "request", "reply", "done"}
    /\ reqWire \in Seq(0..255) /\ replyWire \in Seq(0..255)
    /\ srv.ok => srv.pkt.qr \in {0, 1} /\ srv.pkt.rcode \in 0..15
    /\ cli.ok => cli.pkt.qr \in {0, 1} /\ cli.pkt.rcode \in 0..15
    /\ outcome \in {"none", "refused", "failed", "error", "printed"}
    /\ local \in {"down", "listening", "exited"}

Init ==
    /\ chan = "udp" /\ stage = "idle" /\ srvRole = CHOOSE s \in Servers : TRUE
    /\ req = NoPacket /\ reqWire = <<>> /\ srv = NoDecode
    /\ reply = NoPacket /\ replyWire = <<>> /\ cli = NoDecode
    /\ cmd = NoCommand /\ outcome = "none"
    /\ local = "down"

\* DNS_network_send_query_udp(address of s, name, type): build, encode
\* into a fresh BUFFER_SIZE buffer, sendto.
SendUdp ==
    /\ stage = "idle"
    /\ \E s \in Servers, q \in Questions, id \in Ids :
          /\ chan' = "udp" /\ srvRole' = s
          /\ req' = Request(q, id)
          /\ reqWire' = Encode(Request(q, id), BufferSize)
    /\ stage' = "request"
    /\ UNCHANGED <<srv, reply, replyWire, cli, cmd, outcome, local>>

\* DNS_server_start_local: DNS_network_init_server_socket_tcp either
\* returns a listening socket, and the process enters its accept loop, or
\* fails in socket, bind or listen and returns -1, and the process ends.
StartLocal ==
    /\ local = "down"
    /\ local' \in {"listening", "exited"}
    /\ UNCHANGED <<chan, stage, srvRole, req, reqWire, srv, reply, replyWire,
                   cli, cmd, outcome>>

\* dns_client's main, then DNS_network_send_query_tcp(LOCAL_DNS_IP, name,
\* type): parse the type, build the name, connect to the listening local
\* server, encode behind the 2-byte length slot of send_buf, fill the
\* length in, send.
SendTcp ==
    /\ stage = "idle"
    /\ local = "listening"
    /\ \E c \in Commands, id \in Ids :
          LET t == TypeFromStr(c.type) IN
          /\ ~Refused(c.arg, t)
          /\ cmd' = c
          /\ req' = Request(Question(QueryName(c.arg, t), t), id)
          /\ reqWire' = Frame(Encode(Request(Question(QueryName(c.arg, t), t), id), BufferSize - 2))
    /\ chan' = "tcp" /\ stage' = "request"
    /\ UNCHANGED <<srvRole, srv, reply, replyWire, cli, outcome, local>>

\* DNS_network_send_query_tcp returns NULL when connect fails, the local
\* server not listening (not started yet, or ended at startup); main
\* reports the failed query.
ConnectFails ==
    /\ stage = "idle"
    /\ local # "listening"
    /\ \E c \in Commands :
          /\ ~Refused(c.arg, TypeFromStr(c.type))
          /\ cmd' = c
    /\ outcome' = "failed"
    /\ chan' = "tcp" /\ stage' = "done"
    /\ UNCHANGED <<srvRole, req, reqWire, srv, reply, replyWire, cli, local>>

\* main returns before any query: a PTR argument that is not an address.
ClientRefuses ==
    /\ stage = "idle"
    /\ \E c \in Commands :
          /\ Refused(c.arg, TypeFromStr(c.type))
          /\ cmd' = c
    /\ outcome' = "refused"
    /\ chan' = "tcp" /\ stage' = "done"
    /\ UNCHANGED <<srvRole, req, reqWire, srv, reply, replyWire, cli, local>>

\* The reply a server builds for what it decoded: the response its
\* responder computes from the decoded request, or DNS_query_create_fail_response(R_FORMAT_ERR), whose id
\* is never written.
Answer(d, response) ==
    IF d.ok THEN {ToWirePacket(response, 1)}
    ELSE {ToWirePacket(FailResponse(R_FORMAT_ERR, g), 1) : g \in Ids}

\* DNS_network_handle_query_udp at the role: recvfrom the datagram,
\* decode it over its length, answer, encode into a fresh buffer, sendto.
HandleUdp ==
    /\ stage = "request" /\ chan = "udp"
    /\ LET d == Decode(reqWire, Len(reqWire), TRUE) IN
       /\ srv' = d
       /\ \E r \in Answer(d, Respond(Zone[srvRole], FromWireRequest(d.pkt))) :
             /\ reply' = r
             /\ replyWire' = Encode(r, BufferSize)
    /\ stage' = "reply"
    /\ UNCHANGED <<chan, srvRole, req, reqWire, cli, cmd, outcome, local>>

\* DNS_network_handle_query_tcp: one recv of k > 0 bytes, decoded from
\* buf + 2 over ret - 2 bytes; the reply encoded behind the length slot.
HandleTcp ==
    /\ stage = "request" /\ chan = "tcp"
    /\ local = "listening"
    /\ \E k \in 1..Len(reqWire) :
          LET d == Decode(SubSeq(reqWire, 3, k), k - 2, k = Len(reqWire)) IN
          /\ srv' = d
          /\ \E r \in Answer(d, LocalReply(FromWireRequest(d.pkt))) :
                /\ reply' = r
                /\ replyWire' = Frame(Encode(r, BufferSize - 2))
    /\ stage' = "reply"
    /\ UNCHANGED <<chan, srvRole, req, reqWire, cli, cmd, outcome, local>>

\* DNS_network_send_query_udp: recvfrom into a fresh BUFFER_SIZE buffer,
\* decoded over all of it.
RecvUdp ==
    /\ stage = "reply" /\ chan = "udp"
    /\ cli' = Decode(replyWire, BufferSize, TRUE)
    /\ stage' = "done"
    /\ UNCHANGED <<chan, srvRole, req, reqWire, srv, reply, replyWire, cmd, outcome, local>>

\* What main does with the packet send_query_tcp returns: NULL is a
\* failed query, a non-zero rcode is reported, else the records are printed.
MainOutcome(d) ==
    CASE ~d.ok                   -> "failed"
      [] d.pkt.rcode # R_NO_ERROR -> "error"
      [] OTHER                   -> "printed"

\* DNS_network_send_query_tcp: one recv of k >= 0 bytes into buf_rec,
\* decoded from buf_rec + 2 over BUFFER_SIZE - 2 bytes.
RecvTcp ==
    /\ stage = "reply" /\ chan = "tcp"
    /\ \E k \in 0..Len(replyWire) :
          cli' = Decode(SubSeq(replyWire, 3, k), BufferSize - 2, k = Len(replyWire))
    /\ outcome' = MainOutcome(cli')
    /\ stage' = "done"
    /\ UNCHANGED <<chan, srvRole, req, reqWire, srv, reply, replyWire, cmd, local>>

\* The next exchange starts afresh (every buffer is local to one call).
Reset ==
    /\ stage = "done"
    /\ stage' = "idle"
    /\ req' = NoPacket /\ reqWire' = <<>> /\ srv' = NoDecode
    /\ reply' = NoPacket /\ replyWire' = <<>> /\ cli' = NoDecode
    /\ cmd' = NoCommand /\ outcome' = "none"
    /\ UNCHANGED <<chan, srvRole, local>>

Next == StartLocal \/ SendUdp \/ SendTcp \/ ConnectFails \/ ClientRefuses
        \/ HandleUdp \/ HandleTcp \/ RecvUdp \/ RecvTcp \/ Reset

Spec == Init /\ [][Next]_vars

-----------------------------------------------------------------------------
(* Properties.                                                             *)

\* Round trip through the whole exchange: a server that received the
\* whole request decodes exactly the request the client built, and a
\* client that received the whole reply decodes exactly the reply the
\* server built (compression pointers written by DNS_buffer_write_DNS_name
\* resolve, in DNS_buffer_read_DNS_name, to the names they stand for).
ExchangeFaithful ==
    /\ stage \in {"reply", "done"} /\ srv.full => srv.ok /\ srv.pkt = req
    /\ stage = "done" /\ cli.full => cli.ok /\ cli.pkt = reply

ClientRejectsTruncated ==
    stage = "done" /\ chan = "tcp" /\ ~cli.full => ~cli.ok

\* Reference for the compression law: the length of a wire packet with
\* every name written out in full (labels with their length bytes, then
\* the zero), and every name the packet carries, in order.
PlainNameLen(n) == FoldLeft(LAMBDA acc, l : acc + 1 + Len(l), 1, n)
PlainRRLen(r) ==
    PlainNameLen(r.name) + 10 +
        CASE r.type = TYPE_A  -> 4
          [] r.type = TYPE_MX -> 2 + PlainNameLen(r.data)
          [] OTHER            -> PlainNameLen(r.data)
PlainLen(p) ==
    LET rrs == p.answers \o p.authorities \o p.additionals
    IN  12 + FoldSeq(LAMBDA q, acc : acc + PlainNameLen(q.name) + 4, 0, p.questions)
           + FoldSeq(LAMBDA r, acc : acc + PlainRRLen(r), 0, rrs)
PacketNames(p) ==
    LET rrs == p.answers \o p.authorities \o p.additionals
    IN  [i \in DOMAIN p.questions |-> p.questions[i].name]
        \o FlattenSeq([i \in DOMAIN rrs |->
               IF rrs[i].type = TYPE_A THEN <<rrs[i].name>> ELSE <<rrs[i].name, rrs[i].data>>])

\* Compression correctness (spec 8): the bytes DNS_buffer_write_packet
\* sends for a request or a reply are never more than the packet written
\* out in full, and strictly fewer as soon as two of its names share a
\* suffix: DNS_buffer_write_DNS_name's known-name table finds every
\* suffix written before, in questions, owners and data alike.
Compressed(p, bytes) ==
    LET names == PacketNames(p) IN
    /\ Len(bytes) <= PlainLen(p)
    /\ (\E i, j \in DOMAIN names :
           i < j /\ names[i] # <<>> /\ names[j] # <<>> /\ Last(names[i]) = Last(names[j]))
         => Len(bytes) < PlainLen(p)
CompressionShortens ==
    LET body(w) == IF chan = "tcp" THEN SubSeq(w, 3, Len(w)) ELSE w IN
    req # NoPacket =>
        /\ stage \in {"request", "reply", "done"} => Compressed(req, body(reqWire))
        /\ stage \in {"reply", "done"} => Compressed(reply, body(replyWire))

\* A PTR query from dns_client asks for the reverse name of the address on
\* its command line: main's htonl(inet_addr(...)) and inet_ntoa put the
\* four numbers last to first in the name it sends.
ClientAsksReverse ==
    stage # "idle" /\ chan = "tcp" /\ req # NoPacket /\ TypeFromStr(cmd.type) = TYPE_PTR =>
        req.questions[1].name = ToWireName(ReverseName(cmd.arg))

\* No decoding ends with an empty name, for which DNS_buffer_read_DNS_name
\* writes the byte before its output buffer.
NoNameUnderflow == ~srv.under /\ ~cli.under

=============================================================================
