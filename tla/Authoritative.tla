---------------------------- MODULE Authoritative ----------------------------
(***************************************************************************)
(* The authoritative responder (DNS_query_create_response, dns_query.c)   *)
(* and the UDP server loop that runs it (DNS_server_start, dns_server.c,  *)
(* and DNS_network_handle_query_udp, dns_network.c).                       *)
(*                                                                         *)
(* Respond (module Responder) is the pure function the handler computes  *)
(* from one zone table and one decoded request.  The state machine has a *)
(* client sending a request datagram to one role and that role's loop    *)
(* decoding it, answering it and sending the reply.  Encoding of the     *)
(* reply is left to Transport; here a reply is the packet value the      *)
(* handler builds.                                                         *)
(***************************************************************************)
EXTENDS Responder

CONSTANTS
    Servers,      \* the authoritative roles (root, s1, ... s4)
    Zone,         \* Zone[s]: the zone table of role s, in rowid order
    Ids,          \* transaction ids clients put in requests
    Requests      \* the question sequences clients send

ASSUME Zone \in [Servers -> Seq([name : Seq(STRING), type : Int, data : Seq(STRING)])]

-----------------------------------------------------------------------------
(* The UDP server loop of each role.                                       *)

VARIABLES
    net,        \* the request datagram in flight, addressed to a role
    lastReply   \* the reply the last handled request produced, with it

vars == <<net, lastReply>>

\* A request datagram: wellFormed is whether DNS_buffer_read_packet
\* decodes it (a client other than the resolver may send anything).
Datagram == [to : Servers, id : Ids, questions : Requests, wellFormed : BOOLEAN]

None == [to |-> "none"]

TypeOK ==
    /\ net \in Datagram \cup {None}
    /\ \/ lastReply = None
       \/ /\ lastReply.req \in Datagram
          /\ lastReply.resp.id \in Ids
          /\ lastReply.resp.rcode \in
                {R_NO_ERROR, R_FORMAT_ERR, R_NOT_EXIST, R_QUERY_TYPE_UNSUPPORTED}

Init ==
    /\ net = None
    /\ lastReply = None

\* A client sends a request datagram and waits for its reply.  The roles
\* share no state (their tables are read only), so one request in flight
\* at a time loses no behaviour of a server.
ClientSend ==
    /\ net = None
    /\ \E d \in Datagram : net' = d
    /\ UNCHANGED lastReply

\* DNS_network_handle_query_udp at role s: recvfrom the datagram, decode
\* it, build the response (a FORMERR one when decoding fails) and sendto
\* the peer.
HandleQueryUdp(s) ==
    /\ net # None
    /\ net.to = s
    /\ net' = None
    /\ \/ /\ net.wellFormed
          /\ lastReply' = [req |-> net, resp |-> Respond(Zone[s], net)]
       \/ /\ ~net.wellFormed
          /\ \E garbage \in Ids :
                lastReply' = [req |-> net, resp |-> FailResponse(R_FORMAT_ERR, garbage)]

Next == ClientSend \/ \E s \in Servers : HandleQueryUdp(s)

\* Each server process blocks in recvfrom and handles what arrives.
Spec == Init /\ [][Next]_vars /\ \A s \in Servers : WF_vars(HandleQueryUdp(s))

-----------------------------------------------------------------------------
(* Properties.                                                             *)

\* Every reply to a well-formed request echoes its id, copies exactly its
\* supported questions in order, carries in each section exactly the rows
\* the reference names for those questions (the CNAME work-list, the NS
\* suffix walk and the glue lookups of DNS_query_create_response lose and
\* invent nothing), and has the rcode the finalisation rule prescribes.
ReplyMatchesZone ==
    lastReply # None /\ lastReply.req.wellFormed =>
        LET req  == lastReply.req
            rp   == lastReply.resp
            z    == Zone[req.to]
            qs   == SelectSeq(req.questions, LAMBDA q : q.type \in SupportedTypes)
            ans  == UNION {RefAnswers(z, q)    : q \in ToSet(qs)}
            auth == UNION {RefAuthority(z, q)  : q \in ToSet(qs)}
            add  == UNION {RefAdditional(z, q) : q \in ToSet(qs)}
        IN  /\ rp.id = req.id
            /\ rp.questions = qs
            /\ ToSet(rp.answers) = ans
            /\ ToSet(rp.authorities) = auth
            /\ ToSet(rp.additionals) = add
            /\ rp.rcode = IF Len(qs) < Len(req.questions) THEN R_QUERY_TYPE_UNSUPPORTED
                          ELSE IF ans \cup auth \cup add = {} THEN R_NOT_EXIST
                          ELSE R_NO_ERROR

\* A stub reading the answer section front to back can follow the chain:
\* every answer owned by a name that is not a question name comes after a
\* CNAME answer pointing at that name (DNS_query_create_response appends a
\* CNAME just before the records of its target).
AnswerChainOrdered ==
    lastReply # None =>
        LET ans   == lastReply.resp.answers
            qname == {q.name : q \in ToSet(lastReply.resp.questions)}
        IN  \A i \in DOMAIN ans :
                ans[i].name \notin qname =>
                    \E j \in 1..(i - 1) : ans[j].type = TYPE_CNAME /\ ans[j].data = ans[i].name

\* Id preservation (spec 3, 8): every reply carries the id of the request
\* it answers, including the FORMERR reply DNS_network_handle_query_udp
\* sends for a request that does not decode.
IdPreserved ==
    lastReply # None => lastReply.resp.id = lastReply.req.id

=============================================================================
