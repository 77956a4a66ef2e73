------------------------------ MODULE Resolver ------------------------------
(***************************************************************************)
(* The local recursive server: DNS_server_start_local (dns_server.c), the  *)
(* TCP handler DNS_network_handle_query_tcp (dns_network.c), the resolver  *)
(* DNS_query_create_response_local (dns_query.c 245-454) and the cache of *)
(* dns_database.c (DNS_database_get_cache, DNS_database_put_cache).        *)
(*                                                                         *)
(* One process serves one client request at a time, question by            *)
(* question.  Its steps are the points between which the code reads the    *)
(* wall clock again (every cache read and write calls time(NULL)) or       *)
(* blocks in a UDP round trip to an authoritative role, which answers      *)
(* with Respond of its zone table or not at all (loss, the 10 s receive    *)
(* timeout, an undecodable reply).  The clock advances between any two     *)
(* steps.                                                                  *)
(***************************************************************************)
EXTENDS Responder

CONSTANTS
    Servers,      \* the authoritative roles
    Zone,         \* Zone[s]: the zone table of role s
    AddrServer,   \* the role bound to each address that has one
    RootAddr,     \* ROOT_DNS_IP, the address the iterative path starts at
    TTL,          \* the ttl of every row (60 in the default data), in ticks
    MaxTime,      \* bound on the clock
    MaxRequests,  \* bound on the client requests served
    Requests      \* the requests clients send: sequences of questions

ASSUME TTL \in Nat \ {0} /\ MaxTime \in Nat /\ MaxRequests \in Nat

VARIABLES
    now,        \* time(NULL)
    cache,      \* rows of the cache table in rowid order: [rr, ts]
    pc,         \* "idle" (in accept), "cache" or "iter" (serving question
                \* qi), "done" (question loop left, response not yet sent)
    rq,         \* the questions of the request being served
    qi,         \* index in rq of the question being served
    q,          \* the question being served
    resp,       \* answer and additional rows this question has added
    cname,      \* cname_pending list of the cache path
    cIdx,       \* next index of cname
    add,        \* add_pending list of the cache path
    aIdx,       \* next index of add
    nsPending,  \* ns_pending list of the iterative path
    nsIdx,      \* next index of nsPending
    reply,      \* the upstream reply being processed, or NoReply
    rIdx,       \* next index into reply.answers
    failed,     \* an upstream round trip of this question got no reply
    path,       \* "cache" or "iter": which path serves this question
    out,        \* the response built so far for the earlier questions
    notimp,     \* have_invaild_mode: a question of rq was skipped
    served,     \* every question served, with what it added (history)
    responses,  \* the responses sent (history)
    asked       \* number of requests accepted

vars == <<now, cache, pc, rq, qi, q, resp, cname, cIdx, add, aIdx, nsPending,
          nsIdx, reply, rIdx, failed, path, out, notimp, served, responses,
          asked>>

requestVars == <<rq, qi, out, notimp, served, responses, asked>>

NoReply == [none |-> TRUE]
NoQuestion == Question(<<>>, TYPE_UNKNOWN)
EmptyResp == [answers |-> <<>>, additionals |-> <<>>]
EmptyOut == [questions |-> <<>>, answers |-> <<>>, additionals |-> <<>>,
             failed |-> FALSE]

\* The name of the synthetic first entry of ns_pending ("root.local").
RootName == <<"root", "local">>

-----------------------------------------------------------------------------
(* The cache (dns_database.c).                                             *)

\* The WHERE clause "timestamp + ttl > now" of DNS_database_get_cache.
Fresh(e) == e.ts + TTL > now

\* DNS_database_get_cache(name, type): the fresh rows named name whose
\* type is type or CNAME, in rowid order.
CacheGet(name, type) ==
    LET rows == SelectSeq(cache, LAMBDA e : /\ e.rr.name = name
                                           /\ e.rr.type \in {type, TYPE_CNAME}
                                           /\ Fresh(e))
    IN  [i \in DOMAIN rows |-> rows[i].rr]

\* DNS_database_put_cache of each record of rrs, in order, at time now.
PutCache(rrs) == cache \o [i \in DOMAIN rrs |-> [rr |-> rrs[i], ts |-> now]]

-----------------------------------------------------------------------------
(* The question loop of DNS_query_create_response_local.                  *)

\* Mutant: the loop breaks at an unsupported question instead of going on.
FirstSupportedBreak(r, i) ==
    LET js == {j \in i..Len(r) : r[j].type \in SupportedTypes}
    IN  IF js = {} \/ (i <= Len(r) /\ r[i].type \notin SupportedTypes)
        THEN Len(r) + 1 ELSE Min(js)

\* Resuming the loop at question i: every question of unknown type is
\* skipped with "continue"; the index of the next one served, or one past
\* the end.
FirstSupported(r, i) ==
    LET js == {j \in i..Len(r) : r[j].type \in SupportedTypes}
    IN  IF js = {} THEN Len(r) + 1 ELSE Min(js)

\* The loop from question i of r, the response holding o and the flag ni:
\* the skipped questions set have_invaild_mode; the next served question
\* is copied into the response and its cache read decides the path (a hit
\* classifies the rows as the zone responder does, a miss starts the
\* iterative path with ns_pending holding the root server); past the last
\* question the loop is left.
StartFrom(r, i, o, ni) ==
    LET j == FirstSupported(r, i) IN
    /\ qi' = j
    /\ notimp' = (ni \/ j > i)
    /\ cIdx' = 1 /\ aIdx' = 1 /\ nsIdx' = 1
    /\ failed' = FALSE
    /\ IF j > Len(r)
       THEN /\ pc' = "done" /\ q' = NoQuestion /\ path' = "none"
            /\ out' = o
            /\ resp' = EmptyResp /\ cname' = <<>> /\ add' = <<>>
            /\ nsPending' = <<>>
       ELSE LET qq  == r[j]
                hit == CacheGet(qq.name, qq.type)
            IN  /\ q' = qq
                /\ out' = [o EXCEPT !.questions = Append(@, qq)]
                /\ IF hit # <<>>
                   THEN /\ pc' = "cache" /\ path' = "cache"
                        /\ resp' = [EmptyResp EXCEPT !.answers = Answered(hit, qq.type)]
                        /\ cname' = PendingCnames(hit, qq.type)
                        /\ add' = MxRecords(hit)
                        /\ nsPending' = <<>>
                   ELSE /\ pc' = "iter" /\ path' = "iter"
                        /\ resp' = EmptyResp /\ cname' = <<>> /\ add' = <<>>
                        /\ nsPending' = << RR(RootName, qq.type, RootAddr) >>

-----------------------------------------------------------------------------

TypeOK ==
    /\ now \in 0..MaxTime
    /\ pc \in {"idle", "done", "cache", "iter"}
    /\ rq \in Requests \cup {<<>>}
    /\ qi \in 0..(Len(rq) + 1)
    /\ q \in UNION {ToSet(r) : r \in Requests} \cup {NoQuestion}
    /\ cIdx \in Nat /\ aIdx \in Nat /\ nsIdx \in Nat /\ rIdx \in Nat
    /\ failed \in BOOLEAN /\ notimp \in BOOLEAN
    /\ path \in {"none", "cache", "iter"}
    /\ asked \in 0..MaxRequests
    /\ Len(responses) = asked - (IF pc = "idle" THEN 0 ELSE 1)

Init ==
    /\ now = 0
    /\ cache = <<>>
    /\ pc = "idle"
    /\ rq = <<>> /\ qi = 0
    /\ q = NoQuestion
    /\ resp = EmptyResp
    /\ cname = <<>> /\ cIdx = 1
    /\ add = <<>> /\ aIdx = 1
    /\ nsPending = <<>> /\ nsIdx = 1
    /\ reply = NoReply /\ rIdx = 1
    /\ failed = FALSE
    /\ path = "none"
    /\ out = EmptyOut /\ notimp = FALSE
    /\ served = <<>> /\ responses = <<>>
    /\ asked = 0

\* Mutant: the accepted-request counter is not advanced.
ReceiveNoCount ==
    /\ pc = "idle"
    /\ asked < MaxRequests
    /\ \E r \in Requests :
        /\ rq' = r
        /\ StartFrom(r, 1, EmptyOut, FALSE)
    /\ UNCHANGED <<now, cache, reply, rIdx, served, responses, asked>>

\* DNS_network_handle_query_tcp accepts a connection and decodes the
\* request; DNS_query_create_response_local starts its question loop.
Receive ==
    /\ pc = "idle"
    /\ asked < MaxRequests
    /\ \E r \in Requests :
        /\ rq' = r
        /\ StartFrom(r, 1, EmptyOut, FALSE)
    /\ asked' = asked + 1
    /\ UNCHANGED <<now, cache, reply, rIdx, served, responses>>

\* Mutant: a found CNAME is appended after its target's rows.
CacheCnameLate ==
    /\ pc = "cache"
    /\ cIdx <= Len(cname)
    /\ LET t  == cname[cIdx]
           d  == CacheGet(t.data, q.type)
       IN  IF d = <<>>
           THEN UNCHANGED <<resp, cname, add>>
           ELSE /\ resp' = [resp EXCEPT !.answers = @ \o Answered(d, q.type) \o <<t>>]
                /\ cname' = cname \o PendingCnames(d, q.type)
                /\ add' = add \o MxRecords(d)
    /\ cIdx' = cIdx + 1
    /\ UNCHANGED <<now, cache, pc, q, aIdx, nsPending, nsIdx, reply, rIdx,
                   failed, path, requestVars>>

\* One iteration of the cache path's CNAME loop: a target found in the
\* cache puts the CNAME and the target's rows into the answers; one that is
\* not found is logged and skipped.
CacheCname ==
    /\ pc = "cache"
    /\ cIdx <= Len(cname)
    /\ LET t  == cname[cIdx]
           d  == CacheGet(t.data, q.type)
       IN  IF d = <<>>
           THEN UNCHANGED <<resp, cname, add>>
           ELSE /\ resp' = [resp EXCEPT !.answers = @ \o <<t>> \o Answered(d, q.type)]
                /\ cname' = cname \o PendingCnames(d, q.type)
                /\ add' = add \o MxRecords(d)
    /\ cIdx' = cIdx + 1
    /\ UNCHANGED <<now, cache, pc, q, aIdx, nsPending, nsIdx, reply, rIdx,
                   failed, path, requestVars>>

\* One iteration of the cache path's MX glue loop: the A rows the cache
\* holds for the exchange go to the additional section.
CacheGlue ==
    /\ pc = "cache"
    /\ cIdx > Len(cname)
    /\ aIdx <= Len(add)
    /\ LET d == CacheGet(GlueName(add[aIdx]), TYPE_A)
       IN  resp' = [resp EXCEPT !.additionals =
                        @ \o SelectSeq(d, LAMBDA r : r.type = TYPE_A)]
    /\ aIdx' = aIdx + 1
    /\ UNCHANGED <<now, cache, pc, q, cname, cIdx, add, nsPending, nsIdx,
                   reply, rIdx, failed, path, requestVars>>

\* DNS_network_send_query_udp to the next pending server: the role bound
\* to the address answers with Respond of its table, or the call returns
\* NULL (request or reply lost, timeout, no server there, reply does not
\* decode) and the loop moves on to the next server.
IterQuery ==
    /\ pc = "iter"
    /\ reply = NoReply
    /\ nsIdx <= Len(nsPending)
    /\ LET addr == nsPending[nsIdx].data IN
       \/ /\ addr \in DOMAIN AddrServer
          /\ reply' = Respond(Zone[AddrServer[addr]], [id |-> 0, questions |-> <<q>>])
          /\ rIdx' = 1
          /\ UNCHANGED <<nsIdx, failed>>
       \/ /\ failed' = TRUE
          /\ nsIdx' = nsIdx + 1
          /\ UNCHANGED <<reply, rIdx>>
    /\ UNCHANGED <<now, cache, pc, q, resp, cname, cIdx, add, aIdx, nsPending,
                   path, requestVars>>

\* One iteration of the loop over the reply's answers: the answer goes to
\* the response and the cache; for an MX answer every additional row named
\* like its exchange goes to the response's additional section and the
\* cache as well.
IterAnswer ==
    /\ pc = "iter"
    /\ reply # NoReply
    /\ rIdx <= Len(reply.answers)
    /\ LET t    == reply.answers[rIdx]
           glue == IF t.type = TYPE_MX
                   THEN SelectSeq(reply.additionals, LAMBDA r : r.name = GlueName(t))
                   ELSE <<>>
       IN  /\ resp' = [resp EXCEPT !.answers = Append(@, t),
                                   !.additionals = @ \o glue]
           /\ cache' = PutCache(<<t>> \o glue)
    /\ rIdx' = rIdx + 1
    /\ UNCHANGED <<now, pc, q, cname, cIdx, add, aIdx, nsPending, nsIdx,
                   reply, failed, path, requestVars>>

\* Mutant: glue is matched against the authority row's owner name.
IterReferralByOwner ==
    /\ pc = "iter"
    /\ reply # NoReply
    /\ rIdx > Len(reply.answers)
    /\ LET auth == reply.authorities
           next == FlattenSeq([i \in DOMAIN auth |->
                      SelectSeq(reply.additionals,
                                LAMBDA r : r.name = auth[i].name /\ r.type = TYPE_A)])
       IN  nsPending' = nsPending \o next
    /\ reply' = NoReply
    /\ nsIdx' = nsIdx + 1
    /\ UNCHANGED <<now, cache, pc, q, resp, cname, cIdx, add, aIdx, rIdx,
                   failed, path, requestVars>>

\* After the answers: for every authority row, each additional A row named
\* like its target is appended to ns_pending (the delegation step); then
\* the loop moves on to the next pending server.
IterReferral ==
    /\ pc = "iter"
    /\ reply # NoReply
    /\ rIdx > Len(reply.answers)
    /\ LET auth == reply.authorities
           next == FlattenSeq([i \in DOMAIN auth |->
                      SelectSeq(reply.additionals,
                                LAMBDA r : r.name = auth[i].data /\ r.type = TYPE_A)])
       IN  nsPending' = nsPending \o next
    /\ reply' = NoReply
    /\ nsIdx' = nsIdx + 1
    /\ UNCHANGED <<now, cache, pc, q, resp, cname, cIdx, add, aIdx, rIdx,
                   failed, path, requestVars>>


\* The end of one iteration of the question loop, when its path has no
\* work left: what it added stays in the response and the loop resumes at
\* the next question.
EndQuestion ==
    /\ \/ pc = "cache" /\ cIdx > Len(cname) /\ aIdx > Len(add)
       \/ pc = "iter" /\ reply = NoReply /\ nsIdx > Len(nsPending)
    /\ served' = Append(served, [q |-> q, answers |-> resp.answers,
                                 additionals |-> resp.additionals,
                                 failed |-> failed, path |-> path])
    /\ StartFrom(rq, qi + 1,
                 [out EXCEPT !.answers = @ \o resp.answers,
                             !.additionals = @ \o resp.additionals,
                             !.failed = @ \/ failed],
                 notimp)
    /\ UNCHANGED <<now, cache, reply, rIdx, rq, responses, asked>>

\* The finalisation of DNS_query_create_response_local: a response with no
\* rows is NXDOMAIN, and a skipped question makes it NOTIMP whatever it
\* holds.
ResponseRcode ==
    IF notimp THEN R_QUERY_TYPE_UNSUPPORTED
    ELSE IF out.answers = <<>> /\ out.additionals = <<>> THEN R_NOT_EXIST
    ELSE R_NO_ERROR

\* The response is sent on the TCP connection, which is closed; the
\* process returns to accept().
Finish ==
    /\ pc = "done"
    /\ responses' = Append(responses,
                           [request |-> rq, questions |-> out.questions,
                            answers |-> out.answers,
                            additionals |-> out.additionals,
                            rcode |-> ResponseRcode, failed |-> out.failed])
    /\ pc' = "idle"
    /\ rq' = <<>> /\ qi' = 0
    /\ out' = EmptyOut /\ notimp' = FALSE
    /\ UNCHANGED <<now, cache, q, resp, cname, cIdx, add, aIdx, nsPending,
                   nsIdx, reply, rIdx, failed, path, served, asked>>

\* One second of wall-clock time passes.
Tick ==
    /\ now < MaxTime
    /\ now' = now + 1
    /\ UNCHANGED <<cache, pc, q, resp, cname, cIdx, add, aIdx, nsPending,
                   nsIdx, reply, rIdx, failed, path, requestVars>>

Step == CacheCname \/ CacheGlue \/ IterQuery \/ IterAnswer \/ IterReferral
        \/ EndQuestion \/ Finish

Next == Receive \/ Step \/ Tick

Spec == Init /\ [][Next]_vars

-----------------------------------------------------------------------------
(* Reference: what resolving a question through the delegation chain      *)
(* yields, stated over sets of rows.                                       *)

\* The roles a role refers the resolver to for question qq: the addresses
\* of the glue A rows it returns for the NS targets of its authority rows.
Referrals(s, qq) ==
    LET z    == Zone[s]
        auth == RefAuthority(z, qq)
        glue == {g \in RefAdditional(z, qq) :
                    \E a \in auth : a.data = g.name}
    IN  {AddrServer[g.data] : g \in {g \in glue : g.data \in DOMAIN AddrServer}}

\* The roles reachable from the set S through referrals.
RECURSIVE ReachFrom(_, _)
ReachFrom(S, qq) ==
    LET S2 == S \cup UNION {Referrals(s, qq) : s \in S}
    IN  IF S2 = S THEN S ELSE ReachFrom(S2, qq)

Reachable(qq) ==
    IF RootAddr \in DOMAIN AddrServer THEN ReachFrom({AddrServer[RootAddr]}, qq) ELSE {}

\* The answers of every role reachable from the root.
RefResolve(qq) == UNION {RefAnswers(Zone[s], qq) : s \in Reachable(qq)}

-----------------------------------------------------------------------------
(* Properties.                                                             *)

\* A response produced by the iterative path, when every upstream round
\* trip got its reply, holds exactly the answers of every role the
\* delegation chain from the root reaches: following referrals through
\* ns_pending (glue matching, append order, the index walk) neither
\* misses a zone nor answers from a wrong one.
IterativeComplete ==
    \A i \in DOMAIN served :
        served[i].path = "iter" /\ ~served[i].failed =>
            ToSet(served[i].answers) = RefResolve(served[i].q)

\* A stub can read every response front to back: each answer has the
\* question's type or is a CNAME, and each answer not owned by the
\* question name follows a CNAME answer pointing at its owner, whether
\* the answers came from several upstream replies or from cache rows
\* read at different times.
AnswersChained ==
    \A i \in DOMAIN served :
        LET a  == served[i].answers
            qq == served[i].q
        IN  \A j \in DOMAIN a :
                /\ a[j].type \in {qq.type, TYPE_CNAME}
                /\ a[j].name # qq.name =>
                      \E k \in 1..(j - 1) : a[k].type = TYPE_CNAME /\ a[k].data = a[j].name

\* NXDOMAIN means the name has no data (spec 6.1, 7): a response that got
\* every upstream reply it asked for is NXDOMAIN only if resolving each of
\* its questions through the authoritative servers yields no answer.
NoFalseNxDomain ==
    \A i \in DOMAIN responses :
        LET r == responses[i] IN
        r.rcode = R_NOT_EXIST /\ ~r.failed =>
            \A k \in DOMAIN r.questions : RefResolve(r.questions[k]) = {}

\* A question of unknown type does not stop the others (spec 4.4, 7): the
\* response to a request carries every question of a supported type, in
\* order, each followed through the cache or the iterative path, and it
\* is NOTIMP exactly when the request held another one, whatever rows the
\* served questions found.
EveryQuestionServed ==
    \A i \in DOMAIN responses :
        LET r == responses[i] IN
        /\ r.questions = SelectSeq(r.request, LAMBDA x : x.type \in SupportedTypes)
        /\ (r.rcode = R_QUERY_TYPE_UNSUPPORTED) <=>
               (\E k \in DOMAIN r.request : r.request[k].type \notin SupportedTypes)

\* Re-asking a question answers it with the same records (spec 8,
\* scenario 6): no response repeats an answer record.
NoDuplicateAnswers ==
    \A i \in DOMAIN served :
        LET a == served[i].answers
        IN  \A j, k \in DOMAIN a : j < k => a[j] # a[k]

=============================================================================
