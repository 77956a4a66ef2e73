------------------------------ MODULE Responder ------------------------------
(***************************************************************************)
(* The authoritative responder DNS_query_create_response (dns_query.c) as *)
(* a pure operator of one zone table and one decoded request, the failure *)
(* response DNS_query_create_fail_response, and reference definitions of  *)
(* what a response should contain, stated over sets of rows.              *)
(***************************************************************************)
EXTENDS DnsZone

-----------------------------------------------------------------------------
(* The responder.                                                          *)

\* Mutant: the CNAME is appended after its target's records.
RECURSIVE CnameLoopLateCname(_, _, _, _)
CnameLoopLateCname(zone, qtype, i, st) ==
    IF i > Len(st.cname) THEN st
    ELSE LET t     == st.cname[i]
             data2 == GetRecord(zone, t.data, qtype, TRUE)
             found == IF data2 = <<>> THEN <<>> ELSE <<t>>
         IN  CnameLoopLateCname(zone, qtype, i + 1,
                [ans   |-> st.ans \o Answered(data2, qtype) \o found,
                 cname |-> st.cname \o PendingCnames(data2, qtype),
                 add   |-> st.add \o MxRecords(data2)])

\* The CNAME follow-up loop of DNS_query_create_response: the pending list
\* cname grows while it is walked; a target with records puts its CNAME,
\* then its own records, into the answer section.
RECURSIVE CnameLoop(_, _, _, _)
CnameLoop(zone, qtype, i, st) ==
    IF i > Len(st.cname) THEN st
    ELSE LET t     == st.cname[i]
             data2 == GetRecord(zone, t.data, qtype, TRUE)
             found == IF data2 = <<>> THEN <<>> ELSE <<t>>
         IN  CnameLoop(zone, qtype, i + 1,
                [ans   |-> st.ans \o found \o Answered(data2, qtype),
                 cname |-> st.cname \o PendingCnames(data2, qtype),
                 add   |-> st.add \o MxRecords(data2)])

\* Mutant: the NS walk stops only after a '.', never at the name itself.
RespondQuestionParentsOnly(zone, resp, q) ==
    IF q.type \notin SupportedTypes
    THEN [resp EXCEPT !.invalid = TRUE]
    ELSE LET data  == GetRecord(zone, q.name, q.type, TRUE)
             chase == CnameLoop(zone, q.type, 1,
                        [ans   |-> Answered(data, q.type),
                         cname |-> PendingCnames(data, q.type),
                         add   |-> MxRecords(data)])
             sfx   == [i \in 1..(Len(q.name) - 1) |-> SubSeq(q.name, i + 1, Len(q.name))]
             ns    == FlattenSeq([i \in DOMAIN sfx |->
                                    GetRecord(zone, sfx[i], TYPE_NS, FALSE)])
             add   == chase.add \o ns
             glue  == FlattenSeq([i \in DOMAIN add |->
                                    GetRecord(zone, GlueName(add[i]), TYPE_A, FALSE)])
         IN  [resp EXCEPT !.questions   = Append(@, q),
                          !.answers     = @ \o chase.ans,
                          !.authorities = @ \o ns,
                          !.additionals = @ \o glue]

\* One iteration of the question loop of DNS_query_create_response.
RespondQuestion(zone, resp, q) ==
    IF q.type \notin SupportedTypes
    THEN [resp EXCEPT !.invalid = TRUE]
    ELSE LET data  == GetRecord(zone, q.name, q.type, TRUE)
             chase == CnameLoop(zone, q.type, 1,
                        [ans   |-> Answered(data, q.type),
                         cname |-> PendingCnames(data, q.type),
                         add   |-> MxRecords(data)])
             sfx   == NameSuffixes(q.name)
             ns    == FlattenSeq([i \in DOMAIN sfx |->
                                    GetRecord(zone, sfx[i], TYPE_NS, FALSE)])
             add   == chase.add \o ns
             glue  == FlattenSeq([i \in DOMAIN add |->
                                    GetRecord(zone, GlueName(add[i]), TYPE_A, FALSE)])
         IN  [resp EXCEPT !.questions   = Append(@, q),
                          !.answers     = @ \o chase.ans,
                          !.authorities = @ \o ns,
                          !.additionals = @ \o glue]

\* Mutant: the two finalisation rules OR their codes together.
FinalRcodeOr(r) ==
    (IF r.invalid THEN R_QUERY_TYPE_UNSUPPORTED ELSE 0) +
    (IF r.answers = <<>> /\ r.authorities = <<>> /\ r.additionals = <<>>
     THEN R_NOT_EXIST ELSE R_NO_ERROR)

\* The response code set after the question loop: NOTIMP wins over
\* NXDOMAIN, which is set when all three sections are empty.
FinalRcode(r) ==
    IF r.invalid THEN R_QUERY_TYPE_UNSUPPORTED
    ELSE IF r.answers = <<>> /\ r.authorities = <<>> /\ r.additionals = <<>>
         THEN R_NOT_EXIST
         ELSE R_NO_ERROR

\* DNS_query_create_response(request) against the table zone.
Respond(zone, request) ==
    LET base == [id |-> request.id, questions |-> <<>>, answers |-> <<>>,
                 authorities |-> <<>>, additionals |-> <<>>, invalid |-> FALSE]
        r    == FoldLeft(LAMBDA acc, q : RespondQuestion(zone, acc, q),
                         base, request.questions)
    IN  [id |-> r.id, questions |-> r.questions, answers |-> r.answers,
         authorities |-> r.authorities, additionals |-> r.additionals,
         rcode |-> FinalRcode(r)]

\* DNS_query_create_fail_response(rcode): every field but the id is set;
\* the id of the stack struct is never written, so it is whatever the
\* build leaves there (garbage stands for that value).
FailResponse(rcode, garbage) ==
    [id |-> garbage, questions |-> <<>>, answers |-> <<>>,
     authorities |-> <<>>, additionals |-> <<>>, rcode |-> rcode]

-----------------------------------------------------------------------------
(* Reference definitions: what a response should contain, stated over    *)
(* sets of rows and independent of the loops above.                       *)

\* The names reachable from the set S through CNAME rows of the zone.
RECURSIVE CnameClosure(_, _)
CnameClosure(zone, S) ==
    LET S2 == S \cup {r.data : r \in {r \in ToSet(zone) : r.type = TYPE_CNAME /\ r.name \in S}}
    IN  IF S2 = S THEN S ELSE CnameClosure(zone, S2)

\* Answers: rows of the question's type at a name reachable from the
\* question through CNAMEs, and the CNAME rows on the way whose target
\* owns a row of the question's type or a CNAME.
RefAnswers(zone, q) ==
    LET rows  == ToSet(zone)
        reach == IF q.type = TYPE_CNAME THEN {q.name} ELSE CnameClosure(zone, {q.name})
        resolves(n) == \E r \in rows : r.name = n /\ r.type \in {q.type, TYPE_CNAME}
    IN  {r \in rows : /\ r.name \in reach
                      /\ \/ r.type = q.type
                         \/ IsPendingCname(r, q.type) /\ resolves(r.data)}

\* Authority: the NS rows owned by the question name or one of its
\* ancestors below the root.
RefAuthority(zone, q) ==
    {r \in ToSet(zone) : r.type = TYPE_NS /\ r.name \in Range(NameSuffixes(q.name))}

\* Additional: the A rows of every NS target in the authority section and
\* of every MX exchange in the answer section.
RefAdditional(zone, q) ==
    LET targets == RefAuthority(zone, q) \cup
                   {r \in RefAnswers(zone, q) : r.type = TYPE_MX}
    IN  {r \in ToSet(zone) : r.type = TYPE_A /\ \E g \in targets : r.name = GlueName(g)}

=============================================================================
