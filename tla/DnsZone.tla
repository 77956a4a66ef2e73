------------------------------ MODULE DnsZone ------------------------------
(***************************************************************************)
(* Definitions shared by every server role: the RR types and response     *)
(* codes of dns_common.h, resource records, and the zone-table lookup     *)
(* DNS_database_get_record of dns_database.c.                              *)
(*                                                                         *)
(* A domain name is the sequence of its labels, so <<"www","baidu","com">> *)
(* stands for "www.baidu.com"; the SQL text, the sqlite file and the       *)
(* string formatting of dns_database.c are abstracted away.  An A record's *)
(* data (a dotted quad) is kept as a one-label sequence so that every      *)
(* record field is comparable with every other.  MX data "<pref>,<name>"   *)
(* is kept as the exchange name alone: the preference is never compared.  *)
(* Every record has class IN; the only client of each server sends IN.    *)
(***************************************************************************)
EXTENDS Integers, Sequences, SequencesExt

\* RR types of dns_common.h; 0 is what DNS_type_from_str returns for an
\* unknown type string, and the client sends it unchanged.
TYPE_A     == 1
TYPE_NS    == 2
TYPE_CNAME == 5
TYPE_PTR   == 12
TYPE_MX    == 15
TYPE_UNKNOWN == 0

\* The types DNS_type_to_str knows; every other one makes it return
\* "[UNKNOWN]", which the responders take as an unsupported question.
SupportedTypes == {TYPE_A, TYPE_NS, TYPE_CNAME, TYPE_PTR, TYPE_MX}

\* Response codes of dns_common.h.
R_NO_ERROR               == 0
R_FORMAT_ERR             == 1
R_NOT_EXIST              == 3
R_QUERY_TYPE_UNSUPPORTED == 4

\* A resource record and a question.
RR(n, t, d) == [name |-> n, type |-> t, data |-> d]
Question(n, t) == [name |-> n, type |-> t]

\* DNS_database_get_record: the rows of a zone table whose name equals
\* name and whose type is type, or CNAME when includeCname holds, in
\* table (rowid) order.
GetRecord(zone, name, type, includeCname) ==
    SelectSeq(zone, LAMBDA r : /\ r.name = name
                               /\ \/ r.type = type
                                  \/ includeCname /\ r.type = TYPE_CNAME)

\* The name the glue lookup searches for: an NS or CNAME target, or the
\* exchange an MX record's "%d,%s" data parses to.
GlueName(r) == r.data

\* The owner names the NS walk of DNS_query_create_response visits: the
\* name itself, then the name after each dot, longest first (the walk
\* stops at every position following a '.', i.e. at label starts).
NameSuffixes(n) == [i \in 1..Len(n) |-> SubSeq(n, i, Len(n))]

\* The records of a sequence that one of the responders' classification
\* loops treats in each way, for a question of type qtype.
IsPendingCname(r, qtype) == r.type = TYPE_CNAME /\ qtype # TYPE_CNAME
Answered(s, qtype) == SelectSeq(s, LAMBDA r : ~IsPendingCname(r, qtype))
PendingCnames(s, qtype) == SelectSeq(s, LAMBDA r : IsPendingCname(r, qtype))
MxRecords(s) == SelectSeq(s, LAMBDA r : r.type = TYPE_MX)

=============================================================================
