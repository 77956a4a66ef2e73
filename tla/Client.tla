------------------------------ MODULE Client ------------------------------
(***************************************************************************)
(* The command line of dns_client (main in dns_client.c): the type string *)
(* through DNS_type_from_str (dns_common.c), and for a PTR query the      *)
(* address turned into its reverse name by                                 *)
(*     addr.s_addr = htonl(inet_addr(argv[1]));                            *)
(*     sprintf(name, "%s.in-addr.arpa", inet_ntoa(addr));                  *)
(* with the early return when s_addr is -1.                                *)
(*                                                                         *)
(* argv[1] is the sequence of its dot-separated parts, like every name of *)
(* the models.  What htonl does depends on the byte order of the host the *)
(* client is built for.                                                    *)
(***************************************************************************)
EXTENDS DnsZone

CONSTANT Endianness   \* "little" or "big": the host's byte order

\* DNS_type_from_str: 0 for a string it does not know.
TypeFromStr(s) ==
    CASE s = "A"     -> TYPE_A
      [] s = "NS"    -> TYPE_NS
      [] s = "MX"    -> TYPE_MX
      [] s = "PTR"   -> TYPE_PTR
      [] s = "CNAME" -> TYPE_CNAME
      [] OTHER       -> TYPE_UNKNOWN

\* A 32-bit value is the 4 bytes it occupies in memory, lowest address
\* first.  INADDR_NONE (-1) has all bytes 255 in either byte order.
INADDR_NONE == <<255, 255, 255, 255>>

\* A part of a dotted quad: the decimal digits of a number up to 255.
IsOctet(l) == \E n \in 0..255 : ToString(n) = l
Octet(l) == CHOOSE n \in 0..255 : ToString(n) = l

\* inet_addr of a dotted quad: its 4 numbers stored in network order;
\* INADDR_NONE for anything else.
InetAddr(a) ==
    IF Len(a) = 4 /\ \A i \in 1..4 : IsOctet(a[i])
    THEN [i \in 1..4 |-> Octet(a[i])]
    ELSE INADDR_NONE

\* htonl: the host value stored most significant byte first.  On a
\* little-endian host that reverses the bytes, on a big-endian one it
\* leaves them.
HtonlNoSwap(v) == v
Htonl(v) == IF Endianness = "little" THEN Reverse(v) ELSE v

\* inet_ntoa: the bytes of s_addr in memory order, in decimal.
Ntoa(v) == [i \in 1..4 |-> ToString(v[i])]

\* main's early return: a PTR argument whose converted address is -1.
Refused(arg, type) == type = TYPE_PTR /\ Htonl(InetAddr(arg)) = INADDR_NONE

\* The name main passes to DNS_network_send_query_tcp.
QueryName(arg, type) ==
    IF type = TYPE_PTR THEN Ntoa(Htonl(InetAddr(arg))) \o <<"in-addr", "arpa">>
    ELSE arg

\* The reverse-lookup name of an IPv4 address (RFC 1035 3.5): its four
\* numbers last to first, under in-addr.arpa.
ReverseName(a) == [i \in 1..4 |-> a[5 - i]] \o <<"in-addr", "arpa">>

=============================================================================
