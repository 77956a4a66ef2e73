------------------------------ MODULE MCZones ------------------------------
(***************************************************************************)
(* The zone tables DNS_database_write_default_data puts into the sqlite   *)
(* file (dns_database.c 27-65), in rowid order, and the addresses the     *)
(* roles bind to (dns_common.h 12-17).  Rows of the tables that no        *)
(* question of the models below reaches are left out; the table "sx" is  *)
(* an extra configuration with the shapes the default data lacks (a       *)
(* two-step CNAME chain, a CNAME to a missing name, an NS row at the      *)
(* queried name itself and an NS target without glue).                    *)
(***************************************************************************)
EXTENDS DnsZone

\* Names used below.
cn        == <<"cn">>
eduCn     == <<"edu", "cn">>
baidu     == <<"baidu", "com">>
wwwBaidu  == <<"www", "baidu", "com">>
wwwShifen == <<"www", "a", "shifen", "com">>
ns1       == <<"ns1", "local">>
ns2       == <<"ns2", "local">>
ns3       == <<"ns3", "local">>
bupt      == <<"bupt", "edu", "cn">>
mxBupt    == <<"mx", "bupt", "edu", "cn">>
wwwBupt   == <<"www", "bupt", "edu", "cn">>
vn64      == <<"vn64", "bupt", "edu", "cn">>
ptr127    == <<"3", "0", "0", "127", "in-addr", "arpa">>
arpa      == <<"in-addr", "arpa">>
ns4       == <<"ns4", "local">>
s1Local   == <<"s1", "local">>
xa        == <<"a", "x">>
xb        == <<"b", "x">>
xc        == <<"c", "x">>
xd        == <<"d", "x">>
xe        == <<"e", "x">>
xns       == <<"ns", "x">>
xnone     == <<"none", "x">>

\* Addresses (an A row's data).
IpS1   == <<"127.0.0.3">>
IpS2   == <<"127.0.0.4">>
IpS3   == <<"127.0.0.5">>
IpS4   == <<"127.0.0.6">>
IpRoot == <<"127.0.0.7">>

ZoneRoot ==
    << RR(cn, TYPE_NS, ns1), RR(baidu, TYPE_NS, ns2), RR(ns1, TYPE_A, IpS1),
       RR(ns2, TYPE_A, IpS2), RR(arpa, TYPE_NS, ns4), RR(ns4, TYPE_A, IpS4) >>

ZoneS1 ==
    << RR(eduCn, TYPE_NS, ns3), RR(ns3, TYPE_A, IpS3) >>

ZoneS2 ==
    << RR(wwwBaidu, TYPE_CNAME, wwwShifen),
       RR(wwwShifen, TYPE_A, <<"14.215.177.38">>),
       RR(wwwShifen, TYPE_A, <<"14.215.177.39">>) >>

ZoneS3 ==
    << RR(bupt, TYPE_MX, mxBupt), RR(mxBupt, TYPE_A, <<"183.3.235.87">>),
       RR(wwwBupt, TYPE_CNAME, vn64), RR(vn64, TYPE_A, <<"211.68.69.240">>) >>

ZoneS4 ==
    << RR(ptr127, TYPE_PTR, s1Local) >>

ZoneSx ==
    << RR(xa, TYPE_CNAME, xb), RR(xb, TYPE_CNAME, xc), RR(xc, TYPE_A, <<"10.0.0.1">>),
       RR(xd, TYPE_CNAME, xe), RR(xa, TYPE_NS, xns), RR(xns, TYPE_A, <<"10.0.0.2">>),
       RR(xc, TYPE_NS, xnone), RR(xc, TYPE_MX, xns) >>

=============================================================================
