---------------------------- MODULE MCTransport ----------------------------
(* Instantiates Transport with the default zone tables of MCZones, the     *)
(* ASCII bytes of their labels and the bytes of their addresses.          *)
EXTENDS Transport, MCZones

MCServers == {"root", "s2", "s3"}

MCZone == [s \in MCServers |->
              CASE s = "root" -> ZoneRoot
                [] s = "s2"   -> ZoneS2
                [] s = "s3"   -> ZoneS3]

\* The tables the local server's iterative path ends in for the questions
\* below.
MCLocalZone == ZoneS2 \o ZoneS3 \o ZoneS4

\* A CNAME chain, an MX with glue, a referral from the root, an unknown
\* type.
MCQuestions ==
    { Question(wwwBaidu, TYPE_A), Question(bupt, TYPE_MX),
      Question(wwwBaidu, TYPE_UNKNOWN) }

MCIds == {5}

\* dns_client www.baidu.com A, bupt.edu.cn MX, www.baidu.com TXT (a type
\* it does not know), 127.0.0.3 PTR, and local PTR (not an address).
MCCommands ==
    { [arg |-> wwwBaidu, type |-> "A"], [arg |-> bupt, type |-> "MX"],
      [arg |-> wwwBaidu, type |-> "TXT"], [arg |-> <<"127", "0", "0", "3">>, type |-> "PTR"],
      [arg |-> <<"local">>, type |-> "PTR"] }

MCLabelBytes ==
    ("www" :> <<119, 119, 119>>) @@ ("baidu" :> <<98, 97, 105, 100, 117>>)
    @@ ("com" :> <<99, 111, 109>>) @@ ("a" :> <<97>>)
    @@ ("shifen" :> <<115, 104, 105, 102, 101, 110>>)
    @@ ("bupt" :> <<98, 117, 112, 116>>) @@ ("edu" :> <<101, 100, 117>>)
    @@ ("cn" :> <<99, 110>>) @@ ("mx" :> <<109, 120>>)
    @@ ("vn64" :> <<118, 110, 54, 52>>) @@ ("local" :> <<108, 111, 99, 97, 108>>)
    @@ ("ns1" :> <<110, 115, 49>>) @@ ("ns2" :> <<110, 115, 50>>)
    @@ ("ns3" :> <<110, 115, 51>>) @@ ("ns4" :> <<110, 115, 52>>)
    @@ ("in-addr" :> <<105, 110, 45, 97, 100, 100, 114>>)
    @@ ("arpa" :> <<97, 114, 112, 97>>) @@ ("s1" :> <<115, 49>>)
    @@ ("0" :> <<48>>) @@ ("3" :> <<51>>) @@ ("127" :> <<49, 50, 55>>)

MCAddrBytes ==
    ("14.215.177.38" :> <<14, 215, 177, 38>>) @@ ("14.215.177.39" :> <<14, 215, 177, 39>>)
    @@ ("183.3.235.87" :> <<183, 3, 235, 87>>) @@ ("211.68.69.240" :> <<211, 68, 69, 240>>)
    @@ ("127.0.0.3" :> <<127, 0, 0, 3>>) @@ ("127.0.0.4" :> <<127, 0, 0, 4>>)
    @@ ("127.0.0.6" :> <<127, 0, 0, 6>>)

-----------------------------------------------------------------------------
(* A configuration whose reply puts a name past offset 255: one A row,    *)
(* four NS rows at the zone's name with 60-byte target labels, and their *)
(* glue.  The last glue row's owner is compressed to a pointer past 255.  *)

L60(c) == [i \in 1..60 |-> c]

ZoneFar ==
    << RR(<<"q", "x">>, TYPE_A, <<"10.0.0.1">>),
       RR(<<"x">>, TYPE_NS, <<"n1", "x">>), RR(<<"x">>, TYPE_NS, <<"n2", "x">>),
       RR(<<"x">>, TYPE_NS, <<"n3", "x">>), RR(<<"x">>, TYPE_NS, <<"n4", "x">>),
       RR(<<"n1", "x">>, TYPE_A, <<"10.0.0.2">>), RR(<<"n2", "x">>, TYPE_A, <<"10.0.0.3">>),
       RR(<<"n3", "x">>, TYPE_A, <<"10.0.0.4">>), RR(<<"n4", "x">>, TYPE_A, <<"10.0.0.5">>) >>

MCFarServers == {"sx"}
MCFarZone == "sx" :> ZoneFar
MCFarQuestions == { Question(<<"q", "x">>, TYPE_A) }
MCFarCommands == { [arg |-> <<"q", "x">>, type |-> "A"] }
MCFarLabelBytes ==
    ("q" :> <<113>>) @@ ("x" :> <<120>>) @@ ("n1" :> L60(97)) @@ ("n2" :> L60(98))
    @@ ("n3" :> L60(99)) @@ ("n4" :> L60(100))
MCFarAddrBytes ==
    [a \in {"10.0.0.1", "10.0.0.2", "10.0.0.3", "10.0.0.4", "10.0.0.5"} |->
        <<10, 0, 0, CHOOSE k \in 1..5 : a = "10.0.0." \o ToString(k)>>]

\* The stub asking for the root name (dns_client . NS).
MCRootQuestions == { Question(<<>>, TYPE_NS) }
MCRootCommands == { [arg |-> <<>>, type |-> "NS"] }

=============================================================================
