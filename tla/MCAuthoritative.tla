-------------------------- MODULE MCAuthoritative --------------------------
(* Instantiates Authoritative with the default zone tables of MCZones.    *)
EXTENDS Authoritative, MCZones

MCServers == {"root", "s1", "s2", "s3", "s4", "sx"}

MCZone == [s \in MCServers |->
              CASE s = "root" -> ZoneRoot
                [] s = "s1"   -> ZoneS1
                [] s = "s2"   -> ZoneS2
                [] s = "s3"   -> ZoneS3
                [] s = "s4"   -> ZoneS4
                [] s = "sx"   -> ZoneSx]

MCIds == {0, 1}

\* One-question requests as the resolver sends them, and a two-question
\* request with an unsupported type such as another client may send.
MCRequests ==
    { <<Question(wwwBaidu, TYPE_A)>>, <<Question(wwwBaidu, TYPE_CNAME)>>,
      <<Question(bupt, TYPE_MX)>>, <<Question(wwwBupt, TYPE_A)>>,
      <<Question(ptr127, TYPE_PTR)>>, <<Question(xa, TYPE_A)>>,
      <<Question(xd, TYPE_A)>>, <<Question(xc, TYPE_MX)>>,
      <<Question(xa, TYPE_CNAME), Question(xc, TYPE_UNKNOWN)>> }

=============================================================================
