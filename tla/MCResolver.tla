---------------------------- MODULE MCResolver ----------------------------
(* Instantiates Resolver with the default zone tables of MCZones.         *)
EXTENDS Resolver, MCZones

MCServers == {"root", "s1", "s2", "s3"}

MCZone == [s \in MCServers |->
              CASE s = "root" -> ZoneRoot
                [] s = "s1"   -> ZoneS1
                [] s = "s2"   -> ZoneS2
                [] s = "s3"   -> ZoneS3]

MCAddrServer == (IpRoot :> "root") @@ (IpS1 :> "s1") @@ (IpS2 :> "s2") @@ (IpS3 :> "s3")

\* Single-question requests for the CNAME chain, the CNAME itself and an MX
\* with glue three delegations down, and one request holding a question of
\* unknown type before the chain's target.
MCRequestsAll ==
    { << Question(wwwBaidu, TYPE_A) >>, << Question(wwwBaidu, TYPE_CNAME) >>,
      << Question(bupt, TYPE_MX) >>,
      << Question(wwwBaidu, TYPE_UNKNOWN), Question(wwwShifen, TYPE_A) >> }

\* Only the A question of the CNAME chain.
MCRequestsChain == { << Question(wwwBaidu, TYPE_A) >> }

\* The CNAME chain asked for its CNAME and for its A rows.
MCRequestsCrossType ==
    { << Question(wwwBaidu, TYPE_A) >>, << Question(wwwBaidu, TYPE_CNAME) >> }

=============================================================================
