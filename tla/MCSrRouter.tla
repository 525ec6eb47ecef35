---------------------------- MODULE MCSrRouter ----------------------------
(***************************************************************************)
(* Small networks for SrRouter.  Interface e1 leads to next hop g1,       *)
(* which answers ARP, and e2 to g2, which never does.  Host a1 sits       *)
(* behind g1, a2 behind g2, a3 is unroutable and me is the router.        *)
(*   p1  UDP a2 -> a1 on e2: forwarded through g1, its errors go back     *)
(*       through the dead g2;                                              *)
(*   p2  UDP a1 -> a2 on e1: stuck behind g2, answered host-unreachable   *)
(*       through g1;                                                       *)
(* MCPkts carries the IP traffic p1, p2; MCArpPkts the ARP traffic p3,   *)
(* p4 (the two together exceed what TLC explores in minutes):             *)
(*   p3  ARP request from a1 for g2 on e1: answered from the cache when   *)
(*       g2 is cached, else queued on g2 until the sweeper gives up; its  *)
(*       ARP header read as an IP header has source a2;                   *)
(*   p4  ARP reply from g2 to a1 on e2: relayed towards g1.               *)
(* Route and RouteIf are those longestprefixmatch gives for MCRTable:    *)
(* 10.0.0.0/16 via g2 on e2, listed first, and 10.0.1.0/24 via g1 on e1, *)
(* which must win for the addresses in both.                              *)
(***************************************************************************)
EXTENDS SrRouter, SrLpm

CONSTANTS g1, g2, a1, a2, a3, me, e1, e2, p1, p2, p3, p4

MCHosts == {g1, g2}
MCResponsive == {g1}
MCAddrs == {g1, g2, a1, a2, a3, me}
MCIp == (g1 :> <<10, 0, 1, 1>>) @@ (a1 :> <<10, 0, 1, 7>>) @@ (me :> <<10, 0, 1, 254>>)
        @@ (g2 :> <<10, 0, 2, 1>>) @@ (a2 :> <<10, 0, 9, 9>>) @@ (a3 :> <<192, 168, 0, 1>>)
MCRTable == << [dest |-> <<10, 0, 0, 0>>, mask |-> MaskOfLen(16), gw |-> g2, iface |-> e2],
               [dest |-> <<10, 0, 1, 0>>, mask |-> MaskOfLen(24), gw |-> g1, iface |-> e1] >>
MCRoute == (g1 :> g1) @@ (a1 :> g1) @@ (me :> g1)
           @@ (g2 :> g2) @@ (a2 :> g2) @@ (a3 :> NoRoute)
MCIfaces == {e1, e2}
MCRouteIf == (g1 :> e1) @@ (g2 :> e2)

(* The routes are what longestprefixmatch returns for MCRTable: the gw of *)
(* the entry chosen for each address, and the interface of the entry      *)
(* chosen for each gateway.                                                *)
ASSUME /\ \A a \in MCAddrs :
            LET i == LongestPrefixMatch(MCRTable, MCIp[a])
            IN  MCRoute[a] = IF i = 0 THEN NoRoute ELSE MCRTable[i].gw
       /\ \A h \in MCHosts : MCRouteIf[h] = MCRTable[LongestPrefixMatch(MCRTable, MCIp[h])].iface
MCPkts == {p1, p2}
MCArpPkts == {p3, p4}
MCPktSrc == (p1 :> a2) @@ (p2 :> a1) @@ (p3 :> a1) @@ (p4 :> g2)
MCPktDst == (p1 :> a1) @@ (p2 :> a2) @@ (p3 :> g2) @@ (p4 :> a1)
MCPktKind == (p1 :> "udp") @@ (p2 :> "udp")
             @@ (p3 :> "arp_request") @@ (p4 :> "arp_reply")
MCPktIf == (p1 :> e2) @@ (p2 :> e1) @@ (p3 :> e1) @@ (p4 :> e2)
MCArpAsIpSrc == (p3 :> a2) @@ (p4 :> a2)

(* Candidate routing entries: a default route, and /8, /12, /16 and /24 *)
(* prefixes nested inside each other, the /12 having a mask byte that is *)
(* neither 0 nor 255.                                                      *)
MCLpmEntries ==
    {[dest |-> d, mask |-> MaskOfLen(n), gw |-> g1, iface |-> e1] :
        <<d, n>> \in {<<<<0, 0, 0, 0>>, 0>>, <<<<10, 0, 0, 0>>, 8>>, <<<<10, 16, 0, 0>>, 12>>,
                      <<<<10, 16, 0, 0>>, 16>>, <<<<10, 16, 1, 0>>, 24>>}}
MCLpmTargets == {<<10, 16, 1, 5>>, <<10, 17, 0, 1>>, <<10, 0, 0, 1>>, <<192, 168, 0, 1>>}

(* longestprefixmatch, comparing network-order masks as little-endian    *)
(* integers, still picks the first entry with the longest covering prefix *)
(* in every table of up to three of the candidate entries, in any order:  *)
(* for contiguous masks the byte-swapped value still grows with the       *)
(* prefix length.                                                          *)
ASSUME LpmMatchesRef(MCLpmEntries, 3, MCLpmTargets)
=============================================================================
