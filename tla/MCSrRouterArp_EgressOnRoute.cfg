CONSTANTS
    g1 = g1  g2 = g2  a1 = a1  a2 = a2  a3 = a3  me = me  e1 = e1  e2 = e2
    p1 = p1  p2 = p2  p3 = p3  p4 = p4
    NoIP = NoIP
    NoRoute = NoRoute
    Hosts <- MCHosts
    Responsive <- MCResponsive
    Addrs <- MCAddrs
    Me <- me
    Route <- MCRoute
    Ifaces <- MCIfaces
    RouteIf <- MCRouteIf
    Pkts <- MCArpPkts
    PktSrc <- MCPktSrc
    PktDst <- MCPktDst
    PktKind <- MCPktKind
    PktIf <- MCPktIf
    ArpAsIpSrc <- MCArpAsIpSrc
    ArrivalTTLs = {1, 4}
    HopCost = 2
    CacheSize = 2
    CacheTO = 2
    MaxSends = 5
    MaxReplies = 1
SPECIFICATION Spec




INVARIANT EgressOnRoute
