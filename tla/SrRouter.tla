------------------------------ MODULE SrRouter ------------------------------
(***************************************************************************)
(* The IP forwarding path of the software router and its ARP machinery:   *)
(* the frame-reception thread running sr_handlepacket (sr_router.c) and   *)
(* the sweeper thread sr_arpcache_timeout / sr_arpcache_sweepreqs         *)
(* (sr_arpcache.c), sharing the ARP cache of SrArpCache.                  *)
(*                                                                         *)
(* Locking.  lookup, queuereq and destroy take the cache mutex; the       *)
(* sweeper holds it for its whole pass (expiry and the request walk), and *)
(* it is recursive so the packets the sweeper replays through             *)
(* sr_handlepacket re-enter it.  The reception thread's insertion         *)
(* sr_arpcacheinsert takes no lock, so ARP replies and requests are       *)
(* applied to the table even while the sweeper is in the middle of its    *)
(* walk (sw = "walk"); the IP handler needs the lock and only runs while  *)
(* the sweeper sleeps.                                                     *)
(*                                                                         *)
(* Frames are records [id, kind, src, dst, ttl].  id names the packet a   *)
(* frame is or is about (an ICMP error carries the id of the packet that  *)
(* caused it); kind is the protocol: "echo" (ICMP type 8), "udp" (UDP or  *)
(* TCP), "other", an ARP request or reply (src and dst are then the       *)
(* sender and target IP), or one of the ICMP messages the router builds.  *)
(* The routing table is abstracted to its longest-prefix-match result:    *)
(* Route gives the gateway for an address, RouteIf the interface of the   *)
(* route through a gateway.                                                *)
(***************************************************************************)
EXTENDS SrArpCache, Integers, FiniteSets

CONSTANTS
    Hosts,       \* next-hop IP addresses (gateways of the routing table)
    Responsive,  \* the next hops that answer ARP requests
    Addrs,       \* end-host addresses that appear in IP headers
    Me,          \* the router's interface address (IPcheck succeeds on it)
    NoRoute,     \* longestprefixmatch found no entry
    Route,       \* longestprefixmatch(addr)->gw, for every address
    Ifaces,      \* the router's interfaces
    RouteIf,     \* longestprefixmatch(gw)->interface, for every gateway
    Pkts,        \* identities of the frames that arrive
    PktSrc, PktDst, PktKind,  \* their headers
    PktIf,       \* the interface each arrives on
    ArpAsIpSrc,  \* the bytes of an ARP frame at the offset of ip_src
    ArrivalTTLs, \* TTL values an arriving packet may carry
    HopCost,     \* the amount `iphdr->ip_ttl -= 2' takes off
    MaxReplies   \* bound on ARP replies in flight per next hop

ASSUME /\ Responsive \subseteq Hosts
       /\ Hosts \subseteq Addrs /\ Me \in Addrs /\ NoRoute \notin Hosts
       /\ Route \in [Addrs -> Hosts \cup {NoRoute}]
       /\ RouteIf \in [Hosts -> Ifaces]
       /\ \A p \in Pkts : PktSrc[p] \in Addrs /\ PktDst[p] \in Addrs
                          /\ PktIf[p] \in Ifaces
       /\ ArrivalTTLs \subseteq 0..255

DataKinds == {"echo", "udp", "other"}
ArpKinds == {"arp_request", "arp_reply"}
IcmpKinds == {"echo_reply", "unreach_net", "unreach_host", "unreach_port",
              "time_exceeded"}

(* The ARP frames among Pkts are the ones not addressed to the router;   *)
(* ARP traffic for the router is RxArpReply and RxArpRequest.           *)
ASSUME \A p \in Pkts :
          /\ PktKind[p] \in DataKinds \cup ArpKinds
          /\ PktKind[p] \in ArpKinds => PktDst[p] # Me /\ ArpAsIpSrc[p] \in Addrs

NotArrived == -1

VARIABLES
    entries,   \* cache->entries
    reqs,      \* cache->requests, head first
    arrived,   \* the TTL each packet arrived with, NotArrived before
    sent,      \* the frames sent for arriving packets, in order
    replies,   \* ARP replies from each next hop on their way to the router
    sw,        \* the sweeper: "sleep" or "walk" (holding the lock)
    todo       \* the requests the current walk has still to visit

vars == <<entries, reqs, arrived, sent, replies, sw, todo>>

Frame == [id : Pkts, kind : DataKinds \cup ArpKinds \cup IcmpKinds,
          src : Addrs, dst : Addrs, ttl : 0..255]

TypeOK ==
    /\ entries \in [Slots -> [ip : Hosts \cup {NoIP}, valid : BOOLEAN,
                              age : 0..AgeCap]]
    /\ reqs \in Seq([ip : Hosts, times_sent : 0..MaxSends,
                     packets : Seq([frame : Frame, iface : Ifaces])])
    /\ arrived \in [Pkts -> ArrivalTTLs \cup {0, NotArrived}]
    /\ sent \in Seq([frame : Frame, hop : Hosts, iface : Ifaces])
    /\ replies \in [Hosts -> 0..MaxReplies]
    /\ sw \in {"sleep", "walk"}
    /\ todo \in Seq(Hosts)

-----------------------------------------------------------------------------
(***************************************************************************)
(* The handler.  A "handler state" st = [reqs, sent] is threaded through  *)
(* the calls, because the sweeper replays a whole packet list within one  *)
(* pass and each replayed frame sees the queue the previous one left.     *)
(* None of them changes the entry table.                                   *)
(***************************************************************************)

(* sr_ForwardPacket: a cache hit sends the frame on `iface' to the next  *)
(* hop's MAC, a miss queues a copy (with the name of `iface') on the      *)
(* request for the next hop.  No ARP is sent here: the first broadcast    *)
(* waits for the sweeper (a new request's `sent' is 0).                   *)
ForwardPacket(st, f, gw, iface) ==
    IF Lookup(entries, gw)
    THEN [st EXCEPT !.sent = Append(@, [frame |-> f, hop |-> gw, iface |-> iface])]
    ELSE [st EXCEPT !.reqs = QueueReq(@, gw, [frame |-> f, iface |-> iface])]

(* The IP header sr_icmp_make_packet builds: destination the offender's   *)
(* source; source the offender's destination for an echo reply and for    *)
(* code 3, the interface address otherwise; TTL 64, or the request's TTL  *)
(* for an echo reply, whose IP header is copied.                           *)
IcmpFrame(f, kind) ==
    [id |-> f.id, kind |-> kind, dst |-> f.src,
     src |-> IF kind \in {"echo_reply", "unreach_port"} THEN f.dst ELSE Me,
     ttl |-> IF kind = "echo_reply" THEN f.ttl ELSE 64]

(* sr_icmp_make_packet: give up when there is no route back to the        *)
(* offender's source, otherwise forward towards the route's gateway on    *)
(* the route's interface.                                                  *)
MakeIcmp(st, f, kind) ==
    LET gw == Route[f.src]
    IN  IF gw = NoRoute THEN st
        ELSE ForwardPacket(st, IcmpFrame(f, kind), gw, RouteIf[gw])

(* The IP branch of sr_handlepacket, after the checksum test: local       *)
(* delivery answers echo requests and UDP/TCP; otherwise TTL 1 gets a     *)
(* time-exceeded, anything else is decremented by HopCost (8-bit) and     *)
(* forwarded, or answered net-unreachable when no route matches.          *)
HandleIP(st, f) ==
    IF f.dst = Me
    THEN CASE f.kind = "echo" -> MakeIcmp(st, f, "echo_reply")
           [] f.kind = "udp"  -> MakeIcmp(st, f, "unreach_port")
           [] OTHER           -> st
    ELSE IF f.ttl = 1 THEN MakeIcmp(st, f, "time_exceeded")
    ELSE LET g  == [f EXCEPT !.ttl = (@ - HopCost) % 256]
             gw == Route[g.dst]
         IN  IF gw = NoRoute THEN MakeIcmp(st, g, "unreach_net")
             ELSE ForwardPacket(st, g, gw, RouteIf[gw])

(* Plausible slips in the ARP branch below, each rejected by a property:  *)
(* a proxy reply sent to the requester's MAC (ar_sha) instead of the      *)
(* cached target's, and a cache hit that answers and then falls through  *)
(* to the queueing code as well (the `else' of line 308 lost).           *)
ProxyReplyToRequester(f, inIf) ==
    [frame |-> [id |-> f.id, kind |-> "arp_reply", src |-> Me, dst |-> f.src,
                ttl |-> 0],
     hop |-> f.src, iface |-> inIf]

(* The ARP reply sr_arp_make_packet(sinterface, entry->mac, ar_sip, 0)    *)
(* sends for a request whose target is cached: sender the router, target *)
(* IP the requester, addressed (tha and Ethernet destination) to the MAC  *)
(* of the requested target.                                                *)
ProxyReply(f, inIf) ==
    [frame |-> [id |-> f.id, kind |-> "arp_reply", src |-> Me, dst |-> f.src,
                ttl |-> 0],
     hop |-> f.dst, iface |-> inIf]

HandleArpNoElse(st, f, inIf) ==
    LET gw == Route[f.dst]
        hit == IF Lookup(entries, f.dst)
               THEN [st EXCEPT !.sent = Append(@, ProxyReply(f, inIf))]
               ELSE st
    IN  IF f.kind = "arp_reply"
        THEN IF gw = NoRoute THEN st ELSE ForwardPacket(st, f, gw, inIf)
        ELSE IF gw = NoRoute THEN hit
        ELSE [hit EXCEPT !.reqs = QueueReq(@, gw, [frame |-> f, iface |-> RouteIf[gw]])]

(* The ARP branch of sr_handlepacket for a target that is not one of our *)
(* interfaces, on a frame that came in on inIf.  A reply is forwarded     *)
(* unchanged towards the route's gateway, out of the interface it came    *)
(* in on.  A request gets the reply above when the target is cached, and  *)
(* is otherwise queued on the route's gateway.                             *)
HandleArp(st, f, inIf) ==
    LET gw == Route[f.dst]
    IN  IF f.kind = "arp_reply"
        THEN IF gw = NoRoute THEN st ELSE ForwardPacket(st, f, gw, inIf)
        ELSE IF Lookup(entries, f.dst)
             THEN [st EXCEPT !.sent = Append(@, ProxyReply(f, inIf))]
        ELSE IF gw = NoRoute THEN st
        ELSE [st EXCEPT !.reqs = QueueReq(@, gw, [frame |-> f, iface |-> RouteIf[gw]])]

(* sr_handlepacket on a well-formed frame (length and IP checksum good)  *)
(* that arrived on inIf, dispatched on the Ethernet type.                 *)
HandleFrame(st, f, inIf) ==
    IF f.kind \in ArpKinds THEN HandleArp(st, f, inIf) ELSE HandleIP(st, f)

(* What sr_arpcache_sweepreqs reads as the IP header of a queued frame:   *)
(* the frame itself, or for an ARP frame the ARP header's bytes, whose    *)
(* ip_src field holds the last two bytes of the sender MAC and the first  *)
(* two of the sender IP.                                                   *)
IpHeaderOf(f) ==
    IF f.kind \in ArpKinds THEN [f EXCEPT !.src = ArpAsIpSrc[f.id]] ELSE f

-----------------------------------------------------------------------------
Init ==
    /\ entries = InitEntries
    /\ reqs = InitRequests
    /\ arrived = [p \in Pkts |-> NotArrived]
    /\ sent = << >>
    /\ replies = [h \in Hosts |-> 0]
    /\ sw = "sleep"
    /\ todo = << >>

(* Reception of frame p on its interface.  An IP packet carries some TTL *)
(* from ArrivalTTLs (an ARP frame has none; 0 is recorded).  A frame that *)
(* fails its length or IP checksum test (ok = FALSE) is dropped.  The     *)
(* handler's cache calls need the lock, so it runs while the sweeper      *)
(* sleeps.                                                                 *)
RxFrame(p) ==
    /\ sw = "sleep"
    /\ arrived[p] = NotArrived
    /\ \E ttl \in IF PktKind[p] \in ArpKinds THEN {0} ELSE ArrivalTTLs,
          ok \in BOOLEAN :
         LET f  == [id |-> p, kind |-> PktKind[p], src |-> PktSrc[p],
                    dst |-> PktDst[p], ttl |-> ttl]
             st0 == [reqs |-> reqs, sent |-> sent]
             st == IF ok THEN HandleFrame(st0, f, PktIf[p]) ELSE st0
         IN  /\ arrived' = [arrived EXCEPT ![p] = ttl]
             /\ reqs' = st.reqs
             /\ sent' = st.sent
    /\ UNCHANGED <<entries, replies, sw, todo>>

(* Reception of an ARP reply from next hop h addressed to our interface: *)
(* a reply whose target MAC is not ours is dropped, otherwise the mapping *)
(* is inserted with the unlocked sr_arpcacheinsert.  The pending request  *)
(* is left in place for the sweeper.                                       *)
RxArpReply(h) ==
    /\ replies[h] > 0
    /\ replies' = [replies EXCEPT ![h] = @ - 1]
    /\ \E thaIsOurs \in BOOLEAN :
         entries' = IF thaIsOurs THEN Insert(entries, h) ELSE entries
    /\ UNCHANGED <<reqs, arrived, sent, sw, todo>>

(* Reception of an ARP request from h for our interface address: the     *)
(* router answers (an ARP frame, not recorded) and learns h's mapping.    *)
RxArpRequest(h) ==
    /\ entries' = Insert(entries, h)
    /\ UNCHANGED <<reqs, arrived, sent, replies, sw, todo>>

(* The sweeper wakes from sleep(1), takes the lock, expires old entries   *)
(* and starts walking the request list from its head.                     *)
SwTick ==
    /\ sw = "sleep"
    /\ sw' = "walk"
    /\ entries' = Expire(entries)
    /\ todo' = [i \in DOMAIN reqs |-> reqs[i].ip]
    /\ UNCHANGED <<reqs, arrived, sent, replies>>

(* sr_arp_request: broadcast an ARP request for ip on the interface of    *)
(* its route; a responsive next hop will answer it.                        *)
ArpRequest(ip) ==
    IF Route[ip] # NoRoute /\ ip \in Responsive
    THEN [replies EXCEPT ![ip] = IF @ < MaxReplies THEN @ + 1 ELSE @]
    ELSE replies

(* One iteration of the sr_arpcache_sweepreqs loop, for the request at    *)
(* the walk's position.  (Its `difftime(t, req->sent) >= 1' holds at     *)
(* every tick: a request is visited once per pass and passes are at      *)
(* least a second apart.)  An exhausted request answers each queued frame *)
(* host-unreachable and is destroyed; a resolved one replays each frame   *)
(* through sr_handlepacket, as if it had arrived on the interface it was *)
(* queued for, and is destroyed; otherwise another ARP                    *)
(* request is broadcast.  Frames queued while the list is walked go to    *)
(* the head of their lists and are not visited by the walk.               *)
SwVisit ==
    /\ sw = "walk"
    /\ todo # << >>
    /\ LET ip == Head(todo)
           r  == Req(reqs, ip)
           st == [reqs |-> reqs, sent |-> sent]
           ex == FoldLeft(LAMBDA s, q : MakeIcmp(s, IpHeaderOf(q.frame),
                                                 "unreach_host"),
                          st, r.packets)
           rp == FoldLeft(LAMBDA s, q : HandleFrame(s, q.frame, q.iface),
                          st, r.packets)
       IN  CASE Exhausted(r) ->
                  /\ reqs' = DestroyReq(ex.reqs, ip)
                  /\ sent' = ex.sent
                  /\ UNCHANGED replies
             [] Lookup(entries, ip) ->
                  /\ reqs' = DestroyReq(rp.reqs, ip)
                  /\ sent' = rp.sent
                  /\ UNCHANGED replies
             [] OTHER ->
                  /\ replies' = ArpRequest(ip)
                  /\ reqs' = [reqs EXCEPT ![ReqIndex(reqs, ip)] = CountSend(@)]
                  /\ UNCHANGED sent
    /\ todo' = Tail(todo)
    /\ UNCHANGED <<entries, arrived, sw>>

(* The end of the walk: the sweeper unlocks and sleeps again. *)
SwUnlock ==
    /\ sw = "walk"
    /\ todo = << >>
    /\ sw' = "sleep"
    /\ UNCHANGED <<entries, reqs, arrived, sent, replies, todo>>

Next ==
    \/ \E p \in Pkts : RxFrame(p)
    \/ \E h \in Hosts : RxArpReply(h) \/ RxArpRequest(h)
    \/ SwTick
    \/ SwVisit
    \/ SwUnlock

(* The sweeper is an endless loop around sleep(1): it keeps taking steps. *)
(* Nothing obliges the network to deliver packets or ARP replies.         *)
Spec == Init /\ [][Next]_vars /\ WF_vars(SwTick \/ SwVisit \/ SwUnlock)

-----------------------------------------------------------------------------
(* Queued(p): a frame that is or is about packet p waits in a request. *)
Queued(p) == \E i \in DOMAIN reqs : \E j \in DOMAIN reqs[i].packets :
                reqs[i].packets[j].frame.id = p

(* The sent frames that answer packet p: p itself forwarded, or an ICMP   *)
(* message to its sender (not an ICMP error about one of our own ICMPs,   *)
(* which goes to the router's address).                                    *)
Outcomes(p) == {i \in DOMAIN sent : sent[i].frame.id = p /\ sent[i].frame.dst # Me}

(* Request list integrity under the two threads: sr_arpcache_queuereq,    *)
(* called from the reception thread and from the sweeper's replays, keeps *)
(* one request per next hop, every request holds a queued frame, and no   *)
(* request is sent more than MaxSends ARP requests.                        *)
ReqWellFormed ==
    /\ \A i, j \in DOMAIN reqs : i # j => reqs[i].ip # reqs[j].ip
    /\ \A i \in DOMAIN reqs : reqs[i].packets # << >>
                              /\ reqs[i].times_sent <= MaxSends

(* No packet is answered twice: across reception, queueing, the sweeper's *)
(* replay of resolved requests and its host-unreachable answers, each     *)
(* packet is forwarded or answered by ICMP at most once.                   *)
AtMostOneOutcome == \A p \in Pkts : Cardinality(Outcomes(p)) <= 1

(* Every frame queued on a pending request leaves the queue: the sweeper  *)
(* either replays it or gives up on it after MaxSends ARP requests.        *)
QueueDrains == \A p \in Pkts : Queued(p) ~> ~Queued(p)

(* A pending request is never abandoned with host-unreachable answers     *)
(* while the cache already resolves its address: the spec promises that   *)
(* inserting a resolution gets every queued packet forwarded once.        *)
ExhaustStep(ip) ==
    /\ SwVisit /\ Head(todo) = ip /\ Exhausted(Req(reqs, ip))
ResolvedNotAbandoned ==
    [][\A ip \in Hosts : ExhaustStep(ip) => ~Lookup(entries, ip)]_vars

(* A forwarded packet leaves with its arrival TTL decremented once by the *)
(* router's per-hop cost.                                                  *)
ForwardedTTL ==
    \A i \in DOMAIN sent :
        sent[i].frame.kind \in DataKinds
          => sent[i].frame.ttl = (arrived[sent[i].frame.id] - HopCost) % 256

(* Every ICMP error the router sends about a packet goes back to that    *)
(* packet's sender (or, for an error about one of the router's own ICMP  *)
(* messages, to the router's address), including the host-unreachable    *)
(* answers of the sweeper for every frame it gives up on.                 *)
IcmpToSender ==
    \A i \in DOMAIN sent :
        sent[i].frame.kind \in IcmpKinds \ {"echo_reply"}
          => sent[i].frame.dst \in {PktSrc[sent[i].frame.id], Me}

(* Every frame the router forwards towards a next hop, relayed ARP       *)
(* replies included (spec.md 4.4: "via the standard forwarding path"),    *)
(* leaves on the interface of the route through that next hop.  The ARP   *)
(* replies the router itself makes for a cached target are not forwarded  *)
(* and are exempt.                                                         *)
ProxyReplyFrame(f) == f.kind = "arp_reply" /\ f.src = Me
EgressOnRoute ==
    \A i \in DOMAIN sent :
        ~ProxyReplyFrame(sent[i].frame) => sent[i].iface = RouteIf[sent[i].hop]

=============================================================================
