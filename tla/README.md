# TLA+ models of the software router (zihaom/networks)

This directory holds TLA+ models of the software IP router in
`src/networks/router/`. The router has a frame-reception thread, a sweeper
thread and an ARP cache they share. The models are checked with TLC. The
repository also contains a reliable-transport exercise (`src/networks/tcp/ctcp2.c`
and two earlier drafts) and an SMTP client (`proj1b.c`). The transport of `ctcp2.c` is modelled too (section 2,
`Ctcp.tla`); the drafts and the SMTP client are not.

## 1. Inventory

### Components

| Component | Source | State it keeps | Operations |
|---|---|---|---|
| Routing table lookup | `sr_router.c:69-85` `longestprefixmatch` | none (reads the static table) | longest-prefix match, ties to the first entry |
| ARP cache | `sr_arpcache.c:121-282`, `sr_router.c:380-395` | `entries[SR_ARPCACHE_SZ]` (ip, mac, added, valid); `requests` list (ip, sent, times_sent, packets) | `sr_arpcache_lookup` (locked, returns a copy), `sr_arpcacheinsert` (**unlocked**, first invalid slot, dropped when full), `sr_arpcache_insert` (locked, also unlinks the request; never called), `sr_arpcache_queuereq` (locked, find-or-prepend, prepends the frame copy), `sr_arpreq_destroy` (locked, unlink and free) |
| ARP cache sweeper | `sr_arpcache.c:70-115, 323-347` | the walk over `requests` | every second: lock, expire entries older than 15 s, walk the requests (exhausted → ICMP host-unreachable per frame, then destroy; resolved → replay each frame through `sr_handlepacket`, then destroy; else broadcast ARP and `times_sent++`), unlock |
| Packet classifier & forwarder | `sr_router.c:202-233, 250-374, 402-420` | none of its own; uses the cache | ARP reply for us → MAC check (`strncmp`) → insert; ARP reply not for us → relay; ARP request for us → reply and insert; ARP request not for us → proxy reply on a cache hit, else queue the frame on the route's gateway; IP → checksum, local (echo → echo reply, UDP/TCP → port unreachable) or forward (TTL 1 → time exceeded; else TTL −= 2, checksum, LPM, no route → net unreachable, else `sr_ForwardPacket`: hit → send, miss → queue) |
| ICMP generator | `sr_router.c:93-196` | none | builds echo reply / unreachable (codes 0, 1, 3) / time exceeded, routes it back to the sender, gives up without a route, then calls `sr_ForwardPacket` (so an ICMP message can be queued for ARP too) |
| ARP generator | `sr_arpcache.c:16-63` | none | request: broadcast on the route's interface; reply: unicast |
| cTCP transport | `tcp/ctcp2.c` | send window (segments, seqno, timer, retrans counter), receive window (segments, ackno), teardown timer | read, send, retransmit, receive (FIN, FIN-ACK, data, ACK), output, timer |
| cTCP drafts | `tcp/cpctcp.c`, `tcp/oldctcp.c` | as above | earlier stop-and-wait versions |
| SMTP client | `tcp/proj1b.c` | socket | a fixed command/response dialogue |

### How they interact

* The reception thread calls `sr_handlepacket` once per frame. That call
  reads the routing table, uses the cache (lookup, insert, queuereq) and
  builds ICMP and ARP frames.
* The sweeper thread (`sr_arpcache_timeout`, started by `sr_init`) holds the
  cache mutex for its whole pass. From inside that pass it calls
  `sr_handlepacket` to replay queued frames and `sr_icmp_make_packet` for
  abandoned ones. Both re-enter the cache, which is why the mutex is
  recursive (`sr_arpcache.c:310`).
* The reception thread's `sr_arpcacheinsert` does **not** take the mutex. ARP
  replies and requests therefore change the entry table even while the
  sweeper is in the middle of its pass.
* Frames leave through `sr_send_packet`, which is external.

### What is hard here

* **Two threads over one cache.** The insert is unlocked while the other
  operations are locked. A resolution reaches the cache without reaching the
  pending request; the sweeper discovers it on its next pass.
* **Timeouts and retries.** There are 5 ARP attempts a second apart. A reply can
  arrive after the last attempt, and requests and replies can be lost.
* **Re-entrant replay.** A queued frame is handled a second time "as if
  freshly received". That handling can queue frames again, on the request
  being destroyed or on others, while the walk is in progress.
* **Fixed capacity and 8-bit arithmetic.** The cache table is full when every
  slot is valid. `ip_ttl` is a `uint8_t` decremented by 2.
* **Memory lifetime.** `req->next` is read after `sr_arpreq_destroy(req)`.

### What makes each component correct

* Cache: at most one valid entry per IP (spec §3). An inserted mapping is found
  until it expires (spec §8). Requests are unique per IP and non-empty.
* Sweeper: every queued frame eventually leaves the queue. A request is never
  abandoned while its address is resolved.
* Forwarder: each packet is forwarded or answered at most once. A forwarded
  packet's TTL drops by the per-hop cost exactly once. TTL 1 is never forwarded.
* LPM: the result has the longest matching mask, ties to the first entry.
* ICMP: every error goes back to the offender's source; an echo reply swaps
  the addresses.

`PROJECT.json` lists the hazards these properties are aimed at, each at the
line where it bites.

## 2. Modules

### `SrArpCache.tla`: the cache's data operators

This module holds the entry table `[Slots -> [ip, valid, age]]` and the
request list (a sequence, head first, of `[ip, times_sent, packets]`). Its
operators are:

* `Lookup`
* `FreeSlot` and `Insert`: the unlocked insert's loop, with a silent drop when
  the table is full
* `Expire`: one sweeper second
* `ReqIndex`, `QueueReq` and `DestroyReq`
* `Exhausted` and `CountSend`: the send counter

Time is abstracted to sweeper ticks. An entry's `added` becomes an `age`
capped at `CacheTO + 1`. The `added` of an invalid entry is never read. MAC
addresses are omitted: each next hop has one true MAC and no property tells
MACs apart. The module also holds the plausible coding slips (`QueueReqNoSearch`,
`DestroyReqKeep`, `ExhaustedLate`, `CountSendNot`) that the mutation runs
substitute for the real operators.

### `SrRouter.tla`: the two threads composed over the cache

| Variable | Code |
|---|---|
| `entries`, `reqs` | `cache->entries`, `cache->requests` |
| `arrived` | the TTL each packet arrived with (to state the TTL property) |
| `sent` | the IP frames handed to `sr_send_packet`, in order |
| `replies` | ARP replies in flight per next hop (at most `MaxReplies`) |
| `sw`, `todo` | sweeper asleep or walking (holding the lock), and the requests its walk still has to visit |

| Action | Code |
|---|---|
| `RxFrame(p)` | reception of frame `p` on its interface `PktIf[p]`: length/checksum test (`ok`), then `HandleFrame`, which is the whole of `sr_handlepacket`. It dispatches to `HandleIP` (with `MakeIcmp`/`IcmpFrame` = `sr_icmp_make_packet` and `ForwardPacket` = `sr_ForwardPacket`) or to `HandleArp`, the branch for ARP traffic whose target is not the router: a relayed reply, a proxy reply (`ProxyReply` = `sr_arp_make_packet`) on a cache hit, or the request queued on the route's gateway |
| `RxArpReply(h)` | ARP reply from `h` to us: target-MAC check, unlocked insert |
| `RxArpRequest(h)` | ARP request from `h` for our address: reply (not recorded), unlocked insert |
| `SwTick` | the sweeper wakes: lock, `Expire`, start walking the list |
| `SwVisit` | one iteration of `sr_arpcache_sweepreqs`: exhausted → host-unreachable for every frame, read through `IpHeaderOf` (folded over the list) and destroy; resolved → replay every frame through `HandleFrame` on the interface it was queued for (folded) and destroy; else `ArpRequest` and `CountSend` |
| `SwUnlock` | end of the pass |

A frame is `[id, kind, src, dst, ttl]`; for an ARP frame `src` and `dst`
are the sender and target IPs. Interfaces are `Ifaces`; `RouteIf` gives the
interface of the route through each next hop. `IpHeaderOf` is what the
sweeper reads when it casts a queued ARP frame to an IP header: the frame with
`src` replaced by `ArpAsIpSrc[id]`, the address that the sender-MAC and
sender-IP bytes at the `ip_src` offset happen to spell. An ICMP message carries the id of
the packet it is about, so the properties can follow a packet through
queueing, replay and error reports. Routing is abstracted to `Route`, the
result of longest-prefix match for every address. `SrLpm` models the
algorithm itself, and `MCSrRouter` checks that its `Route` is what the
algorithm returns (below).

**Atomicity.** Each action is one step.

* `RxFrame` runs only while the sweeper sleeps, because it needs the lock.
  Inside it, `sr_ForwardPacket` holds the lock twice (lookup, then queuereq).
  A sweeper pass in between can only invalidate entries and destroy requests.
  A miss stays a miss, and queuereq then creates a fresh request. That is the
  state reached by running the whole handler after the pass, so one step loses
  no behaviour.
* The two ARP actions are lock-free and run at any time, including between
  two `SwVisit` steps. The stores of the unlocked insert are applied at once,
  in program order with `valid` last. A reader therefore sees either the old
  invalid slot or the whole new entry. Reordered stores are the subject of a
  planned module.
* The walk continues after `sr_arpreq_destroy` with the freed request's
  `next`. With glibc this is the true successor: free overwrites only the first
  16 bytes of the chunk, and `next` is at offset 32.

**Fairness.** `WF_vars(SwTick \/ SwVisit \/ SwUnlock)`. The sweeper is a
`while (1)` loop around `sleep(1)` that holds no lock while it sleeps and
never blocks otherwise. Nothing is fair about the network: packets, ARP
requests and ARP replies may never come. A reply left in `replies` forever is
a lost reply.

### `MCSrRouter.tla` and its configurations

`MCSrRouter.tla` defines one network and two packet sets for it (all of
them together are beyond a few minutes of TLC). The network has:

* next hops `g1`, which answers ARP, and `g2`, which never does
* hosts `a1` behind `g1` and `a2` behind `g2`
* `a3`, which has no route
* `me`, the router's own address
* interfaces `e1` towards `g1` and `e2` towards `g2`
* `p1`, a UDP packet from `a2` to `a1`: forwarded through `g1`, with its errors
  sent back through the dead `g2`
* `p2`, a UDP packet from `a1` to `a2`: stuck behind `g2` and answered
  host-unreachable through `g1`
* `p3`, an ARP request from `a1` for `g2` on `e1`: answered by proxy when
  `g2` is cached (after `RxArpRequest(g2)`), else queued on `g2`, which never
  answers; read as an IP header its source is `a2`
* `p4`, an ARP reply from `g2` to `a1` arriving on `e2`, relayed towards `g1`

`MCSrRouter.cfg` sends `p1`, `p2` (the IP path); `MCSrRouterArp.cfg` sends
`p3`, `p4` (the ARP path, including its replays and exhausted requests).

The other bounds are:

* arrival TTLs {1, 4}: 1 takes the time-exceeded branch; 4 is forwarded with 2,
  or queued with 2 and replayed
* `HopCost` 2, as in the code
* 2 cache slots, which is enough for a full table with two next hops
* `CacheTO` 2 ticks, so entries expire within a retry cycle
* `MaxSends` 5, the code's value
* at most one ARP reply in flight per next hop

### `SrLpm.tla`: the routing table lookup

`LongestPrefixMatch(rt, t)` is the loop of `longestprefixmatch`
(`sr_router.c:69-85`), written as a `FoldLeftDomain` over the table. It
returns the index of the entry chosen, or 0 for NULL. An address or mask is
its four network-order bytes.
* `MaskedEq` is the test `(mask & dest) == (mask & target_ip)`, with
  `Bitwise`'s `&` applied byte by byte.
* `HostU32` is the `uint32_t` that a little-endian host loads from those bytes.
  The code compares masks with `>` on this value.

`RefLpm` is the reference. Among the entries whose first `PrefixLen(mask)`
bits agree with the target, it returns the first of those with the longest
prefix. It is written over single bits and shares nothing with the loop.

Two `ASSUME`s of `MCSrRouter` use the module:
* The routes `MCRoute` and `MCRouteIf` are what `LongestPrefixMatch` returns
  for `MCRTable`. That table has 10.0.0.0/16 via `g2`, listed first, then
  10.0.1.0/24 via `g1`, and the /24 must win for `a1`, `g1` and `me`.
* `LpmMatchesRef`: the loop equals the reference on every table of up to
  three entries, repeats included, drawn from /0, /8, /12, /16 and /24
  prefixes nested inside each other. The table is checked for four targets,
  each covered by a different subset of the prefixes.

TLC evaluates each `ASSUME` once when a router run starts. A failed `ASSUME`
stops the run. A property would be evaluated again in every state, because TLC
does not cache a definition that uses a recursive operator, and the folds
here are recursive.

The check shows that comparing byte-swapped masks as integers still picks
the longest prefix (`sr_router.c:77`). For contiguous masks the swapped value
grows with the prefix length: /8 is 255, /12 is 61 695, /16 is 65 535. A
copy of the loop with `!nexthop ||` dropped fails the `ASSUME`, because a
default route is then never chosen.

| Run | cfg | Expect | Properties | What it shows |
|---|---|---|---|---|
| `router` | `MCSrRouter.cfg` | pass | `TypeOK`, `ReqWellFormed`, `AtMostOneOutcome`, `QueueDrains` | See below. 206 678 distinct states, about 50 s. |
| `router_arp` | `MCSrRouterArp.cfg` | pass | the same four | The same on the ARP path. 51 395 distinct states, about 20 s. |
| `late_arp_reply` | `MCSrRouter_ResolvedNotAbandoned.cfg` | violation | `ResolvedNotAbandoned` | A mapping cached after the fifth ARP request is ignored: the sweeper tests `times_sent >= 5` before the cache, and the queued packets get host-unreachable. |
| `replay_ttl` | `MCSrRouter_ForwardedTTL.cfg` | violation | `ForwardedTTL` | A queued packet is decremented when first handled and again when replayed. TTL 4 leaves as 0; TTL 2 would leave as 254. A TTL of 2 forwarded as 0 on the first pass is what spec §8 prescribes (a test for 1, then the per-hop cost), so the property does not flag it. |
| `arp_as_ip_header` | `MCSrRouterArp_IcmpToSender.cfg` | violation | `IcmpToSender` | `p3` is queued on the dead `g2`; after five ARP rounds the sweeper casts it to an IP header (`sr_arpcache.c:81`) and sends host-unreachable to `a2`, not to the requester `a1`. |
| `relay_egress` | `MCSrRouterArp_EgressOnRoute.cfg` | violation | `EgressOnRoute` | `p4` is relayed towards `g1` out of `e2`, the interface it came in on (`sr_router.c:287`), not `e1`. |

The two passing runs show three things, with both threads, unlocked inserts and
lossy ARP:

* the request list stays well formed: one request per next hop, never empty,
  at most 5 sends
* no packet is forwarded or answered twice
* every queued frame eventually leaves the queue

Every property of the passing runs has a mutant (`PROJECT.json`), and TLC
rejects each one. For `router`:

* `ExhaustedLate` (`>` for `>=`) breaks `TypeOK`
* `QueueReqNoSearch` breaks `ReqWellFormed`
* `DestroyReqKeep` (a forgotten destroy) breaks `AtMostOneOutcome`
* `CountSendNot` (a forgotten `times_sent++`) breaks `QueueDrains`

For `router_arp`:

* `ProxyReplyToRequester` (reply sent to `ar_sha` rather than the cached MAC)
  breaks `TypeOK`
* `ExhaustedLate` breaks `ReqWellFormed`: a sixth broadcast
* `HandleArpNoElse` (a cache hit that answers and also queues) breaks
  `AtMostOneOutcome`
* `CountSendNot` breaks `QueueDrains`

### `SrArpInsertRace.tla`: the unlocked insert, store by store

`sr_arpcacheinsert` (`sr_router.c:380-395`) runs on the reception thread
without `cache->lock`. The sweeper reads the same fields under the lock:
the expiry test (`sr_arpcache.c:336-337`) and `sr_arpcache_lookup`, called
from `sr_arpcache_sweepreqs`. The accesses race, which is undefined
behaviour, so the build may emit the four stores (mac, ip, added, valid) in
any order. This module makes each load and store its own step. It models one
slot, which starts with an expired entry.

| Variable / action | Code |
|---|---|
| `slot` | `cache->entries[i]`, with `added` abstracted to "fresh" or "stale" (older than `SR_ARPCACHE_TO`) |
| `order` | the store order the build chose (constant over a run) |
| `pending`, `ipc` | the ARP replies still to reach the insert; the insert's position (0 = scan) |
| `InsertScan` | the `!valid` scan; a valid slot means a full table and the reply is dropped |
| `InsertStore` | the next of the four stores, in `order` |
| `Age` | `SR_ARPCACHE_TO` seconds pass |
| `ExpReadValid`, `ExpReadAdded`, `ExpWrite` | `valid && difftime(...) > TO`, short-circuit, then `valid = 0` |
| `LookCheck`, `LookCopy` | the lookup's `valid && ip == q` test, then the `memcpy` of the entry; a miss ends the pass |

`MCSrArpInsertRace` has two hosts. Replies from `b`, `a`, `b` reach the
insert in turn, so a slot is reused for the other host after its entry
expires, and a reply that finds the slot still valid is dropped. The
sweeper loops forever, so there is no deadlock to exclude.

| Run | cfg | Expect | Properties | What it shows |
|---|---|---|---|---|
| `arp_insert_race` | `MCSrArpInsertRace.cfg` | pass | `TypeOK`, `LookupSound`, `FreshKept` | In program order (valid stored last), any interleaving with the sweeper gives a lookup the true MAC and never expires a fresh entry. 245 distinct states. |
| `arp_insert_torn_lookup` | `MCSrArpInsertRace_LookupSound.cfg` | violation | `LookupSound` | With ip and valid stored before mac, the lookup matches the new IP and copies the old host's MAC. Under the same orders `FreshKept` fails too: with valid stored before added, the expiry sees the old timestamp. |

The mutants are:

* `ExpReadAddedAlways` (the age test dropped) breaks `FreshKept`
* `LookCheckAnyIp` (the ip comparison dropped) breaks `LookupSound`
* `LookCopyIp` (the wrong field copied) breaks `TypeOK`

### `Ctcp.tla`, `CtcpStream.tla`, `MCCtcp.tla`: the transport of `ctcp2.c`

Two endpoints, A and B, each a process with one connection. They are joined
by a network `net[e]`: a set of segments in flight to `e`.

* **Loss:** `Lose`.
* **Duplication:** `Receive` may leave the segment in the set.
* **Reordering:** the set has no order.

A connection is a record (the module header lists its fields). It holds the
send window `sw`, the receive window `rw`, the teardown timer, and what the
application has written and been given. Each handler of `ctcp2.c` is an
operator on a step `[c, tx]`: the connection and the segments it sends.

* `CtcpSend`, `CtcpRetrans`, `MakeSeg`, `Header` and `CtcpOutput` are the
  handlers of the same names.
* `ReceiveData`, `ReceiveAck` and `FutureInsert` are the data, ACK and
  out-of-order branches of `ctcp_receive`.

The actions are:

| Action | Code |
|---|---|
| `Read` | `ctcp_read` |
| `Receive`, `ReceiveSeg` | `ctcp_receive` on one segment `m`, with a chosen `conn_bufspace`; `Receive` picks `m` from the network |
| `Timer` | `ctcp_timer`: teardown expiry, or retransmission or destroy after `MaxTries` |
| `Lose` | the network loses a segment |

Flags keep their raw 32-bit value and `Htonl` is the byte swap of a
little-endian host. The code mixes host and network order, and
`TH_ACK & TH_FIN` is 0 (`AckAndFin`). `HasFlag` tests one flag bit with
division and remainder rather than `Bitwise`'s `&`, which TLC evaluates
slowly on 32-bit values. `Conn`, the set of connection records, stands for
the structs at `ctcp2.c:34-81` and is what `TypeOK` checks against.

`CtcpStream` is what the transport promises the applications: B is given a
prefix of what A handed in. `Ctcp` refines it with
`accepted <- conn["A"].inPos` and `delivered <- conn["B"].out`, and
`StreamSpec` is checked as a temporal property.

The bounds in `MCCtcp` are:

* Input is two bytes, sent in one-byte segments.
* Both windows are 2, so two segments can be in flight and overtake each
  other.
* `MaxTries` is 2; the code uses 5. Two retries already reach the destroy
  branch, and 5 takes several minutes for nothing new.
* `MaxQueued` is 2. A received FIN, which queues a FIN of its own, is
  handled only while the send list is shorter than 2. This bounds the FIN
  exchange that the missing teardown allows (`ctcp_finack_ignored` below).
  Because of this bound the model cannot show that exchange going on forever. Reads, data and ACKs are not bounded, so partial ACKs of a
  two-segment list are reached.
* `OutSpace` is {2}: the receiver's output buffer never runs short, except
  in a violation found while modelling (below).
* Only A closes. B reading EOF would double the state space, and A's
  teardown already exercises the FIN path.

`Spec` assumes no fairness. The network may lose everything, and the safety
properties hold however often each handler runs. `FairSpec` adds weak fairness
on `Read`, `Timer` and `Receive` of each end. The library calls `ctcp_read`
while the application has input, `ctcp_timer` every timer interval, and
`ctcp_receive` for every segment that reaches the host. `Lose` stays possible,
so the network is never obliged to deliver a given segment. `Delivered` is
checked under `FairSpec`, with a receive window of one segment.
`CHECK_DEADLOCK FALSE` is set because a destroyed connection really stops.

Under the passing configuration's two-segment window, TLC could not decide
`Delivered` in 15 minutes, so no passing run checks it.

| Run | cfg | Expect | Properties | What it shows |
|---|---|---|---|---|
| `ctcp` | `MCCtcp.cfg` | pass | `TypeOK`, `AckedDelivered`, `NoStall`, `StreamSpec` | With full output space, what A's window has released was delivered to B, and B's output is always a prefix of A's input. A live connection with queued segments always has its retransmit timer running. 969 369 distinct states, about 2½ min. |
| `ctcp_reorder_crash` | `MCCtcp_NoCrash.cfg` | violation | `NoCrash` | A segment ahead of `ackno` reaching an empty receive list dereferences NULL (`ctcp2.c:434`). |
| `ctcp_finack_ignored` | `MCCtcp_FinAckTearsDown.cfg` | violation | `FinAckTearsDown` | The action property says that an end handling the peer's FIN-ACK starts its teardown timer. A closes, B answers with a FIN-ACK (flags `htonl(0x11)`), and A handles it. Step 4 compares the flags with `TH_ACK & TH_FIN`, which is 0, so `teardown` stays unset. Step 3 then answers every later FIN with another FIN. With `AckAndFin` replaced by the FIN-ACK's flags, TLC found no violation in 2 million distinct states. |
| `ctcp_zero_window` | `MCCtcp_Delivered.cfg` | violation | `Delivered` | `RecvWindow` = `MaxSegData` = 1. B builds the ACK for the first byte before `ctcp_output` frees it (`ctcp2.c:416-417`), so it advertises window 0 (`ctcp2.c:225`). A then returns from every `ctcp_read` (`ctcp2.c:186`). Nothing is in flight and B sends only in reply to data, so the second byte and the FIN are never sent. The four-step counterexample ends in stuttering that is fair, because no handler is enabled. |

The mutants are:

* `TimerLate` (`>` for `>=` on the try limit) breaks `TypeOK`
* `ReceiveAckByStart` breaks `AckedDelivered`
* `ReceiveAckLateStop` (the timer stopped after `ctcp_send`, not before
  it) breaks `NoStall`
* `ReceiveDataDupOk` (a duplicate taken as new data) breaks `StreamSpec`

With `OutSpace` = {0, 1}, `StreamSpec` is violated too: `ctcp_output`
(`ctcp2.c:529`) writes only `conn_bufspace` bytes of a segment and then frees
all of it. No run keeps this configuration. A short output buffer is easy to
reach in a unit test, so a model checker adds little here. `PROJECT.json`
records it as a hazard.

## 3. Plan

The modules below are listed in the order they are built. The most important
behaviour comes first.

1. **`SrArpCache` and `SrRouter` (done):** the IP path, both threads, the
   sweeper and the unlocked insert.
2. **The ARP branches of `SrRouter` for targets that are not the router
   (done).** The reply relay, the proxy answer on a cache hit and the queued
   ARP request, with the runs `router_arp`, `arp_as_ip_header` and
   `relay_egress`.
3. **`SrArpCacheSpec`: the cache as a component.** Locked clients call
   lookup, both inserts, queuereq and destroy. It checks "an inserted mapping
   is found until it expires" (violated by the full-table drop, spec §9) and
   `sr_arpcache_insert`'s atomic take-the-request. An abstract cache
   (a partial map from IP to "resolved", plus a set of pending IPs) is refined
   by the slot table via `INSTANCE ... WITH`, as far as the code allows.
4. **`SrArpInsertRace` (done).** The unlocked insert's four stores go in any order
   the compiler may choose, against the sweeper's expiry and lookup. The
   properties are that a lookup never returns a torn mapping and that a
   fresh entry is not expired.
5. **`SrLpm` (done).** `longestprefixmatch` with masks in network byte
   order compared as little-endian integers, checked against the reference
   (longest prefix, first on ties) over every table of up to 3 entries.
   Still to come: `SrMacCompare`, which compares `strncmp` with `memcmp` over
   short byte strings.
6. **`Ctcp`: the transport of `ctcp2.c` (done, except eventual teardown,
   which needs fairness on timers that the abstract timer does not give).** Two endpoints over a lossy,
   duplicating and reordering channel: send and receive windows, cumulative
   ACK, retransmission after timeout with the 5-try limit, FIN/FIN-ACK
   teardown. Properties: in-order, exactly-once delivery to the application;
   window bounds; eventual teardown. An abstract reliable-channel spec is to
   be refined by it.

## 4. Not modelled

* Byte layouts, checksum arithmetic (`cksum` is in `sr_utils.c`, not in this
  repository), printing and `sr_arpcache_dump`.
* The routing-table and interface loaders, and `sr_send_packet`. These are
  external.
* The cTCP drafts `cpctcp.c` and `oldctcp.c`. `ctcp2.c` supersedes them, and
  the library links only one of them. They are not built alongside it. Reading
  `cpctcp.c` turned up defects that a unit test reaches directly:
  * segments read before an ACK arrives carry equal seqnos;
  * a duplicate ACK dereferences NULL;
  * `recv_ack` is set from a field still in network order;
  * a received FIN destroys the connection at once.

  A model of the drafts would need runs of its own, beyond the project's budget
  of twelve runs.
* Spec §3 says the ARP cache holds at most one valid entry per IP. While
  modelling, TLC found this violated: two ARP messages from one host, handled
  by `sr_arpcache_insert` (`sr_arpcache.c:190`, reached from
  `sr_router.c:383`), leave two valid entries. The divergence is not kept as
  a run, because a unit test shows it directly. The `arp_insert_*` runs cover
  the same unlocked insert.
* The SMTP client: a blocking sequence of socket writes and reads with
  nothing concurrent or persistent.
