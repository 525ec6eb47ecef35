----------------------------- MODULE SrArpCache -----------------------------
(***************************************************************************)
(* The ARP cache of the software router (src/networks/router/             *)
(* sr_arpcache.c, plus the unlocked sr_arpcacheinsert of sr_router.c):    *)
(* the fixed-size entry table and the list of pending ARP requests, each  *)
(* with the frames queued on it.  The operators are pure functions of     *)
(* the table and the list; the modules that use the cache (SrRouter)      *)
(* decide which thread calls them and under which lock.                   *)
(*                                                                         *)
(* An entry is [ip, valid, age]: `age' is the number of sweeper seconds   *)
(* since the entry's `added' timestamp, capped at CacheTO + 1 (an older   *)
(* entry is invalidated by the sweeper, and the `added' of an invalid     *)
(* entry is never read).  MAC addresses are not kept: every resolved      *)
(* next hop has one true MAC and no property distinguishes MACs.          *)
(* A pending request is [ip, times_sent, packets]; packets is the list of *)
(* queued sr_packets [frame, iface] (the copied frame and the interface   *)
(* it is to leave on), head first, exactly as the linked list is walked.  *)
(***************************************************************************)
EXTENDS Naturals, Sequences, SequencesExt

CONSTANTS
    CacheSize,   \* SR_ARPCACHE_SZ (100 in sr_arpcache.h)
    CacheTO,     \* SR_ARPCACHE_TO, in sweeper ticks (15 s in sr_arpcache.h)
    MaxSends,    \* the "send maximum 5 times" limit of sr_arpcache_sweepreqs
    NoIP         \* the ip of a slot that was never filled (memset 0)

ASSUME CacheSize \in Nat \ {0} /\ CacheTO \in Nat /\ MaxSends \in Nat \ {0}

Slots == 1..CacheSize

AgeCap == CacheTO + 1

(* sr_arpcache_init: memset(cache->entries, 0, ...), requests = NULL. *)
InitEntries == [i \in Slots |-> [ip |-> NoIP, valid |-> FALSE, age |-> AgeCap]]

InitRequests == << >>

(* sr_arpcache_lookup: is there a valid entry for ip?  (The code returns  *)
(* a copy of the last matching entry; without MACs only hit/miss counts.)*)
Lookup(entries, ip) == \E i \in Slots : entries[i].valid /\ entries[i].ip = ip

(* The insertion loop shared by sr_arpcacheinsert (sr_router.c) and       *)
(* sr_arpcache_insert: the first invalid slot, or 0 when the table is     *)
(* full, in which case the mapping is silently dropped.  It does not look *)
(* for an existing entry for the same ip.                                  *)
FreeSlot(entries) == SelectInSeq(entries, LAMBDA e : ~e.valid)

Insert(entries, ip) ==
    LET i == FreeSlot(entries)
    IN  IF i = 0 THEN entries
        ELSE [entries EXCEPT ![i] = [ip |-> ip, valid |-> TRUE, age |-> 0]]

(* One second of the sweeper thread sr_arpcache_timeout: every entry     *)
(* ages by one second, and a valid entry older than SR_ARPCACHE_TO is    *)
(* invalidated.                                                            *)
Expire(entries) ==
    [i \in Slots |->
        LET a == IF entries[i].age < AgeCap THEN entries[i].age + 1 ELSE AgeCap
        IN  [entries[i] EXCEPT !.age = a, !.valid = @ /\ a <= CacheTO]]

(* The index in the request list of the request for ip, 0 if none. *)
ReqIndex(reqs, ip) == SelectInSeq(reqs, LAMBDA r : r.ip = ip)

Req(reqs, ip) == reqs[ReqIndex(reqs, ip)]

(***************************************************************************)
(* Plausible coding errors in the request-list operators below.  Each is  *)
(* the body a definition would have after a one-line slip; a property of  *)
(* SrRouter must reject it.                                                *)
(***************************************************************************)
QueueReqNoSearch(reqs, ip, pkt) ==
    <<[ip |-> ip, times_sent |-> 0, packets |-> <<pkt>>]>> \o reqs

DestroyReqKeep(reqs, ip) == reqs

ExhaustedLate(r) == r.times_sent > MaxSends

CountSendNot(r) == r

(* sr_arpcache_queuereq: find the request for ip or push a new one at the *)
(* head of the list, then push the (copied) packet at the head of its     *)
(* packet list.  Every caller passes a non-null packet and interface.     *)
QueueReq(reqs, ip, pkt) ==
    LET i == ReqIndex(reqs, ip)
    IN  IF i = 0
        THEN <<[ip |-> ip, times_sent |-> 0, packets |-> <<pkt>>]>> \o reqs
        ELSE [reqs EXCEPT ![i].packets = <<pkt>> \o @]

(* sr_arpreq_destroy: unlink the request and free its queued frames. *)
DestroyReq(reqs, ip) == SelectSeq(reqs, LAMBDA r : r.ip # ip)

(* The test of sr_arpcache_sweepreqs: the request was sent 5 times. *)
Exhausted(r) == r.times_sent >= MaxSends

(* req->times_sent++ after a new ARP broadcast. *)
CountSend(r) == [r EXCEPT !.times_sent = @ + 1]

=============================================================================
