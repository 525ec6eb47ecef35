-------------------------- MODULE SrArpInsertRace --------------------------
(***************************************************************************)
(* The unlocked sr_arpcacheinsert (src/networks/router/sr_router.c) on   *)
(* the reception thread against the sweeper thread, which holds the cache *)
(* lock (sr_arpcache_timeout: the expiry loop, then sr_arpcache_lookup    *)
(* from sr_arpcache_sweepreqs).  The lock does not exclude the insert, so *)
(* the two run in parallel at the granularity of single loads and stores. *)
(*                                                                         *)
(* One slot is modelled, which starts out holding an expired entry.     *)
(* The reception thread makes the inserts of Inserts, one after another  *)
(* (each ARP reply that reaches sr_arpcacheinsert).  Each one scans for  *)
(* an invalid slot and, if it finds one, writes mac, ip, added and valid. *)
(* The program writes them in that order, but the accesses race, so the   *)
(* compiler may emit the four stores in any order: `order' is the one    *)
(* the build chose, from StoreOrders.  Time passes (Age): an entry added *)
(* more than SR_ARPCACHE_TO seconds ago is "stale".                       *)
(***************************************************************************)
EXTENDS Naturals, Sequences, FiniteSets

CONSTANTS
    Ips,           \* the IP addresses
    MacOf,         \* the true MAC of each of them
    Inserts,       \* the IPs whose replies reach sr_arpcacheinsert, in order
    StoreOrders    \* the store orders the build may have

Fields == {"mac", "ip", "added", "valid"}
ProgramOrder == <<"mac", "ip", "added", "valid">>
Macs == {MacOf[i] : i \in Ips}
NoResult == [ip |-> "none", mac |-> "none"]   \* lookup returned NULL

ASSUME /\ \A i, j \in Ips : i # j => MacOf[i] # MacOf[j]
       /\ Inserts \in Seq(Ips)
       /\ StoreOrders \subseteq {o \in [1..4 -> Fields] : \A i, j \in 1..4 : i # j => o[i] # o[j]}

VARIABLES
    slot,     \* cache->entries[i]: [mac, ip, added, valid]
    order,    \* the store order of the build
    pending,  \* the inserts still to come; the head is the current one
    ipc,      \* 0: the insert scans; k in 1..4: its k-th store is next
    spc,      \* the sweeper's position in its pass
    lookFor,  \* the IP the sweeper's lookup is for
    result    \* the copy the last lookup returned

vars == <<slot, order, pending, ipc, spc, lookFor, result>>

Init ==
    /\ slot \in {[mac |-> MacOf[i], ip |-> i, added |-> "stale", valid |-> FALSE] : i \in Ips}
    /\ order \in StoreOrders
    /\ pending = Inserts
    /\ ipc = 0
    /\ spc = "exp_valid"
    /\ lookFor \in Ips
    /\ result = NoResult

(* The value the insert for IP q stores into each field. *)
Stored(q, f) == CASE f = "mac"   -> MacOf[q]
                  [] f = "ip"    -> q
                  [] f = "added" -> "fresh"
                  [] f = "valid" -> TRUE

(* sr_arpcacheinsert, the scan `if (!(cache->entries[i].valid)) break':  *)
(* a valid slot means the cache is full and the reply is dropped.         *)
InsertScan ==
    /\ pending # << >> /\ ipc = 0
    /\ IF slot.valid THEN pending' = Tail(pending) /\ ipc' = 0
                     ELSE pending' = pending /\ ipc' = 1
    /\ UNCHANGED <<slot, order, spc, lookFor, result>>

(* sr_arpcacheinsert: the next of its four stores, in the build's order. *)
InsertStore ==
    /\ ipc \in 1..4
    /\ slot' = [slot EXCEPT ![order[ipc]] = Stored(Head(pending), order[ipc])]
    /\ ipc' = (ipc + 1) % 5
    /\ pending' = IF ipc = 4 THEN Tail(pending) ELSE pending
    /\ UNCHANGED <<order, spc, lookFor, result>>

(* SR_ARPCACHE_TO seconds pass since the entry was added. *)
Age ==
    /\ slot.added = "fresh"
    /\ slot' = [slot EXCEPT !.added = "stale"]
    /\ UNCHANGED <<order, pending, ipc, spc, lookFor, result>>

(* The expiry test `valid && difftime(curtime, added) > TO': valid is    *)
(* loaded first, and added only when valid is set.                        *)
ExpReadValid ==
    /\ spc = "exp_valid"
    /\ spc' = IF slot.valid THEN "exp_added" ELSE "look_check"
    /\ UNCHANGED <<slot, order, pending, ipc, lookFor, result>>

(* Slip: the age test dropped, every valid entry expired. *)
ExpReadAddedAlways ==
    /\ spc = "exp_added"
    /\ spc' = "exp_write"
    /\ UNCHANGED <<slot, order, pending, ipc, lookFor, result>>

ExpReadAdded ==
    /\ spc = "exp_added"
    /\ spc' = IF slot.added = "stale" THEN "exp_write" ELSE "look_check"
    /\ UNCHANGED <<slot, order, pending, ipc, lookFor, result>>

(* `cache->entries[i].valid = 0'. *)
ExpWrite ==
    /\ spc = "exp_write"
    /\ slot' = [slot EXCEPT !.valid = FALSE]
    /\ spc' = "look_check"
    /\ UNCHANGED <<order, pending, ipc, lookFor, result>>

(* Slip: the ip comparison dropped from the lookup's test. *)
LookCheckAnyIp ==
    /\ spc = "look_check"
    /\ \E q \in Ips :
         /\ lookFor' = q
         /\ spc' = IF slot.valid THEN "look_copy" ELSE "exp_valid"
    /\ result' = NoResult
    /\ UNCHANGED <<slot, order, pending, ipc>>

(* sr_arpcache_lookup(ip) from sr_arpcache_sweepreqs: the test           *)
(* `valid && ip == q'; a miss returns NULL and the pass ends (the         *)
(* sweeper sleeps and starts the next pass).                               *)
LookCheck ==
    /\ spc = "look_check"
    /\ \E q \in Ips :
         /\ lookFor' = q
         /\ spc' = IF slot.valid /\ slot.ip = q THEN "look_copy" ELSE "exp_valid"
    /\ result' = NoResult
    /\ UNCHANGED <<slot, order, pending, ipc>>

(* Slip: the copy takes the ip field where the mac belongs. *)
LookCopyIp ==
    /\ spc = "look_copy"
    /\ result' = [ip |-> lookFor, mac |-> slot.ip]
    /\ spc' = "exp_valid"
    /\ UNCHANGED <<slot, order, pending, ipc, lookFor>>

(* The memcpy of the matched entry: the MAC it holds at that moment. *)
LookCopy ==
    /\ spc = "look_copy"
    /\ result' = [ip |-> lookFor, mac |-> slot.mac]
    /\ spc' = "exp_valid"
    /\ UNCHANGED <<slot, order, pending, ipc, lookFor>>

Next == InsertScan \/ InsertStore \/ Age \/ ExpReadValid \/ ExpReadAdded \/ ExpWrite
        \/ LookCheck \/ LookCopy

Spec == Init /\ [][Next]_vars

-----------------------------------------------------------------------------
TypeOK ==
    /\ slot \in [mac : Macs, ip : Ips, added : {"stale", "fresh"}, valid : BOOLEAN]
    /\ order \in StoreOrders /\ pending \in Seq(Ips) /\ ipc \in 0..4
    /\ spc \in {"exp_valid", "exp_added", "exp_write", "look_check", "look_copy"}
    /\ lookFor \in Ips
    /\ result \in {NoResult} \cup [ip : Ips, mac : Macs]

(* A lookup the sweeper makes while the insert is under way returns      *)
(* either nothing or the true MAC of the IP it asked for: it never hands  *)
(* the old IP's queued packets the new host's MAC, or the new IP a torn   *)
(* entry.                                                                  *)
LookupSound == result # NoResult => result.mac = MacOf[result.ip]

(* Outside an insert, an entry added less than SR_ARPCACHE_TO seconds   *)
(* ago is valid: the sweeper's expiry, running at the same time as the   *)
(* insert, never invalidates a mapping that was just added.               *)
FreshKept == ipc = 0 /\ slot.added = "fresh" => slot.valid

=============================================================================
