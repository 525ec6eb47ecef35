------------------------------- MODULE SrLpm -------------------------------
(***************************************************************************)
(* longestprefixmatch (src/networks/router/sr_router.c), the routing      *)
(* table lookup, as a pure operator.  An address or a mask is the four    *)
(* bytes of its network-order field; the code loads the mask into a       *)
(* uint32_t and compares it with `>', which on a little-endian host reads *)
(* those bytes least significant first (HostU32).  The `&' and `==' of    *)
(* the match test work byte by byte, whatever the byte order.              *)
(*                                                                         *)
(* A table is a sequence of entries [dest, mask, gw, iface] in list       *)
(* order; the lookup returns the index of the entry chosen, 0 for NULL.   *)
(***************************************************************************)
EXTENDS Naturals, Sequences, SequencesExt, Bitwise

(* The uint32_t a little-endian host loads from four network-order bytes. *)
HostU32(b) == b[1] + 256 * b[2] + 65536 * b[3] + 16777216 * b[4]

(* `(mask & dest) == (mask & target_ip)'. *)
MaskedEq(m, d, t) == \A i \in 1..4 : (m[i] & d[i]) = (m[i] & t[i])

(* The walk over sr->routing_table: a matching entry replaces the one     *)
(* held when none is held yet or its mask, read as a host integer, is    *)
(* larger.                                                                 *)
LongestPrefixMatch(rt, t) ==
    LET Step(acc, i) ==
          IF MaskedEq(rt[i].mask, rt[i].dest, t)
             /\ (acc.nexthop = 0 \/ HostU32(rt[i].mask) > acc.longest)
          THEN [nexthop |-> i, longest |-> HostU32(rt[i].mask)]
          ELSE acc
    IN  FoldLeftDomain(Step, [nexthop |-> 0, longest |-> 0], rt).nexthop

-----------------------------------------------------------------------------
(***************************************************************************)
(* The reference: among the entries whose prefix covers the target, the  *)
(* first of those with the longest prefix.                                 *)
(***************************************************************************)

(* The network-order bytes of a mask of n leading one bits. *)
MaskOfLen(n) ==
    [i \in 1..4 |-> LET ones == IF n >= 8 * i THEN 8
                                ELSE IF n <= 8 * (i - 1) THEN 0 ELSE n - 8 * (i - 1)
                    IN  256 - 2 ^ (8 - ones)]

PrefixLen(m) == CHOOSE n \in 0..32 : MaskOfLen(n) = m

(* Bit b (1 = most significant) of a four-byte network-order field. *)
BitOf(x, b) == (x[(b - 1) \div 8 + 1] \div 2 ^ (7 - ((b - 1) % 8))) % 2

(* The reference lookup, for tables whose masks are all contiguous. *)
RefLpm(rt, t) ==
    LET Covers == {i \in DOMAIN rt :
                    \A b \in 1..PrefixLen(rt[i].mask) : BitOf(rt[i].dest, b) = BitOf(t, b)}
    IN  IF Covers = {} THEN 0
        ELSE CHOOSE i \in Covers :
               \A j \in Covers : \/ PrefixLen(rt[j].mask) < PrefixLen(rt[i].mask)
                                 \/ PrefixLen(rt[j].mask) = PrefixLen(rt[i].mask) /\ i <= j

(* longestprefixmatch picks the reference's entry for every table of at  *)
(* most n entries drawn from Entries and every target in Targets.          *)
LpmMatchesRef(Entries, n, Targets) ==
    \A rt \in BoundedSeq(Entries, n), t \in Targets :
        LongestPrefixMatch(rt, t) = RefLpm(rt, t)
=============================================================================
