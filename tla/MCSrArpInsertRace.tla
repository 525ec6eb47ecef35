------------------------- MODULE MCSrArpInsertRace -------------------------
(* The router's unlocked ARP insert racing the sweeper: two hosts;       *)
(* replies from b, a, b in turn reach the insert, so a slot is reused for *)
(* the other host after its entry expires, and a reply that finds the    *)
(* slot still valid is dropped.  The build either keeps the program's    *)
(* store order or emits the four stores in any order.                     *)
EXTENDS SrArpInsertRace

CONSTANTS a, b, macA, macB

MCIps == {a, b}

MCMacOf == [i \in MCIps |-> IF i = a THEN macA ELSE macB]

MCInserts == <<b, a, b>>

MCProgramOrder == {ProgramOrder}

MCAnyOrder == {o \in [1..4 -> Fields] : \A i, j \in 1..4 : i # j => o[i] # o[j]}
=============================================================================
