----------------------------- MODULE CtcpStream -----------------------------
(***************************************************************************)
(* What cTCP promises the two applications (src/networks/tcp/ctcp2.c):    *)
(* a byte stream.  The sender's application hands bytes of Input to the   *)
(* connection in order (ctcp_read pulls them with conn_input), and the    *)
(* receiver's application is given (conn_output) a prefix of what was     *)
(* handed in: nothing lost in the middle, nothing twice, nothing out of   *)
(* order.  Delivery may stop at any point (the connection may give up).   *)
(***************************************************************************)
EXTENDS Naturals, Sequences

CONSTANT Input        \* the bytes the sending application will write

VARIABLES
    accepted,   \* how many bytes of Input the connection has taken
    delivered   \* the bytes handed to the receiving application

svars == <<accepted, delivered>>

Init == accepted = 0 /\ delivered = << >>

(* The connection takes the next n bytes from the sending application. *)
Accept ==
    /\ \E n \in 1..(Len(Input) - accepted) : accepted' = accepted + n
    /\ UNCHANGED delivered

(* The receiving application is given the next n bytes taken. *)
Deliver ==
    /\ \E n \in 1..(accepted - Len(delivered)) :
         delivered' = SubSeq(Input, 1, Len(delivered) + n)
    /\ UNCHANGED accepted

Spec == Init /\ [][Accept \/ Deliver]_svars

=============================================================================
