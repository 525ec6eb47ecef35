-------------------------------- MODULE Ctcp --------------------------------
(***************************************************************************)
(* Two cTCP endpoints (src/networks/tcp/ctcp2.c) joined by an unreliable  *)
(* network.  A's application writes Input; B's application writes         *)
(* nothing, and closes its input (a read returns EOF) when B is in        *)
(* Closers.  Each endpoint is its own                                      *)
(* process holding one connection, so its state_list has one element.     *)
(*                                                                         *)
(* A connection is a record:                                               *)
(*   segs, size, rwin, seqno, timer, tries  the send window (sw): the     *)
(*        queued segments [seg, sent], unacknowledged data bytes, the     *)
(*        peer's advertised window, next seqno, whether the retransmit    *)
(*        timer runs (timer # -1), retrans_counter;                        *)
(*   rsegs, rsize, ackno                    the receive window (rw);       *)
(*   teardown                               timer_teardown # -1;           *)
(*   inPos, eof, out                        what the application wrote,    *)
(*        whether its EOF was read, and the bytes given to it;             *)
(*   alive                                  "up", "destroyed" (ctcp_destroy*)
(*        ran) or "crashed" (a NULL pointer was dereferenced).             *)
(* A segment on the wire is [seqno, ackno, flags, window, data]; flags    *)
(* keep their raw 32-bit value, because the code mixes byte orders.       *)
(* Timers are abstract: a timer that runs may expire at any step.         *)
(* The checksum is not modelled: a corrupted segment is a lost one.       *)
(***************************************************************************)
EXTENDS Naturals, Sequences, SequencesExt, Bitwise

CONSTANTS
    Input,        \* the bytes A's application writes, distinct values
    MaxSegData,   \* MAX_SEG_DATA_SIZE
    SendWindow,   \* cfg->send_window
    RecvWindow,   \* cfg->recv_window
    MaxTries,     \* the "disconnect after 5 tries" limit of ctcp_timer
    OutSpace,     \* the values conn_bufspace may return
    Closers,      \* the endpoints whose application input ends in EOF
    MaxQueued     \* bound: a received FIN, which queues a FIN of our own,
                  \* is handled only while the send list is shorter

ASSUME /\ MaxSegData \in Nat \ {0} /\ SendWindow \in Nat /\ RecvWindow \in Nat
       /\ MaxTries \in Nat /\ OutSpace \subseteq Nat /\ MaxQueued \in Nat
       /\ Closers \subseteq {"A", "B"}

Ends == {"A", "B"}
Peer(e) == IF e = "A" THEN "B" ELSE "A"
InputOf(e) == IF e = "A" THEN Input ELSE << >>

(* htonl of a small value on a little-endian (x86) host: the low byte    *)
(* becomes the high byte.  Valid for x < 256.                             *)
Htonl(x) == x * 2^24

(* TH_FIN and TH_ACK of <netinet/tcp.h>, and the raw flags word that      *)
(* ctcp_makeseg stores for SEND_FIN_ACK: htonl(0x11).                      *)
TH_FIN == 1
TH_ACK == 16
FinAckFlags == Htonl(17)

(* `flags & f' for a single-bit flag f, tested as a nonzero result. *)
HasFlag(flags, f) == (flags \div f) % 2 = 1

(* The constant of step 4's test, TH_ACK & TH_FIN. *)
AckAndFin == TH_ACK & TH_FIN

VARIABLES
    conn,   \* conn[e]: the ctcp_state of endpoint e
    net     \* net[e]: the segments in flight to e

vars == <<conn, net>>

Seg == [seqno : Nat, ackno : Nat, flags : {TH_ACK, TH_FIN, FinAckFlags},
        window : Int, data : Seq(Nat)]

(* ctcp_init: seqno and ackno 1, timers off (-1), recv_win_size         *)
(* MAX_SEG_DATA_SIZE, empty windows.                                      *)
InitConn == [segs |-> << >>, size |-> 0, rwin |-> MaxSegData, seqno |-> 1,
             timer |-> FALSE, tries |-> 0, rsegs |-> << >>, rsize |-> 0,
             ackno |-> 1, teardown |-> FALSE, inPos |-> 0, eof |-> FALSE,
             out |-> << >>, alive |-> "up"]

(* The fields of send_window_t (segments, size, recv_win_size, seqno,     *)
(* timer, retrans_counter), of recv_window_t (segments, size, ackno) and  *)
(* ctcp_state's timer_teardown, with what the application side holds: its *)
(* position in the input, EOF seen, the bytes output, and whether the     *)
(* process is up.  Timers are abstracted to running or stopped.           *)
Conn == [segs : Seq([seg : Seg, sent : BOOLEAN]), size : 0..SendWindow,
         rwin : Int, seqno : Nat, timer : BOOLEAN, tries : 0..MaxTries,
         rsegs : Seq(Seg), rsize : 0..RecvWindow, ackno : Nat,
         teardown : BOOLEAN, inPos : Nat, eof : BOOLEAN, out : Seq(Nat),
         alive : {"up", "destroyed", "crashed"}]

-----------------------------------------------------------------------------
(***************************************************************************)
(* The handlers are written over a "step" k = [c, tx]: the connection and *)
(* the set of segments it has passed to conn_send during the call.         *)
(***************************************************************************)

(* The header ctcp_makeseg fills in: current seqno and ackno, and the     *)
(* free space of the receive window.                                       *)
Header(c, flags, data) ==
    [seqno |-> c.seqno, ackno |-> c.ackno, flags |-> flags,
     window |-> RecvWindow - c.rsize, data |-> data]

(* ctcp_send: when the list is not empty, restart the timer and the try  *)
(* count, then send every segment whose checksum is still 0 (never sent), *)
(* with the current ackno.  Segments already sent are left alone.         *)
CtcpSend(k) ==
    LET c    == k.c
        Fresh(i) == [c.segs[i].seg EXCEPT !.ackno = c.ackno]
        new  == {i \in DOMAIN c.segs : ~c.segs[i].sent}
    IN  IF c.segs = << >> THEN k
        ELSE [c  |-> [c EXCEPT !.timer = TRUE, !.tries = 0,
                         !.segs = [i \in DOMAIN c.segs |->
                                     IF i \in new THEN [seg |-> Fresh(i), sent |-> TRUE]
                                     ELSE c.segs[i]]],
              tx |-> k.tx \cup {Fresh(i) : i \in new}]

(* ctcp_makeseg.  SEND_DATA queues an ACK-flagged segment, grows the      *)
(* window and the seqno by its length and calls ctcp_send; SEND_FIN       *)
(* queues a FIN (send_buf_len is 0 then) and calls ctcp_send; SEND_ACK    *)
(* and SEND_FIN_ACK send a header directly.                               *)
MakeSeg(k, mode, data) ==
    LET c == k.c IN
    CASE mode = "data" ->
           CtcpSend([k EXCEPT !.c = [c EXCEPT
                       !.segs = Append(@, [seg |-> Header(c, TH_ACK, data), sent |-> FALSE]),
                       !.size = @ + Len(data), !.seqno = @ + Len(data)]])
      [] mode = "fin" ->
           CtcpSend([k EXCEPT !.c.segs = Append(@, [seg |-> Header(c, TH_FIN, << >>),
                                                    sent |-> FALSE])])
      [] mode = "ack" -> [k EXCEPT !.tx = @ \cup {Header(c, TH_ACK, << >>)}]
      [] mode = "finack" -> [k EXCEPT !.tx = @ \cup {Header(c, FinAckFlags, << >>)}]

(* ctcp_retrans: resend the first segment of the window with the current *)
(* ackno (its checksum recomputed, so it counts as sent).                  *)
CtcpRetrans(k) ==
    LET c == k.c
        s == [c.segs[1].seg EXCEPT !.ackno = c.ackno]
    IN  IF c.segs = << >> THEN k
        ELSE [c |-> [c EXCEPT !.segs[1] = [seg |-> s, sent |-> TRUE]],
              tx |-> k.tx \cup {s}]

(* ctcp_output: from the front of the receive list, hand each segment    *)
(* below ackno to the application, conn_bufspace bytes of it at most     *)
(* (sp), and free it whether or not all of it fit.                        *)
CtcpOutput(k, sp) ==
    LET c     == k.c
        stop  == SelectInSeq(c.rsegs, LAMBDA s : s.seqno >= c.ackno)
        n     == IF stop = 0 THEN Len(c.rsegs) ELSE stop - 1
        ready == SubSeq(c.rsegs, 1, n)
        Emit(o, s) == o \o SubSeq(s.data, 1, IF sp < Len(s.data) THEN sp ELSE Len(s.data))
    IN  [k EXCEPT !.c = [c EXCEPT
            !.out   = FoldLeft(Emit, @, ready),
            !.rsize = @ - FoldLeft(LAMBDA a, s : a + Len(s.data), 0, ready),
            !.rsegs = SubSeq(@, n + 1, Len(@))]]

(* The walk of step 5 for a segment beyond ackno in a non-empty receive  *)
(* list: it compares the host-order seqno with the next node's seqno     *)
(* still in network order, inserts after the first node where that is    *)
(* smaller and then, in_the_back being set, appends it once more; when   *)
(* no such node exists it is not inserted at all.                         *)
FutureInsert(rs, m) ==
    LET j == SelectInSubSeq(rs, 2, Len(rs), LAMBDA s : m.seqno < Htonl(s.seqno))
    IN  IF j = 0 THEN rs ELSE Append(InsertAt(rs, j, m), m)

(* Slip: a segment at or below ackno taken as the expected one. *)
ReceiveDataDupOk(k, m, sp) ==
    LET len == Len(m.data)
        c   == k.c
    IN  IF m.seqno <= c.ackno /\ len <= RecvWindow - c.rsize
        THEN CtcpOutput(MakeSeg([k EXCEPT !.c = [c EXCEPT
                 !.rsegs = Append(@, [m EXCEPT !.seqno = c.ackno]),
                 !.rsize = @ + len, !.ackno = @ + len]], "ack", << >>), sp)
        ELSE k

(* Step 5 of ctcp_receive, a segment with data: an old seqno is answered *)
(* with an ACK; the expected seqno, if it fits, is appended to the        *)
(* receive list, ackno advances by its length, an ACK is sent and         *)
(* ctcp_output runs (the loop that would advance ackno further starts at *)
(* the appended, last node and never iterates); a later seqno that fits *)
(* is stored, but with an empty list node->next dereferences NULL.        *)
(* Step 6 is never reached for a data segment.                            *)
ReceiveData(k, m, sp) ==
    LET len == Len(m.data)
        k1  == IF m.seqno < k.c.ackno THEN MakeSeg(k, "ack", << >>) ELSE k
        c1  == k1.c
        k2  == IF m.seqno = c1.ackno /\ len <= RecvWindow - c1.rsize
               THEN CtcpOutput(MakeSeg([k1 EXCEPT !.c = [c1 EXCEPT
                                  !.rsegs = Append(@, m), !.rsize = @ + len,
                                  !.ackno = @ + len]], "ack", << >>), sp)
               ELSE k1
        c2  == k2.c
    IN  IF ~(m.seqno > c2.ackno /\ len <= RecvWindow - c2.rsize) THEN k2
        ELSE IF c2.rsegs = << >> THEN [k2 EXCEPT !.c.alive = "crashed"]
        ELSE [k2 EXCEPT !.c.rsegs = FutureInsert(@, m), !.c.rsize = @ + len]

(* Slip: a segment freed when the ACK covers its first byte only. *)
ReceiveAckByStart(k, m) ==
    LET c == k.c
        Covered(s) == s.seg.seqno <= m.ackno
    IN  IF c.segs = << >> \/ ~Covered(c.segs[1]) THEN k
        ELSE CtcpSend([k EXCEPT !.c = [c EXCEPT
                 !.segs  = SelectSeq(@, LAMBDA s : ~Covered(s)),
                 !.size  = @ - FoldLeft(LAMBDA a, s : a + Len(s.seg.data), 0,
                                        SelectSeq(c.segs, Covered)),
                 !.timer = FALSE, !.tries = 0]])

(* Slip: the timer stopped after ctcp_send rather than before it. *)
ReceiveAckLateStop(k, m) ==
    LET c == k.c
        End(s) == s.seg.seqno + Len(s.seg.data)
        k1 == CtcpSend([k EXCEPT !.c = [c EXCEPT
                 !.segs  = SelectSeq(@, LAMBDA s : End(s) > m.ackno),
                 !.size  = @ - FoldLeft(LAMBDA a, s : a + Len(s.seg.data), 0,
                                        SelectSeq(c.segs, LAMBDA s : End(s) <= m.ackno))]])
    IN  IF c.segs = << >> \/ m.ackno < End(c.segs[1]) THEN k
        ELSE [k1 EXCEPT !.c.timer = FALSE, !.c.tries = 0]

(* Step 6: an ACK that covers at least the first queued segment frees   *)
(* every segment it covers, stops the timer and calls ctcp_send.          *)
ReceiveAck(k, m) ==
    LET c == k.c
        End(s) == s.seg.seqno + Len(s.seg.data)
    IN  IF c.segs = << >> \/ m.ackno < End(c.segs[1]) THEN k
        ELSE CtcpSend([k EXCEPT !.c = [c EXCEPT
                 !.segs  = SelectSeq(@, LAMBDA s : End(s) > m.ackno),
                 !.size  = @ - FoldLeft(LAMBDA a, s : a + Len(s.seg.data), 0,
                                        SelectSeq(c.segs, LAMBDA s : End(s) <= m.ackno)),
                 !.timer = FALSE, !.tries = 0]])

(* ctcp_receive on a segment whose checksum is good.  It takes the       *)
(* peer's window; a FIN (flags & TH_FIN, no data) is answered with a     *)
(* FIN-ACK and, unless the teardown timer runs, with a FIN of our own;   *)
(* step 4 tests flags == (TH_ACK & TH_FIN), i.e. flags == 0; then data   *)
(* goes to step 5 and ACKs (flags & TH_ACK, or step 4's force_ack) to 6.  *)
CtcpReceive(c, m, sp) ==
    LET k0 == [c |-> [c EXCEPT !.rwin = m.window], tx |-> {}]
        isFin == HasFlag(m.flags, TH_FIN) /\ m.data = << >>
        kf == IF ~isFin THEN k0
              ELSE LET a == MakeSeg(k0, "finack", << >>)
                   IN  IF a.c.teardown THEN a ELSE MakeSeg(a, "fin", << >>)
        isFinAck == m.flags = AckAndFin /\ m.data = << >>
        k4 == IF isFinAck THEN [kf EXCEPT !.c.teardown = TRUE] ELSE kf
    IN  IF m.data # << >> THEN ReceiveData(k4, m, sp)
        ELSE IF HasFlag(m.flags, TH_ACK) \/ isFinAck THEN ReceiveAck(k4, m)
        ELSE k4

-----------------------------------------------------------------------------
Init ==
    /\ conn = [e \in Ends |-> InitConn]
    /\ net = [e \in Ends |-> {}]

(* The end of a handler call: the connection takes its new state and    *)
(* what it passed to conn_send is in flight to the peer.                  *)
Apply(e, k) ==
    /\ conn' = [conn EXCEPT ![e] = k.c]
    /\ net' = [net EXCEPT ![Peer(e)] = @ \cup k.tx]

(* ctcp_read: the room left in the send window, bounded by the peer's    *)
(* window and by a segment; with no room it returns.  conn_input gives    *)
(* 1..buf bytes of what the application wrote, or EOF (-1), after which   *)
(* the library calls ctcp_read no more: EOF queues a FIN.                 *)
Read(e) ==
    LET c    == conn[e]
        in   == InputOf(e)
        room == IF SendWindow - c.size > c.rwin THEN c.rwin ELSE SendWindow - c.size
        buf  == IF room >= MaxSegData THEN MaxSegData ELSE room
        k0   == [c |-> c, tx |-> {}]
    IN  /\ c.alive = "up" /\ ~c.eof
        /\ buf > 0
        /\ \/ \E n \in 1..buf :
                /\ c.inPos + n <= Len(in)
                /\ Apply(e, MakeSeg([k0 EXCEPT !.c.inPos = @ + n], "data",
                                    SubSeq(in, c.inPos + 1, c.inPos + n)))
           \/ /\ c.inPos = Len(in) /\ e \in Closers
              /\ Apply(e, MakeSeg([k0 EXCEPT !.c.eof = TRUE], "fin", << >>))

(* The library hands segment m from the network to ctcp_receive; the    *)
(* network may keep a copy (duplication).                                  *)
ReceiveSeg(e, m) ==
    /\ conn[e].alive = "up"
    /\ \E dup \in BOOLEAN, sp \in OutSpace :
         LET k == CtcpReceive(conn[e], m, sp)
         IN  /\ HasFlag(m.flags, TH_FIN) => Len(conn[e].segs) < MaxQueued
             /\ conn' = [conn EXCEPT ![e] = k.c]
             /\ net' = [net EXCEPT ![e] = IF dup THEN @ ELSE @ \ {m},
                                   ![Peer(e)] = @ \cup k.tx]

Receive(e) == \E m \in net[e] : ReceiveSeg(e, m)

(* ctcp_destroy: the connection is freed and the library's end_client  *)
(* ends the process; it takes no further step.                            *)
Destroy(e) ==
    /\ conn' = [conn EXCEPT ![e].alive = "destroyed"]
    /\ UNCHANGED net

(* Slip: `>' for `>=' in the try limit. *)
TimerLate(e) ==
    LET c == conn[e] IN
    /\ c.alive = "up" /\ c.timer
    /\ IF c.tries > MaxTries
       THEN Destroy(e)
       ELSE Apply(e, CtcpRetrans([c |-> [c EXCEPT !.tries = @ + 1], tx |-> {}]))

(* ctcp_timer for the one connection of the process: an expired         *)
(* teardown timer destroys it; an expired retransmit timer destroys it   *)
(* after MaxTries tries, else counts a try and calls ctcp_retrans.        *)
Timer(e) ==
    LET c == conn[e] IN
    /\ c.alive = "up"
    /\ \E teardownExpired \in BOOLEAN :
         IF c.teardown /\ teardownExpired
         THEN Destroy(e)
         ELSE /\ c.timer
              /\ IF c.tries >= MaxTries
                 THEN Destroy(e)
                 ELSE Apply(e, CtcpRetrans([c |-> [c EXCEPT !.tries = @ + 1], tx |-> {}]))

(* The network loses (or corrupts) a segment. *)
Lose(e) ==
    /\ \E m \in net[e] : net' = [net EXCEPT ![e] = @ \ {m}]
    /\ UNCHANGED conn

Next == \E e \in Ends : Read(e) \/ Receive(e) \/ Timer(e) \/ Lose(e)

Spec == Init /\ [][Next]_vars

(* The library drives each connection: it calls ctcp_read while the      *)
(* application has input, ctcp_timer every timer interval, and            *)
(* ctcp_receive for each segment that reaches the host.  Nothing obliges  *)
(* the network to deliver a given segment (Lose stays possible).          *)
FairSpec == Spec /\ \A e \in Ends : WF_vars(Read(e)) /\ WF_vars(Timer(e)) /\ WF_vars(Receive(e))

-----------------------------------------------------------------------------
TypeOK ==
    /\ \A e \in Ends : conn[e] \in Conn /\ conn[e].inPos \in 0..Len(InputOf(e))
    /\ \A e \in Ends : net[e] \subseteq Seg

(* The sender frees a segment only once the receiver's application has  *)
(* been given its bytes: every byte A has read and no longer holds for   *)
(* retransmission (seqno - 1 - size) is among B's delivered bytes, across *)
(* lost, duplicated and stale ACKs.                                        *)
AckedDelivered ==
    conn["A"].seqno - 1 - conn["A"].size <= Len(conn["B"].out)

(* The connection implements the byte stream of CtcpStream: B's          *)
(* application is given, in order and once, a prefix of what A's         *)
(* application handed to ctcp_read.                                        *)
Stream == INSTANCE CtcpStream WITH accepted <- conn["A"].inPos,
                                    delivered <- conn["B"].out
StreamSpec == Stream!Spec

(* No handler dereferences a NULL pointer: a segment that arrives ahead  *)
(* of the expected one is buffered, as the comment of step 5 says.        *)
NoCrash == \A e \in Ends : conn[e].alive # "crashed"

(* Handling the peer's FIN-ACK starts the teardown timer: step 4 of     *)
(* ctcp_receive is meant to recognise the FIN-ACK that ctcp_makeseg sends *)
(* (flags htonl(0x11), no data) and set timer_teardown, so that step 3    *)
(* stops answering the peer's FINs with FINs and ctcp_timer can end the   *)
(* connection.                                                             *)
FinAckTearsDown ==
    [][\A e \in Ends : \A m \in net[e] :
          m.flags = FinAckFlags /\ m.data = << >> /\ ReceiveSeg(e, m)
            => conn'[e].teardown]_vars

(* A connection never holds queued segments with its retransmit timer    *)
(* stopped: the ACK handler stops the timer and then relies on ctcp_send  *)
(* to restart it for what is left, so a lost segment is always resent.   *)
NoStall ==
    \A e \in Ends : conn[e].alive = "up" /\ conn[e].segs # << >> => conn[e].timer

(* Every byte A's application writes eventually reaches B's application, *)
(* unless an end gives up (destroyed after its tries, or crashed): the     *)
(* sender resumes after a full receive window, because ctcp_read waits    *)
(* only while the peer's advertised window is zero.                        *)
Delivered == <>(conn["B"].out = Input \/ \E e \in Ends : conn[e].alive # "up")

=============================================================================
