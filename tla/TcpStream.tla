------------------------------ MODULE TcpStream ------------------------------
(***************************************************************************)
(* TCP (net/inet/tcp.c, with net_timer, ip_queue_xmit and ip_retransmit):  *)
(* data on its way from one socket to the other over an established        *)
(* connection, while the network loses and reorders packets and the        *)
(* application reads as slowly as it likes.                                *)
(*                                                                         *)
(* A segment is one byte long (mss = mtu = 1) and known by the number that *)
(* follows it, skb->h.seq: segment i is sent with th->seq = i - 1.  The    *)
(* sender keeps what is sent and not acknowledged (send_head) and what may *)
(* not be sent yet (wfront); the other socket has nothing to send.  A      *)
(* packet that arrives, or a timer that fires, while a system call holds   *)
(* the socket waits until it is released, which is as if it had come       *)
(* later.                                                                  *)
(***************************************************************************)
EXTENDS Integers, FiniteSets, SequencesExt

CONSTANTS
    MaxSeq,       \* bound: how many segments are written
    SendBuf,      \* segments that fit into the send buffer
    CongMax,      \* the limit of cong_window, 2048 in the code
    RcvBuf,       \* sk->rcvbuf
    SkbMem,       \* what one segment takes of it
    MIN_WINDOW,
    MAX_WINDOW,
    NetCap        \* bound: packets of one direction in the network

ASSUME TcpAssumption ==
    /\ {MaxSeq, SendBuf, CongMax, RcvBuf, SkbMem, MAX_WINDOW, NetCap} \subseteq Nat \ {0}
    /\ MIN_WINDOW \in Nat

Mtu == 1

VARIABLES
    snd,          \* the sending socket
    rcv,          \* the receiving socket
    toR, toS,     \* packets in the network, for the receiver and the sender
    shrunk        \* the window has looked smaller than it was before

vars == <<snd, rcv, toR, toS, shrunk>>

LeastOf(S) == CHOOSE i \in S : \A j \in S : i <= j
LargestOf(S) == CHOOSE i \in S : \A j \in S : j <= i
Below(i, j) == IF i < j THEN i ELSE j

\* A packet that finds the network full is lost.
SentAll(net, q) ==
    LET Fits(n) == Cardinality(net \cup {q[k] : k \in 1..n}) <= NetCap
    IN  net \cup {q[n] : n \in {k \in DOMAIN q : Fits(k)}}
Sent(net, m) == SentAll(net, <<m>>)

Data(i) == [kind |-> "data", h |-> i]
Probe(i) == [kind |-> "probe", h |-> i]
Ack(a, w) == [ack |-> a, window |-> w]

-----------------------------------------------------------------------------
(* The receiver.                                                           *)

\* sock_rspace, when n segments are charged to the socket.
Rspace(n) ==
    IF n * SkbMem >= RcvBuf - 2 * MIN_WINDOW THEN 0
    ELSE Below((RcvBuf - n * SkbMem) \div 2 - MIN_WINDOW, MAX_WINDOW)

\* Mutant: the window is the free space, even when it was larger before.
tcp_select_window_memory(r, charged) == Rspace(charged)

\* A window that was offered is not taken back.
tcp_select_window(r, charged) ==
    LET new == Rspace(charged)
    IN  IF new < Below(Mtu, MAX_WINDOW \div 2) \/ new < r.window THEN r.window ELSE new

\* The socket once it has sent an acknowledgement, which r describes.
Acknowledging(r, charged) ==
    [r EXCEPT !.window = tcp_select_window(r, charged), !.ack_backlog = FALSE, !.timer = FALSE]

tcp_send_ack(r, charged) ==
    LET q == Acknowledging(r, charged)
    IN  rcv' = q /\ toS' = Sent(toS, Ack(q.acked_seq, q.window))

\* The same, but the timer goes on.
tcp_read_wakeup(r) ==
    LET q == [Acknowledging(r, Len(r.rqueue)) EXCEPT !.timer = r.timer]
    IN  rcv' = q /\ toS' = Sent(toS, Ack(q.acked_seq, q.window))

\* Mutant: one segment too old passes.
tcp_sequence_old(th_seq, i) ==
    /\ i = th_seq \/ rcv.window # 0
    /\ i >= rcv.acked_seq - 1
    /\ th_seq < rcv.acked_seq + rcv.window + 1

\* Is the segment, or the probe, to be looked at?  i is the number after it.
tcp_sequence(th_seq, i) ==
    /\ i = th_seq \/ rcv.window # 0
    /\ i >= rcv.acked_seq
    /\ th_seq < rcv.acked_seq + rcv.window + 1

\* The packet carries nothing new for tcp_ack, which looks after the timer.
AckSeen(r) == [r EXCEPT !.timer = r.ack_backlog]

\* Where a segment goes: the queue is searched from its tail for one that
\* does not come after it; 0 is before the head.
Place(queue, i) == LargestOf({n \in 0..Len(queue) : n = 0 \/ queue[n] <= i})

\* Mutant: new segments go to the tail.
Insert_tail(queue, i) == IF i \in ToSet(queue) THEN queue ELSE Append(queue, i)

\* A segment that the queue has already replaces the one in it.
Insert(queue, i) ==
    LET n == Place(queue, i)
    IN  IF n > 0 /\ queue[n] = i THEN queue ELSE InsertAt(queue, n + 1, i)

\* The number acknowledged once the new segment is, and those that follow
\* it in the queue: up to a gap, or to the tail.
AckedTo(acked, queue, i) ==
    LET at      == Place(queue, i)
        Upon(n) == LargestOf({acked} \cup {queue[k] : k \in at..n})
        last    == LeastOf({n \in at..Len(queue) :
                               n = Len(queue) \/ queue[n + 1] - 1 > Upon(n)})
    IN  Upon(last)

\* The queue without its first n segments.
Without(queue, n) == SubSeq(queue, n + 1, Len(queue))

\* Mutant: segments that have been acknowledged too.
Discard_any(queue, acked) ==
    Without(queue, LeastOf({n \in 0..Len(queue) :
                               n = Len(queue) \/ Rspace(Len(queue) - n) >= Mtu}))

\* While there is no room the first segment is thrown out, unless it has
\* been acknowledged.
Discard(queue, acked) ==
    Without(queue, LeastOf({n \in 0..Len(queue) :
                               \/ n = Len(queue) \/ Rspace(Len(queue) - n) >= Mtu
                               \/ queue[n + 1] <= acked}))

tcp_data(r, i) ==
    LET queue == Insert(r.rqueue, i)
        acked == AckedTo(r.acked_seq, queue, i)
        less  == r.window - (acked - r.acked_seq)
        kept  == Discard(queue, r.acked_seq)
    IN  IF i - 1 <= r.acked_seq
        THEN tcp_send_ack([r EXCEPT !.rqueue = queue, !.acked_seq = acked,
                                    !.window = IF less < 0 THEN 0 ELSE less], Len(queue))
        ELSE LET q == Acknowledging([r EXCEPT !.rqueue = kept], Len(kept))
             IN  /\ rcv' = [q EXCEPT !.ack_backlog = TRUE, !.timer = TRUE]
                 /\ toS' = Sent(toS, Ack(q.acked_seq, q.window))

\* tcp_rcv of the receiving socket.  The packet is charged to it until it
\* is freed, which is after tcp_sequence has answered it.
tcp_rcv(m) ==
    LET th_seq  == m.h - 1
        next    == IF m.kind = "data" THEN m.h ELSE th_seq
        charged == Len(rcv.rqueue) + 1
    IN  IF charged * SkbMem >= RcvBuf THEN UNCHANGED <<rcv, toS>>
        ELSE IF ~tcp_sequence(th_seq, next) THEN tcp_send_ack(rcv, charged)
        ELSE IF m.kind = "probe" THEN rcv' = AckSeen(rcv) /\ UNCHANGED toS
        ELSE tcp_data(AckSeen(rcv), m.h)

\* The first segments of the queue, which have been used, are freed.  Tell
\* the other end of the space, at once if it is much.
cleanup_rbuf(r, used) ==
    LET q    == [r EXCEPT !.rqueue = Without(@, used)]
        room == Rspace(Len(q.rqueue))
    IN  IF room = Rspace(Len(r.rqueue)) THEN rcv' = q /\ UNCHANGED toS
        ELSE IF room > r.window + Mtu THEN tcp_read_wakeup(q)
        ELSE rcv' = [q EXCEPT !.ack_backlog = TRUE, !.timer = TRUE] /\ UNCHANGED toS

\* The walk of tcp_read from the head of the queue, over what has been read.
Passed(queue, copied) ==
    LeastOf({n \in 0..Len(queue) : n = Len(queue) \/ queue[n + 1] > copied})

\* tcp_read of one segment, the next one: it stops at a gap.
tcp_read ==
    LET old   == Passed(rcv.rqueue, rcv.copied)
        found == old < Len(rcv.rqueue) /\ rcv.rqueue[old + 1] = rcv.copied + 1
        new   == IF found THEN 1 ELSE 0
    IN  /\ old + new > 0
        /\ cleanup_rbuf([rcv EXCEPT !.copied = @ + new], old + new)
        /\ UNCHANGED <<snd, toR, shrunk>>

\* net_timer of the receiving socket.
AckTimer ==
    /\ rcv.timer
    /\ UNCHANGED <<snd, toR, shrunk>>
    /\ LET r == [rcv EXCEPT !.timer = FALSE]
       IN  IF rcv.ack_backlog THEN tcp_read_wakeup(r) ELSE rcv' = r /\ UNCHANGED toS

-----------------------------------------------------------------------------
(* The sender.                                                             *)

reset_timer(s, why) == [s EXCEPT !.timeout = why, !.timer = TRUE]
delete_timer(s) == [s EXCEPT !.timeout = "none", !.timer = FALSE]

packets_out(s) == Len(s.send_head)

\* New segments wait while old ones are sent again.
Retransmitting(s) == s.retransmits /\ s.timeout = "TIME_WRITE"

\* Only a probe can find out that the window has opened.
ProbeNeeded(s) ==
    /\ s.wfront # <<>> /\ s.send_head = <<>>
    /\ s.window_seq < s.wfront[1]

\* ip_queue_xmit of a segment that has to be acknowledged.
ip_queue_xmit(s, i) ==
    reset_timer([s EXCEPT !.send_head = Append(@, i), !.sent_seq = i], "TIME_WRITE")

\* Can the first segment of the write queue be sent?
MayXmit(s) ==
    /\ s.wfront # <<>>
    /\ s.wfront[1] <= s.window_seq
    /\ ~Retransmitting(s) \/ s.wfront[1] <= s.rcv_ack_seq
    /\ packets_out(s) < s.cong_window

\* The queues are in the order of their numbers (NothingForgotten): what
\* goes up to a is the beginning, what is beyond a is the rest.
Count(q, a) == Cardinality({n \in DOMAIN q : q[n] <= a})
Upto(q, a) == SubSeq(q, 1, Count(q, a))
Beyond(q, a) == SubSeq(q, Count(q, a) + 1, Len(q))

\* The socket after n rounds of tcp_write_xmit, which takes n segments off
\* the write queue: those acknowledged meanwhile are freed, the others sent.
Xmit(s, n) ==
    LET q   == SubSeq(s.wfront, 1, n)
        out == Beyond(q, s.rcv_ack_seq)
        t   == [s EXCEPT !.wfront = SubSeq(@, n + 1, Len(@)),
                         !.send_head = @ \o out,
                         !.retransmits = @ /\ out = q]
    IN  IF out = <<>> THEN t
        ELSE reset_timer([t EXCEPT !.sent_seq = out[Len(out)]], "TIME_WRITE")

\* It goes on as long as there is a segment that can be sent.
tcp_write_xmit(s) ==
    Xmit(s, LeastOf({n \in 0..Len(s.wfront) : ~MayXmit(Xmit(s, n))}))

\* What was sent between the two states of the socket.
NewlySent(s, t) == SubSeq(t.send_head, Len(s.send_head) + 1, Len(t.send_head))

\* tcp_write of one segment, and tcp_send_skb.
tcp_write ==
    /\ snd.write_seq < MaxSeq
    /\ Len(snd.send_head) + Len(snd.wfront) < SendBuf
    /\ LET i == snd.write_seq + 1
           s == [snd EXCEPT !.write_seq = i]
           q == [s EXCEPT !.wfront = Append(@, i)]
       IN  IF i > s.window_seq \/ Retransmitting(s) \/ packets_out(s) >= s.cong_window
           THEN /\ snd' = IF ProbeNeeded(q) THEN reset_timer(q, "TIME_PROBE0") ELSE q
                /\ UNCHANGED toR
           ELSE /\ snd' = ip_queue_xmit(s, i)
                /\ toR' = Sent(toR, Data(i))
    /\ UNCHANGED <<rcv, toS, shrunk>>

\* tcp_ack, step by step.  The window has been shrunk: what is beyond it
\* goes from the send queue back to the head of the write queue.
Shrink(s, edge) ==
    [s EXCEPT !.send_head = Upto(@, edge),
              !.wfront = Beyond(s.send_head, edge) \o @]

\* The window, the congestion window and the acknowledged number.
Update(s, a, edge, cw) ==
    LET t == [s EXCEPT !.window_seq = edge, !.rcv_ack_seq = a, !.cong_window = cw]
    IN  IF t.timeout = "TIME_PROBE0" /\ t.wfront # <<>> /\ edge >= t.wfront[1]
        THEN [t EXCEPT !.retransmits = FALSE] ELSE t

\* Acknowledged segments leave the retransmit queue.
Clean(s, a) ==
    LET left == Beyond(s.send_head, a)
    IN  IF Len(left) = Len(s.send_head) THEN s
        ELSE [s EXCEPT !.send_head = left, !.retransmits = @ /\ left # <<>>]

\* Mutant: no probe is asked for.
GoOn_nodelete(s) ==
    IF MayXmit(s) THEN tcp_write_xmit(s)
    ELSE IF s.wfront # <<>> THEN s
    ELSE IF s.send_head = <<>> THEN delete_timer(s)
    ELSE reset_timer(s, "TIME_WRITE")

\* More may be sent, or the timer has to be set for what is left.
GoOn(s) ==
    IF MayXmit(s) THEN tcp_write_xmit(s)
    ELSE IF s.wfront # <<>>
    THEN IF ProbeNeeded(s) THEN reset_timer(s, "TIME_PROBE0") ELSE s
    ELSE IF s.send_head = <<>> THEN delete_timer(s)
    ELSE reset_timer(s, "TIME_WRITE")

\* Is the number one this socket could be sent?
Acceptable(a) == a <= snd.sent_seq + 1 /\ a >= snd.rcv_ack_seq - 1

\* The congestion window may grow when new data is acknowledged.
CongWindows(a) ==
    IF snd.timeout = "TIME_WRITE" /\ snd.cong_window < CongMax /\ a > snd.rcv_ack_seq
    THEN {snd.cong_window, snd.cong_window + 1} ELSE {snd.cong_window}

\* ip_do_retransmit(sk, 1) stops after one segment if there have been too
\* many retransmissions.
Again(s, cleaned) == IF cleaned THEN {s.send_head} ELSE {s.send_head, SubSeq(s.send_head, 1, 1)}

\* late: the first segment of the retransmit queue has been out for longer
\* than rto.
tcp_ack(m, late) ==
    LET edge    == m.ack + m.window
        shrinks == snd.window_seq > edge
        s1      == IF shrinks THEN Shrink(snd, edge) ELSE snd
    IN  \E cw \in CongWindows(m.ack) :
            LET s2      == Update(s1, m.ack, edge, cw)
                s3      == Clean(s2, m.ack)
                s4      == GoOn(s3)
                cleaned == s3 # s2
                new     == NewlySent(s3, s4)
                first   == SentAll(toR, [n \in DOMAIN new |-> Data(new[n])])
                again   == /\ shrinks \/ cleaned \/ ~MayXmit(s3)
                           /\ s4.send_head # <<>>
                           /\ (cleaned /\ s4.retransmits) \/ late
            IN  /\ shrunk' = (shrunk \/ shrinks)
                /\ IF again
                   THEN \E q \in Again(s4, cleaned) :
                            /\ snd' = reset_timer(s4, "TIME_WRITE")
                            /\ toR' = SentAll(first, [n \in DOMAIN q |-> Data(q[n])])
                   ELSE snd' = s4 /\ toR' = first

\* tcp_send_probe0: a packet of an old number, which the other end is to
\* answer.
tcp_send_probe0(s) ==
    /\ snd' = [reset_timer(s, "TIME_PROBE0") EXCEPT !.retransmits = TRUE]
    /\ toR' = Sent(toR, Probe(s.sent_seq))

\* tcp_retransmit(sk, 0)
tcp_retransmit(s) ==
    /\ snd' = [reset_timer(s, "TIME_WRITE") EXCEPT !.retransmits = TRUE, !.cong_window = 1]
    /\ toR' = Sent(toR, Data(s.send_head[1]))

\* The timer of the sending socket fires.  (If it was set for a younger
\* segment than the first one it is only set again.)
net_timer ==
    /\ snd.timer
    /\ UNCHANGED <<rcv, toS, shrunk>>
    /\ LET s == IF ProbeNeeded(snd) THEN reset_timer(snd, "TIME_PROBE0")
                ELSE [snd EXCEPT !.timer = FALSE]
       IN  CASE snd.timeout = "TIME_PROBE0" -> tcp_send_probe0(s)
             [] snd.timeout = "TIME_WRITE" /\ snd.send_head # <<>> -> tcp_retransmit(s)
             [] OTHER -> snd' = s /\ UNCHANGED toR

-----------------------------------------------------------------------------
(* The network.                                                            *)

\* A packet arrives.  (Duplicates are what the sender has sent again.)
ArriveR(m) ==
    /\ m \in toR
    /\ UNCHANGED <<snd, shrunk>>
    /\ toR' = toR \ {m}
    /\ tcp_rcv(m)

ArriveS(m) ==
    /\ m \in toS
    /\ UNCHANGED rcv
    /\ toS' = toS \ {m}
    /\ IF Acceptable(m.ack) THEN \E late \in BOOLEAN : tcp_ack(m, late)
       ELSE UNCHANGED <<snd, toR, shrunk>>

Lose ==
    \/ \E m \in toR : toR' = toR \ {m} /\ UNCHANGED <<snd, rcv, toS, shrunk>>
    \/ \E m \in toS : toS' = toS \ {m} /\ UNCHANGED <<snd, rcv, toR, shrunk>>

\* The connection is established, with the whole window offered.
Init ==
    /\ snd = [write_seq |-> 0, sent_seq |-> 0, rcv_ack_seq |-> 0, window_seq |-> Rspace(0),
              send_head |-> <<>>, wfront |-> <<>>, cong_window |-> 1,
              retransmits |-> FALSE, timeout |-> "none", timer |-> FALSE]
    /\ rcv = [acked_seq |-> 0, copied |-> 0, rqueue |-> <<>>, window |-> Rspace(0),
              ack_backlog |-> FALSE, timer |-> FALSE]
    /\ toR = {} /\ toS = {}
    /\ shrunk = FALSE

Next ==
    \/ tcp_write \/ tcp_read
    \/ net_timer \/ AckTimer
    \/ \E m \in toR : ArriveR(m)
    \/ \E m \in toS : ArriveS(m)
    \/ Lose

Spec == Init /\ [][Next]_vars

\* What the sender sends again when its timer fires, or what keeps it out of
\* a full network.
Repeated(m) ==
    IF snd.send_head = <<>> THEN m.kind = "probe" ELSE m = Data(snd.send_head[1])
Due(m) ==
    Repeated(m) \/ (Cardinality(toR) = NetCap /\ \A k \in toR : ~Repeated(k))

\* Timers fire, the application reads on, and the network does not lose for
\* ever what is sent again and again.  The last two are strong fairness with
\* ENABLED written out: a packet can always arrive.
FairSpec ==
    /\ Spec
    /\ WF_vars(net_timer) /\ WF_vars(AckTimer) /\ WF_vars(tcp_read)
    /\ []<>(\E m \in toR : Due(m)) => []<><<\E m \in toR : Due(m) /\ ArriveR(m)>>_vars
    /\ []<>(toS # {}) => []<><<\E m \in toS : ArriveS(m)>>_vars

-----------------------------------------------------------------------------
(* Properties.                                                             *)

\* However segments arrive, and whatever is thrown out, the receive queue
\* is in order, the reader finds in it, one behind the other, all that has
\* been acknowledged and not read, and nothing in it that could be
\* acknowledged has been overlooked by tcp_data.
QueueReadable ==
    LET queue == rcv.rqueue
        old   == Passed(queue, rcv.copied)
    IN  /\ \A n \in 1..Len(queue) - 1 : queue[n] < queue[n + 1]
        /\ \A i \in rcv.copied + 1..rcv.acked_seq :
               old + i - rcv.copied <= Len(queue) /\ queue[old + i - rcv.copied] = i
        /\ rcv.acked_seq + 1 \notin ToSet(queue)

\* What has been acknowledged, and is gone from the sender, has been read
\* or is in the receive queue: "Don't throw out something that has been
\* acked".  And all that is neither is still with the sender, once and in
\* order (tcp_ack reports "send_list out of order" otherwise).
NothingForgotten ==
    /\ \A i \in 1..rcv.acked_seq : i <= rcv.copied \/ i \in ToSet(rcv.rqueue)
    /\ LET kept == snd.send_head \o snd.wfront
       IN  /\ rcv.acked_seq + 1..snd.write_seq \subseteq ToSet(kept)
           /\ \A n \in 1..Len(kept) - 1 : kept[n] < kept[n + 1]

\* "The window can never be shrunk once it is offered (RFC 793)."
WindowKept ==
    [][rcv'.acked_seq + rcv'.window >= rcv.acked_seq + rcv.window]_vars

\* A socket with something left to send or to be acknowledged has its
\* timer set, for the right reason: the one timer serves the retransmission,
\* the probes and the delayed acknowledgements.
TimerSet ==
    /\ snd.send_head # <<>> => snd.timer /\ snd.timeout = "TIME_WRITE"
    /\ snd.wfront # <<>> => snd.timer

\* All that is written is read in the end, unless packets out of order have
\* made the window seem to shrink.
Delivered == []<>(rcv.copied = snd.write_seq \/ shrunk)
==============================================================================
