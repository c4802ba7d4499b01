------------------------ MODULE TCPConnection_proofs ------------------------
(***************************************************************************)
(* The safety properties of TCPConnection, for any applications that wait  *)
(* until TCP reports the connection, any windows and any number of faults. *)
(***************************************************************************)
EXTENDS TCPConnection, FiniteSetTheorems, WellFoundedInduction, TLAPS

\* No application gives a command in SYN_RCVD.
Patient == \A p \in Plans, e \in Ends : ~p[e].early

\* The states before the handshake is over, and those after the peer's FIN.
Opening == {"INIT", "LISTEN", "SYN_SENT", "SYN_RCVD"}
Handshake == {"SYN_SENT", "SYN_RCVD"}
AfterFin == {"CLOSE_WAIT", "LAST_ACK", "CLOSING", "TIME_WAIT"}

-----------------------------------------------------------------------------
(* The inductive invariant *)

Connections ==
  [state : States, active : BOOLEAN, iss : Nat,
   irs : Nat, snd_una : Nat, snd_nxt : Nat,
   snd_max : Nat, snd_cwnd : Nat \ {0}, begin : Nat,
   end : Nat, rcv_nxt : Nat, rcvQueue : SUBSET Nat,
   delivered : Nat, send_fin : BOOLEAN,
   snd_fin_seq : Nat, fin_ack_rcvd : BOOLEAN,
   fin_rcvd : BOOLEAN, rcv_fin_seq : Nat,
   timers : SUBSET Timers, syn_rexmit_count : Nat,
   rexmit_count : Nat, failed : BOOLEAN,
   out : SUBSET Segments]

\* The send variables: una, nxt and max in order, a FIN only at the end of the
\* queue and after all of the data.
SendOrder(c) ==
  /\ c.iss <= c.snd_una /\ c.snd_una <= c.snd_max /\ c.snd_nxt <= c.snd_max
  /\ c.snd_max <= c.end \/ (c.send_fin /\ c.snd_max = c.end + 1)
  /\ c.send_fin => /\ c.snd_fin_seq = c.end /\ c.snd_max # c.end
                   /\ c.iss < c.end
  /\ c.fin_ack_rcvd => c.send_fin /\ c.snd_una = c.end + 1

\* Before the handshake is over nothing but the SYN has been sent, and nothing
\* but a SYN received.
SendOpening(c) ==
  c.state \in Opening =>
    /\ ~c.send_fin /\ c.snd_una = c.iss /\ c.snd_max <= c.iss + 1
    /\ c.begin <= c.end
    /\ c.state \in Handshake =>
         c.snd_max = c.iss + 1 /\ c.snd_nxt = c.iss + 1 /\ c.begin = c.iss + 1

RcvOpening(c) ==
  c.state \in Opening =>
    /\ c.rcvQueue = {} /\ c.delivered = 0 /\ ~c.fin_rcvd
    /\ c.rcv_nxt # 0 => c.rcv_nxt = c.irs + 1
    /\ c.state \in {"INIT", "SYN_SENT"} => c.rcv_nxt = 0
    /\ c.state = "SYN_RCVD" => c.rcv_nxt # 0
    /\ c.state \in {"INIT", "LISTEN"} => ~c.active
    /\ c.state = "SYN_SENT" => c.active

\* Afterwards the SYN is acknowledged, the queue starts at snd_una and the
\* peer's SYN is known.
AfterHandshake(c) ==
  c.state \in Synchronized =>
    /\ c.iss < c.snd_una
    /\ c.begin = Min2(c.snd_una, c.end)
    /\ c.rcv_nxt # 0

\* Which timers run when.
TimersOK(c) ==
  /\ "CONN-ESTAB" \in c.timers <=> c.state \in Handshake
  /\ "SYN-REXMIT" \in c.timers => c.state \in Handshake
  /\ "2MSL" \in c.timers <=> c.state = "TIME_WAIT"
  /\ "REXMIT" \in c.timers <=> c.state \in Synchronized /\ c.snd_una < c.snd_max

LocalOK(c) ==
  /\ SendOrder(c) /\ SendOpening(c) /\ RcvOpening(c) /\ AfterHandshake(c)
  /\ IsFiniteSet(c.rcvQueue)

\* What the receiver has of the sender c: nothing, the SYN of an attempt that c
\* has given up, or a part of what c has sent.
Received(c, d) ==
  /\ d.rcv_nxt <= c.snd_max
  /\ \/ d.rcv_nxt = 0 /\ d.delivered = 0
     \/ d.rcv_nxt < c.iss /\ d.rcv_nxt = d.irs + 1
     \/ d.rcv_nxt > c.iss /\ d.irs = c.iss
  /\ \A q \in d.rcvQueue : /\ c.state \notin Opening /\ c.iss < q
                           /\ q < c.end /\ q < c.snd_max
  /\ d.fin_rcvd => /\ c.state \notin Opening
                   /\ c.send_fin /\ d.rcv_fin_seq = c.end /\ c.snd_max = c.end + 1

\* The peer's FIN has been taken.
FinTaken(c, d) == c.send_fin /\ d.rcv_nxt = c.end + 1

\* What has been delivered: all that was received but the FIN.
Delivered(c, d) ==
  d.rcv_nxt # 0 =>
    d.irs + 1 + d.delivered
      = IF FinTaken(c, d) THEN c.end ELSE d.rcv_nxt

\* What c takes for acknowledged d has received.
Acked(c, d) == c.iss < c.snd_una => c.snd_una <= d.rcv_nxt

\* A segment of d to c says nothing that d does not know.
Truthful(c, d, s) ==
  "RST" \notin s.flags =>
    /\ s.seq + s.len <= d.snd_max
    /\ "ACK" \in s.flags => s.ackNo # 0 /\ s.ackNo # c.iss /\ s.ackNo <= d.rcv_nxt
    /\ "SYN" \in s.flags =>
         /\ s.len = 0 /\ "FIN" \notin s.flags
         /\ s.seq < d.snd_max
         /\ s.seq = d.iss \/ s.seq + 1 < d.iss
         /\ "ACK" \notin s.flags => s.seq = d.iss /\ d.active
    /\ s.len > 0 => d.state \notin Opening /\ d.iss < s.seq /\ s.seq < d.end
    /\ "FIN" \in s.flags =>
         /\ d.state \notin Opening /\ d.send_fin
         /\ s.seq + s.len = d.end /\ d.snd_max = d.end + 1

\* What the application has done: data before CLOSE.
AppOK(e) ==
  LET c == conn[e] IN
  /\ ~plan[e].early
  /\ c.send_fin => e \in closing
  /\ e \in closing => toSend[e] = 0
  /\ toSend[e] <= plan[e].sends
  /\ c.end + toSend[e] <= c.iss + 1 + plan[e].sends
  /\ c.state \in Opening /\ ~c.active => toSend[e] = plan[e].sends
  /\ c.state \in Handshake \cup Synchronized \/ c.send_fin
       => c.end + toSend[e] = c.iss + 1 + plan[e].sends

IndInv ==
  /\ TypeOK
  /\ \A e \in Ends : /\ LocalOK(conn[e]) /\ TimersOK(conn[e])
                     /\ ~conn[e].failed /\ conn[e].out = {}
                     /\ AppOK(e)
                     /\ Received(conn[e], conn[Peer(e)])
                     /\ conn[Peer(e)].state \in AfterFin =>
                          FinTaken(conn[e], conn[Peer(e)])
                     /\ Delivered(conn[e], conn[Peer(e)])
                     /\ Acked(conn[e], conn[Peer(e)])
  /\ \A m \in net : Truthful(conn[m.to], conn[Peer(m.to)], m.seg)

-----------------------------------------------------------------------------
(* Operations that only send: what they leave alone *)

SameEnd(c, r) ==
  /\ r.state = c.state /\ r.active = c.active /\ r.iss = c.iss
  /\ r.end = c.end /\ r.send_fin = c.send_fin /\ r.snd_fin_seq = c.snd_fin_seq
  /\ r.syn_rexmit_count = c.syn_rexmit_count

SameAcked(c, r) ==
  /\ r.snd_una = c.snd_una /\ r.begin = c.begin /\ r.fin_ack_rcvd = c.fin_ack_rcvd

SameRcv(c, r) ==
  /\ r.irs = c.irs /\ r.rcv_nxt = c.rcv_nxt /\ r.rcvQueue = c.rcvQueue
  /\ r.delivered = c.delivered /\ r.fin_rcvd = c.fin_rcvd
  /\ r.rcv_fin_seq = c.rcv_fin_seq

\* The send variables after the handshake.
SendReady(c) ==
  /\ c \in Connections /\ ~c.failed
  /\ SendOrder(c) /\ c.iss < c.snd_una /\ c.begin = Min2(c.snd_una, c.end)

\* A segment that c may have sent since it had received up to "a".
Says(c, a, s) ==
  "RST" \notin s.flags =>
    /\ s.seq + s.len <= c.snd_max /\ "SYN" \notin s.flags
    /\ a <= s.ackNo /\ s.ackNo <= c.rcv_nxt
    /\ s.len > 0 => c.iss < s.seq /\ s.seq < c.end
    /\ "FIN" \in s.flags => /\ c.send_fin
                            /\ s.seq + s.len = c.end /\ c.snd_max = c.end + 1

AllSaid(c, a) == a <= c.rcv_nxt /\ \A s \in c.out : Says(c, a, s)

RexmitOK(c) == "REXMIT" \in c.timers <=> c.snd_una < c.snd_max

\* r is c after some sending.
Sending(c, r, a) ==
  /\ SendReady(r) /\ AllSaid(r, a)
  /\ SameEnd(c, r) /\ SameAcked(c, r) /\ SameRcv(c, r)
  /\ c.snd_max <= r.snd_max
  /\ r.timers \ {"REXMIT"} = c.timers \ {"REXMIT"}

LEMMA SendAckOK ==
  ASSUME NEW c \in Connections, SendOrder(c), NEW a, AllSaid(c, a)
  PROVE  LET r == sendAck(c)
         IN  /\ r \in Connections /\ SameEnd(c, r) /\ SameAcked(c, r) /\ SameRcv(c, r)
             /\ r.snd_nxt = c.snd_nxt /\ r.snd_max = c.snd_max /\ r.timers = c.timers
             /\ r.failed = c.failed /\ r.snd_cwnd = c.snd_cwnd
             /\ AllSaid(r, a)
<1> DEFINE s == Segment({"ACK"}, c.snd_nxt, c.rcv_nxt, 0)
           r == sendAck(c)
<1>1. s \in Segments
  BY DEF Segment, Segments, Connections
<1>2. r = [c EXCEPT !.out = @ \cup {s}]
  BY DEF sendAck, sendToIP
<1>3. r \in Connections
  BY <1>1, <1>2 DEF Connections
<1>4. /\ SameEnd(c, r) /\ SameAcked(c, r) /\ SameRcv(c, r)
      /\ r.snd_nxt = c.snd_nxt /\ r.snd_max = c.snd_max /\ r.timers = c.timers
      /\ r.failed = c.failed /\ r.snd_cwnd = c.snd_cwnd
      /\ r.out = c.out \cup {s}
  BY <1>2 DEF Connections, SameEnd, SameAcked, SameRcv
<1>5. Says(c, a, s)
  BY DEF Says, Segment, SendOrder, AllSaid, Connections
<1>6. AllSaid(r, a)
  BY <1>4, <1>5 DEF AllSaid, Says, SameEnd, SameRcv
<1> QED  BY <1>3, <1>4, <1>6

LEMMA SendingAck ==
  ASSUME NEW c, SendReady(c), NEW a, AllSaid(c, a)
  PROVE  /\ Sending(c, sendAck(c), a)
         /\ RexmitOK(c) => RexmitOK(sendAck(c))
<1>1. c \in Connections /\ SendOrder(c)
  BY DEF SendReady
<1> QED
  BY <1>1, SendAckOK
     DEF Sending, RexmitOK, SendReady, SendOrder, SameEnd, SameAcked, SameRcv, Connections

LEMMA SendSegmentsOK ==
  ASSUME NEW c, SendReady(c), NEW from \in Nat, NEW n \in Nat \ {0},
         c.snd_una <= from, from + n <= c.end
  PROVE  LET r == sendSegments(c, from, n)
             withFin == c.send_fin /\ from + n = c.snd_fin_seq
         IN  /\ r \in Connections /\ ~r.failed
             /\ SameEnd(c, r) /\ SameAcked(c, r) /\ SameRcv(c, r)
             /\ r.snd_max = c.snd_max /\ r.timers = c.timers
             /\ r.snd_nxt = IF withFin THEN from + n + 1 ELSE from + n
             /\ c.out \subseteq r.out
             /\ \A s \in r.out \ c.out :
                  /\ s.flags \in {{"ACK"}, {"ACK", "FIN"}}
                  /\ s.len = 1 /\ s.ackNo = c.rcv_nxt
                  /\ s.seq \in Nat /\ from <= s.seq /\ s.seq < from + n
                  /\ "FIN" \in s.flags => withFin /\ s.seq + 1 = c.snd_fin_seq
<1> DEFINE withFin == c.send_fin /\ from + n = c.snd_fin_seq
           flags(q) == IF withFin /\ q + 1 = c.snd_fin_seq
                       THEN {"ACK", "FIN"} ELSE {"ACK"}
           new == {Segment(flags(q), q, c.rcv_nxt, 1) : q \in from .. (from + n - 1)}
           r == sendSegments(c, from, n)
<1>1. c \in Connections
  BY DEF SendReady
<1>2. new \subseteq Segments
  BY <1>1 DEF Segment, Segments, Connections
<1>3. c.begin <= from /\ from + n <= c.end
  BY <1>1 DEF SendReady, Min2, Connections
<1>4. r = [c EXCEPT !.failed = FALSE, !.out = @ \cup new,
                    !.snd_nxt = IF withFin THEN from + n + 1 ELSE from + n]
  BY <1>1, <1>3 DEF sendSegments, Assert, SendReady, Connections
<1> HIDE DEF r
<1>5. r \in Connections
  <2>1. (IF withFin THEN from + n + 1 ELSE from + n) \in Nat
    OBVIOUS
  <2> HIDE DEF new, withFin
  <2> QED BY <1>1, <1>2, <1>4, <2>1 DEF Connections
<1>6. /\ ~r.failed
      /\ SameEnd(c, r) /\ SameAcked(c, r) /\ SameRcv(c, r)
      /\ r.snd_max = c.snd_max /\ r.timers = c.timers
      /\ r.snd_nxt = IF withFin THEN from + n + 1 ELSE from + n
      /\ r.out = c.out \cup new
  <2> HIDE DEF new, withFin
  <2> QED BY <1>1, <1>4 DEF SameEnd, SameAcked, SameRcv, Connections
<1>7. ASSUME NEW s \in new
      PROVE  /\ s.flags \in {{"ACK"}, {"ACK", "FIN"}}
             /\ s.len = 1 /\ s.ackNo = c.rcv_nxt
             /\ s.seq \in Nat /\ from <= s.seq /\ s.seq < from + n
             /\ "FIN" \in s.flags => withFin /\ s.seq + 1 = c.snd_fin_seq
  <2>1. PICK q \in from .. (from + n - 1) : s = Segment(flags(q), q, c.rcv_nxt, 1)
    BY <1>7
  <2> QED  BY <2>1 DEF Segment
<1> QED
  <2> HIDE DEF new
  <2> QED BY <1>5, <1>6, <1>7 DEF r

\* Timer operations: nothing but timers (and the count of expiries) changes.
SameSent(c, r) ==
  /\ r.snd_nxt = c.snd_nxt /\ r.snd_max = c.snd_max /\ r.out = c.out
  /\ r.failed = c.failed /\ r.snd_cwnd = c.snd_cwnd

TimersOnly(c, r) ==
  r \in Connections /\ SameEnd(c, r) /\ SameAcked(c, r) /\ SameRcv(c, r) /\ SameSent(c, r)

LEMMA ScheduleOK ==
  ASSUME NEW c \in Connections, NEW t \in Timers
  PROVE  TimersOnly(c, schedule(c, t)) /\ schedule(c, t).timers = c.timers \cup {t}
<1> DEFINE r == schedule(c, t)
<1>1. r = [c EXCEPT !.timers = c.timers \cup {t}]
  BY DEF schedule
<1>2. c.timers \cup {t} \in SUBSET Timers
  BY DEF Connections
<1> HIDE DEF r
<1>3. r \in Connections
  BY <1>1, <1>2 DEF Connections
<1>4. SameEnd(c, r) /\ SameAcked(c, r) /\ SameRcv(c, r) /\ SameSent(c, r)
  BY <1>1 DEF SameEnd, SameAcked, SameRcv, SameSent, Connections
<1>5. r.timers = c.timers \cup {t}
  BY <1>1 DEF Connections
<1> QED  BY <1>3, <1>4, <1>5 DEF r, TimersOnly

LEMMA CancelOK ==
  ASSUME NEW c \in Connections, NEW ts
  PROVE  TimersOnly(c, cancel(c, ts)) /\ cancel(c, ts).timers = c.timers \ ts
<1> DEFINE r == cancel(c, ts)
<1>1. r = [c EXCEPT !.timers = c.timers \ ts]
  BY DEF cancel
<1>2. c.timers \ ts \in SUBSET Timers
  BY DEF Connections
<1> HIDE DEF r
<1>3. r \in Connections
  BY <1>1, <1>2 DEF Connections
<1>4. SameEnd(c, r) /\ SameAcked(c, r) /\ SameRcv(c, r) /\ SameSent(c, r)
  BY <1>1 DEF SameEnd, SameAcked, SameRcv, SameSent, Connections
<1>5. r.timers = c.timers \ ts
  BY <1>1 DEF Connections
<1> QED  BY <1>3, <1>4, <1>5 DEF r, TimersOnly

LEMMA StartRexmit ==
  ASSUME NEW c \in Connections
  PROVE  /\ TimersOnly(c, startRexmitTimer(c))
         /\ startRexmitTimer(c).timers = c.timers \cup {"REXMIT"}
<1> DEFINE d == schedule(c, "REXMIT")
           r == startRexmitTimer(c)
<1>1. TimersOnly(c, d) /\ d.timers = c.timers \cup {"REXMIT"}
  BY ScheduleOK DEF Timers
<1>2. r = [d EXCEPT !.rexmit_count = 0]
  BY DEF startRexmitTimer
<1> HIDE DEF r, d
<1>3. r \in Connections
  BY <1>1, <1>2 DEF Connections, TimersOnly
<1>4. /\ SameEnd(d, r) /\ SameAcked(d, r) /\ SameRcv(d, r) /\ SameSent(d, r)
      /\ r.timers = d.timers
  BY <1>1, <1>2 DEF SameEnd, SameAcked, SameRcv, SameSent, Connections, TimersOnly
<1> QED
  BY <1>1, <1>3, <1>4 DEF r, TimersOnly, SameEnd, SameAcked, SameRcv, SameSent

\* What the segments that are in flight say stays true when snd_max grows.
LEMMA SaysMonotone ==
  ASSUME NEW c \in Connections, NEW r \in Connections, NEW a, AllSaid(c, a),
         SameEnd(c, r), SameRcv(c, r), c.snd_max <= r.snd_max, SendOrder(r)
  PROVE  \A s \in c.out : Says(r, a, s)
<1> SUFFICES ASSUME NEW s \in c.out PROVE Says(r, a, s)
  OBVIOUS
<1>1. s \in Segments /\ Says(c, a, s)
  BY DEF Connections, AllSaid
<1> QED
  BY <1>1 DEF Says, SameEnd, SameRcv, SendOrder, Connections, Segments

LEMMA SendableOK ==
  ASSUME NEW c \in Connections, SendOrder(c)
  PROVE  /\ Sendable(c) \in Nat
         /\ Sendable(c) # 0 => c.snd_max + Sendable(c) <= c.end
<1>1. c.snd_max - c.snd_una \in Nat
  BY DEF SendOrder, Connections
<1> QED  BY <1>1 DEF Sendable, Min2, getBytesAvailable, Connections

LEMMA SendingData ==
  ASSUME NEW c, SendReady(c), NEW a, AllSaid(c, a)
  PROVE  /\ Sending(c, sendData(c), a)
         /\ RexmitOK(c) => RexmitOK(sendData(c))
<1>1. c \in Connections /\ SendOrder(c)
  BY DEF SendReady
<1> DEFINE n == Sendable(c)
           d == sendSegments(c, c.snd_max, n)
           m == [d EXCEPT !.snd_max = d.snd_nxt]
           r == sendData(c)
<1>2. n \in Nat /\ (n # 0 => c.snd_max + n <= c.end)
  BY <1>1, SendableOK
<1>3. CASE n = 0
  <2>1. r = [c EXCEPT !.snd_nxt = c.snd_max]
    BY <1>3 DEF sendData
  <2> HIDE DEF r
  <2>2. r \in Connections
    BY <1>1, <2>1 DEF Connections
  <2>3. /\ SameEnd(c, r) /\ SameAcked(c, r) /\ SameRcv(c, r)
        /\ r.snd_nxt = c.snd_max /\ r.snd_max = c.snd_max /\ r.timers = c.timers
        /\ r.failed = c.failed /\ r.out = c.out
    BY <1>1, <2>1 DEF SameEnd, SameAcked, SameRcv, Connections
  <2>4. SendReady(r)
    BY <2>2, <2>3, <1>1 DEF SendReady, SendOrder, SameEnd, SameAcked, Connections
  <2>5. AllSaid(r, a)
    BY <2>2, <2>3, <2>4, <1>1, SaysMonotone DEF AllSaid, SameRcv, SendReady, Connections
  <2> QED  BY <2>3, <2>4, <2>5, <1>1 DEF Sending, RexmitOK, SameAcked, r, Connections
<1>4. CASE n # 0
  <2> DEFINE withFin == c.send_fin /\ c.snd_max + n = c.snd_fin_seq
  <2>1. /\ d \in Connections /\ ~d.failed
        /\ SameEnd(c, d) /\ SameAcked(c, d) /\ SameRcv(c, d)
        /\ d.snd_max = c.snd_max /\ d.timers = c.timers
        /\ d.snd_nxt = IF withFin THEN c.snd_max + n + 1 ELSE c.snd_max + n
        /\ c.out \subseteq d.out
        /\ \A s \in d.out \ c.out :
             /\ s.flags \in {{"ACK"}, {"ACK", "FIN"}}
             /\ s.len = 1 /\ s.ackNo = c.rcv_nxt
             /\ s.seq \in Nat /\ c.snd_max <= s.seq /\ s.seq < c.snd_max + n
             /\ "FIN" \in s.flags => withFin /\ s.seq + 1 = c.snd_fin_seq
    <3>1. c.snd_max \in Nat /\ c.snd_una <= c.snd_max
      BY <1>1 DEF SendOrder, Connections
    <3> HIDE DEF n
    <3> QED  BY <1>2, <1>4, <3>1, SendSegmentsOK
  <2> HIDE DEF n, d
  <2>2. /\ r = dataSent(m) /\ m = [d EXCEPT !.snd_max = d.snd_nxt]
    BY <1>4 DEF sendData, n, d
  <2> HIDE DEF m
  <2>3. /\ m \in Connections /\ ~m.failed
        /\ SameEnd(c, m) /\ SameAcked(c, m) /\ SameRcv(c, m)
        /\ m.snd_max = d.snd_nxt /\ m.snd_nxt = d.snd_nxt
        /\ m.timers = c.timers /\ m.out = d.out
    BY <2>1, <2>2 DEF Connections, SameEnd, SameAcked, SameRcv
  <2>4. SendReady(m) /\ c.snd_max < m.snd_max
    BY <1>1, <1>2, <1>4, <2>1, <2>3
       DEF SendReady, SendOrder, SameEnd, SameAcked, Connections
  <2>5. \A s \in m.out : Says(m, a, s)
    <3>1. ASSUME NEW s \in c.out PROVE Says(m, a, s)
      BY <2>3, <2>4, <1>1, SaysMonotone DEF SendReady, Connections
    <3>2. ASSUME NEW s \in d.out \ c.out PROVE Says(m, a, s)
      <4>1. /\ s.seq \in Nat /\ s.len = 1 /\ s.ackNo = c.rcv_nxt
            /\ "SYN" \notin s.flags
            /\ c.snd_max <= s.seq /\ s.seq < c.snd_max + n
            /\ "FIN" \in s.flags => withFin /\ s.seq + 1 = c.snd_fin_seq
        BY <2>1, <3>2
      <4>2. c.snd_fin_seq = c.end \/ ~c.send_fin
        BY <1>1 DEF SendOrder
      <4> QED
        BY <1>1, <1>2, <1>4, <2>1, <2>3, <2>4, <4>1, <4>2
           DEF Says, AllSaid, SameEnd, SameRcv, SendOrder, SendReady, Connections
    <3> QED  BY <2>1, <2>3, <3>1, <3>2
  <2>6. AllSaid(m, a)
    BY <2>3, <2>5 DEF AllSaid, SameRcv
  <2> HIDE DEF r
  <2>7. TimersOnly(m, r) /\ r.timers = m.timers \cup {"REXMIT"}
    <3>1. CASE "REXMIT" \in m.timers
      BY <2>2, <2>3, <3>1
         DEF dataSent, TimersOnly, SameEnd, SameAcked, SameRcv, SameSent
    <3>2. CASE "REXMIT" \notin m.timers
      BY <2>2, <2>3, <3>2, StartRexmit DEF dataSent
    <3> QED  BY <3>1, <3>2
  <2>8. /\ r \in Connections
        /\ SameEnd(m, r) /\ SameAcked(m, r) /\ SameRcv(m, r)
        /\ r.snd_max = m.snd_max /\ r.snd_nxt = m.snd_nxt /\ r.out = m.out
        /\ r.failed = m.failed /\ r.timers \ {"REXMIT"} = m.timers \ {"REXMIT"}
        /\ "REXMIT" \in r.timers
    BY <2>7 DEF TimersOnly, SameSent
  <2>9. SendReady(r)
    BY <2>4, <2>8 DEF SendReady, SendOrder, SameEnd, SameAcked
  <2>10. AllSaid(r, a)
    BY <2>6, <2>8, SaysMonotone, <2>3, <2>9 DEF AllSaid, SameRcv, SendReady, Connections
  <2>11. Sending(c, r, a)
    BY <2>3, <2>4, <2>8, <2>9, <2>10 DEF Sending, SameEnd, SameAcked, SameRcv, SendReady, Connections
  <2>12. RexmitOK(r)
    BY <1>1, <2>3, <2>4, <2>8 DEF RexmitOK, SendOrder, SameAcked, SendReady, Connections
  <2> QED  BY <2>11, <2>12 DEF r
<1> QED  BY <1>2, <1>3, <1>4

LEMMA ReadyTimers ==
  ASSUME NEW c, SendReady(c), NEW a, AllSaid(c, a), NEW r, TimersOnly(c, r)
  PROVE  SendReady(r) /\ AllSaid(r, a)
<1>1. SendReady(r)
  BY DEF SendReady, SendOrder, TimersOnly, SameEnd, SameAcked, SameSent
<1>2. AllSaid(r, a)
  BY <1>1, SaysMonotone DEF AllSaid, TimersOnly, SameRcv, SameSent, SendReady, Connections
<1> QED  BY <1>1, <1>2

LEMMA SendingTransitive ==
  ASSUME NEW c, NEW d, NEW r, NEW a, SendReady(c), Sending(c, d, a), Sending(d, r, a)
  PROVE  Sending(c, r, a)
BY DEF Sending, SameEnd, SameAcked, SameRcv, SendReady, Connections

LEMMA SendingTimers ==
  ASSUME NEW c, SendReady(c), NEW a, AllSaid(c, a), NEW r, TimersOnly(c, r),
         r.timers \ {"REXMIT"} = c.timers \ {"REXMIT"}
  PROVE  Sending(c, r, a)
BY ReadyTimers DEF Sending, TimersOnly, SameSent, SendReady, Connections

\* receivedDataAck sets the REXMIT timer right, whatever it was.
LEMMA SendingOnAck ==
  ASSUME NEW c, SendReady(c), NEW a, AllSaid(c, a)
  PROVE  Sending(c, receivedDataAck(c), a) /\ RexmitOK(receivedDataAck(c))
<1> DEFINE d == IF c.snd_una = c.snd_max THEN cancel(c, {"REXMIT"})
                                         ELSE startRexmitTimer(c)
<1>1. c \in Connections /\ SendOrder(c)
  BY DEF SendReady
<1>2. /\ TimersOnly(c, d) /\ d.timers \ {"REXMIT"} = c.timers \ {"REXMIT"}
      /\ "REXMIT" \in d.timers <=> c.snd_una # c.snd_max
  <2>1. CASE c.snd_una = c.snd_max
    BY <2>1, <1>1, CancelOK
  <2>2. CASE c.snd_una # c.snd_max
    BY <2>2, <1>1, StartRexmit
  <2> QED  BY <2>1, <2>2
<1>3. receivedDataAck(c) = sendData(d)
  BY DEF receivedDataAck
<1> HIDE DEF d
<1>4. Sending(c, d, a)
  BY <1>2, SendingTimers
<1>5. RexmitOK(d)
  BY <1>1, <1>2 DEF RexmitOK, TimersOnly, SameAcked, SameSent, SendOrder, Connections
<1>6. SendReady(d) /\ AllSaid(d, a)
  BY <1>4 DEF Sending
<1>7. Sending(d, sendData(d), a) /\ RexmitOK(sendData(d))
  BY <1>5, <1>6, SendingData
<1> QED  BY <1>3, <1>4, <1>7, SendingTransitive

LEMMA SendingSeqChanged ==
  ASSUME NEW c, SendReady(c), NEW a, AllSaid(c, a)
  PROVE  /\ Sending(c, receiveSeqChanged(c), a)
         /\ RexmitOK(c) => RexmitOK(receiveSeqChanged(c))
<1>1. Sending(c, c, a)
  BY DEF Sending, SendReady, SameEnd, SameAcked, SameRcv, Connections
<1> QED  BY <1>1, SendingAck DEF receiveSeqChanged

\* The window is opened when the connection is established.
LEMMA EstablishedOK ==
  ASSUME NEW c \in Connections
  PROVE  LET d == established(c, FALSE)
         IN  /\ d \in Connections /\ SameEnd(c, d) /\ SameAcked(c, d) /\ SameRcv(c, d)
             /\ d.snd_nxt = c.snd_nxt /\ d.snd_max = c.snd_max /\ d.out = c.out
             /\ d.failed = c.failed /\ d.timers = c.timers
<1> DEFINE w == IF c.syn_rexmit_count = 0 THEN InitialWindow ELSE 1
           d == established(c, FALSE)
<1>1. w \in Nat \ {0}
  BY TCPAssumption
<1>2. d = [c EXCEPT !.snd_cwnd = w]
  BY DEF established
<1> HIDE DEF d, w
<1>3. d \in Connections
  BY <1>1, <1>2 DEF Connections
<1> QED
  BY <1>2, <1>3 DEF SameEnd, SameAcked, SameRcv, Connections, d

LEMMA SendingEstablished ==
  ASSUME NEW c, SendReady(c), NEW a, AllSaid(c, a), RexmitOK(c)
  PROVE  Sending(c, established(c, TRUE), a) /\ RexmitOK(established(c, TRUE))
<1> DEFINE d == established(c, FALSE)
<1>1. /\ d \in Connections /\ SameEnd(c, d) /\ SameAcked(c, d) /\ SameRcv(c, d)
      /\ d.snd_nxt = c.snd_nxt /\ d.snd_max = c.snd_max /\ d.out = c.out
      /\ d.failed = c.failed /\ d.timers = c.timers
  BY EstablishedOK DEF SendReady
<1>2. established(c, TRUE) = IF Sendable(d) = 0 THEN sendAck(sendData(d)) ELSE sendData(d)
  BY DEF established
<1> HIDE DEF d
<1>3. SendReady(d)
  BY <1>1 DEF SendReady, SendOrder, SameEnd, SameAcked
<1>4. AllSaid(d, a)
  BY <1>1, <1>3, SaysMonotone DEF AllSaid, SameRcv, SendReady, Connections
<1>5. Sending(c, d, a) /\ RexmitOK(d)
  BY <1>1, <1>3, <1>4 DEF Sending, RexmitOK, SendReady, SameAcked, Connections
<1>6. Sending(d, sendData(d), a) /\ RexmitOK(sendData(d))
  BY <1>3, <1>4, <1>5, SendingData
<1>7. Sending(c, sendData(d), a)
  BY <1>5, <1>6, SendingTransitive
<1>8. /\ Sending(sendData(d), sendAck(sendData(d)), a)
      /\ RexmitOK(sendAck(sendData(d)))
  BY <1>6, SendingAck DEF Sending
<1>9. Sending(c, sendAck(sendData(d)), a)
  BY <1>7, <1>8, SendingTransitive
<1> QED  BY <1>2, <1>6, <1>7, <1>8, <1>9

\* A FIN that is sent at snd_nxt, the end of the queue.
LEMMA SendFinOK ==
  ASSUME NEW c \in Connections
  PROVE  LET r == sendFin(c)
         IN  /\ r \in Connections /\ SameEnd(c, r) /\ SameAcked(c, r) /\ SameRcv(c, r)
             /\ r.snd_nxt = c.snd_nxt + 1 /\ r.snd_max = c.snd_nxt + 1
             /\ r.timers = c.timers /\ r.failed = c.failed
             /\ r.out = c.out \cup {Segment({"FIN", "ACK"}, c.snd_nxt, c.rcv_nxt, 0)}
<1> DEFINE s == Segment({"FIN", "ACK"}, c.snd_nxt, c.rcv_nxt, 0)
           r == sendFin(c)
<1>1. s \in Segments /\ c.snd_nxt + 1 \in Nat
  BY DEF Segment, Segments, Connections
<1>2. r = [c EXCEPT !.out = @ \cup {s}, !.snd_nxt = c.snd_nxt + 1, !.snd_max = c.snd_nxt + 1]
  BY DEF sendFin, sendToIP, Connections
<1> HIDE DEF r, s
<1>3. r \in Connections
  BY <1>1, <1>2 DEF Connections
<1>4. /\ SameEnd(c, r) /\ SameAcked(c, r) /\ SameRcv(c, r)
      /\ r.snd_nxt = c.snd_nxt + 1 /\ r.snd_max = c.snd_nxt + 1
      /\ r.timers = c.timers /\ r.failed = c.failed
      /\ r.out = c.out \cup {s}
  BY <1>2 DEF SameEnd, SameAcked, SameRcv, Connections
<1> QED  BY <1>3, <1>4 DEF r, s

LEMMA SaysFin ==
  ASSUME NEW c \in Connections, NEW a, a <= c.rcv_nxt,
         c.send_fin, c.snd_max = c.end + 1
  PROVE  Says(c, a, Segment({"FIN", "ACK"}, c.end, c.rcv_nxt, 0))
BY DEF Says, Segment, Connections

\* The REXMIT timer retransmits the unit at snd_una, with the FIN if that was
\* sent with it, or the FIN.
LEMMA SendingRetransmission ==
  ASSUME NEW c, SendReady(c), NEW a, AllSaid(c, a), c.snd_una < c.snd_max
  PROVE  LET r == retransmitOneSegment(c)
         IN  Sending(c, r, a) /\ r.timers = c.timers /\ r.snd_max = c.snd_max
<1> DEFINE r == retransmitOneSegment(c)
           bytes == Min2(Min2(1, c.snd_max - c.snd_una), getBytesAvailable(c, c.snd_una))
<1>1. c \in Connections /\ SendOrder(c)
  BY DEF SendReady
<1>2. bytes = IF c.snd_una < c.end THEN 1 ELSE 0
  BY <1>1 DEF Min2, getBytesAvailable, Connections
<1>3. CASE c.snd_una < c.end
  <2> DEFINE withFin == c.send_fin /\ c.snd_una + 1 = c.snd_fin_seq
  <2>1. bytes = 1 /\ Assert(c, bytes # 0) = c
    <3>1. bytes = 1
      BY <1>2, <1>3
    <3> HIDE DEF bytes
    <3> QED  BY <1>1, <3>1 DEF Assert, Connections
  <2>2. r = sendSegments(c, c.snd_una, 1)
    BY <2>1 DEF retransmitOneSegment
  <2>3. /\ r \in Connections /\ ~r.failed
        /\ SameEnd(c, r) /\ SameAcked(c, r) /\ SameRcv(c, r)
        /\ r.snd_max = c.snd_max /\ r.timers = c.timers
        /\ r.snd_nxt = IF withFin THEN c.snd_una + 1 + 1 ELSE c.snd_una + 1
        /\ c.out \subseteq r.out
        /\ \A s \in r.out \ c.out :
             /\ s.flags \in {{"ACK"}, {"ACK", "FIN"}}
             /\ s.len = 1 /\ s.ackNo = c.rcv_nxt
             /\ s.seq \in Nat /\ c.snd_una <= s.seq /\ s.seq < c.snd_una + 1
             /\ "FIN" \in s.flags => withFin /\ s.seq + 1 = c.snd_fin_seq
    <3>1. c.snd_una \in Nat /\ c.snd_una <= c.snd_una /\ c.snd_una + 1 <= c.end
      BY <1>1, <1>3 DEF Connections
    <3> HIDE DEF r
    <3> QED  BY <2>2, <3>1, SendSegmentsOK
  <2> HIDE DEF r
  <2>4. SendReady(r)
    BY <1>1, <1>3, <2>3 DEF SendReady, SendOrder, SameEnd, SameAcked, Connections
  <2>5. \A s \in r.out : Says(r, a, s)
    <3>1. ASSUME NEW s \in c.out PROVE Says(r, a, s)
      BY <2>3, <2>4, <1>1, SaysMonotone DEF SendReady, Connections
    <3>2. ASSUME NEW s \in r.out \ c.out PROVE Says(r, a, s)
      <4>1. /\ s.seq = c.snd_una /\ s.len = 1 /\ s.ackNo = c.rcv_nxt
            /\ "SYN" \notin s.flags
            /\ "FIN" \in s.flags => withFin
        BY <1>1, <2>3, <3>2 DEF Connections
      <4> QED
        BY <1>1, <1>3, <2>3, <2>4, <4>1
           DEF Says, AllSaid, SameEnd, SameRcv, SendOrder, SendReady, Connections
    <3> QED  BY <3>1, <3>2
  <2>6. AllSaid(r, a)
    BY <2>3, <2>5 DEF AllSaid, SameRcv
  <2>7. Sending(c, r, a)
    BY <1>1, <2>3, <2>4, <2>6 DEF Sending, Connections
  <2> QED  BY <2>3, <2>7 DEF r
<1>4. CASE ~(c.snd_una < c.end)
  <2> DEFINE d == [c EXCEPT !.snd_nxt = c.end]
  <2>1. bytes = 0
    BY <1>2, <1>4
  <2>2. /\ c.send_fin /\ c.snd_fin_seq = c.end
        /\ c.snd_una = c.end /\ c.snd_max = c.end + 1
    BY <1>1, <1>4 DEF SendOrder, Connections
  <2>3. r = sendFin(d)
    BY <2>1, <2>2 DEF retransmitOneSegment
  <2>4. d = [c EXCEPT !.snd_nxt = c.end]
    OBVIOUS
  <2> HIDE DEF r, d
  <2>5. /\ d \in Connections
        /\ SameEnd(c, d) /\ SameAcked(c, d) /\ SameRcv(c, d)
        /\ d.snd_nxt = c.end /\ d.out = c.out /\ d.timers = c.timers
        /\ d.failed = c.failed
    BY <1>1, <2>4 DEF SameEnd, SameAcked, SameRcv, Connections
  <2>6. /\ r \in Connections /\ SameEnd(d, r) /\ SameAcked(d, r) /\ SameRcv(d, r)
        /\ r.snd_nxt = c.end + 1 /\ r.snd_max = c.end + 1
        /\ r.timers = c.timers /\ r.failed = c.failed
        /\ r.out = c.out \cup {Segment({"FIN", "ACK"}, c.end, d.rcv_nxt, 0)}
    BY <2>3, <2>5, SendFinOK
  <2>7. SameEnd(c, r) /\ SameAcked(c, r) /\ SameRcv(c, r)
    BY <2>5, <2>6 DEF SameEnd, SameAcked, SameRcv
  <2>8. SendReady(r)
    BY <1>1, <2>2, <2>6, <2>7 DEF SendReady, SendOrder, SameEnd, SameAcked, Connections
  <2>9. \A s \in c.out : Says(r, a, s)
    BY <1>1, <2>2, <2>6, <2>7, <2>8, SaysMonotone DEF SendReady, Connections
  <2>10. Says(r, a, Segment({"FIN", "ACK"}, c.end, d.rcv_nxt, 0))
    BY <2>2, <2>5, <2>6, <2>7, SaysFin DEF SameEnd, SameRcv, AllSaid
  <2>11. AllSaid(r, a)
    BY <2>6, <2>7, <2>9, <2>10 DEF AllSaid, SameRcv
  <2> QED
    BY <1>1, <2>2, <2>6, <2>7, <2>8, <2>11 DEF Sending, r, Connections
<1> QED  BY <1>3, <1>4

-----------------------------------------------------------------------------
(* An acknowledgement.  The handlers work on the connection while its state *)
(* is still the old one and segments wait in "out".                         *)

\* c may be acknowledged: it is synchronized, or its SYN is sent.
AckReady(c) ==
  /\ c \in Connections /\ ~c.failed /\ SendOrder(c)
  /\ \/ c.iss < c.snd_una /\ c.begin = Min2(c.snd_una, c.end)
     \/ /\ c.snd_una = c.iss /\ c.begin = c.iss + 1
        /\ c.snd_max = c.iss + 1 /\ ~c.send_fin

LEMMA AckTaken ==
  ASSUME NEW c, AckReady(c), NEW ackNo \in Nat, c.snd_una < ackNo, ackNo <= c.snd_max
  PROVE  LET finAcked == c.send_fin /\ ackNo = c.snd_fin_seq + 1
             r == discardUpTo(
                    [c EXCEPT !.snd_una = ackNo,
                              !.snd_nxt = IF @ < ackNo THEN ackNo ELSE @,
                              !.fin_ack_rcvd = @ \/ finAcked],
                    IF finAcked THEN ackNo - 1 ELSE ackNo)
         IN  /\ SendReady(r) /\ SameEnd(c, r) /\ SameRcv(c, r)
             /\ r.snd_una = ackNo /\ r.snd_max = c.snd_max
             /\ r.timers = c.timers /\ r.out = c.out
<1> DEFINE finAcked == c.send_fin /\ ackNo = c.snd_fin_seq + 1
           nxt == IF c.snd_nxt < ackNo THEN ackNo ELSE c.snd_nxt
           to == IF finAcked THEN ackNo - 1 ELSE ackNo
           d == [c EXCEPT !.snd_una = ackNo,
                          !.snd_nxt = IF @ < ackNo THEN ackNo ELSE @,
                          !.fin_ack_rcvd = @ \/ finAcked]
           r == discardUpTo(d, to)
<1>1. c \in Connections /\ SendOrder(c) /\ ~c.failed
  BY DEF AckReady
<1>2. c.begin <= to /\ to <= c.end /\ to \in Nat /\ to = Min2(ackNo, c.end)
  BY <1>1 DEF AckReady, SendOrder, Min2, Connections
<1>3. nxt \in Nat /\ nxt <= c.snd_max
  BY <1>1 DEF SendOrder, Connections
<1>4. (c.fin_ack_rcvd \/ finAcked) \in BOOLEAN
  BY <1>1 DEF Connections
<1>5. d = [c EXCEPT !.snd_una = ackNo, !.snd_nxt = nxt, !.fin_ack_rcvd = c.fin_ack_rcvd \/ finAcked]
  BY <1>1 DEF Connections
<1> HIDE DEF nxt, to, finAcked, d
<1>6. /\ d \in Connections /\ d.begin = c.begin /\ d.end = c.end /\ ~d.failed
      /\ SameEnd(c, d) /\ SameRcv(c, d)
      /\ d.snd_una = ackNo /\ d.snd_nxt = nxt /\ d.snd_max = c.snd_max
      /\ d.fin_ack_rcvd = (c.fin_ack_rcvd \/ finAcked)
      /\ d.timers = c.timers /\ d.out = c.out
  <2>1. d \in Connections
    BY <1>1, <1>3, <1>4, <1>5 DEF Connections
  <2> QED  BY <1>1, <1>5, <2>1 DEF SameEnd, SameRcv, Connections
<1>7. r = [d EXCEPT !.begin = to, !.failed = FALSE]
  BY <1>2, <1>6 DEF discardUpTo, Assert, Connections
<1> HIDE DEF r
<1>8. /\ r \in Connections /\ SameEnd(d, r) /\ SameRcv(d, r)
      /\ r.snd_una = ackNo /\ r.snd_nxt = nxt /\ r.snd_max = c.snd_max
      /\ r.fin_ack_rcvd = d.fin_ack_rcvd /\ r.begin = to /\ ~r.failed
      /\ r.timers = d.timers /\ r.out = d.out
  BY <1>2, <1>6, <1>7 DEF SameEnd, SameRcv, Connections
<1>9. SameEnd(c, r) /\ SameRcv(c, r)
  BY <1>6, <1>8 DEF SameEnd, SameRcv
<1>10. SendOrder(r)
  BY <1>1, <1>3, <1>6, <1>8, <1>9 DEF SendOrder, SameEnd, finAcked, Connections
<1>11. SendReady(r)
  BY <1>1, <1>2, <1>8, <1>9, <1>10 DEF SendReady, SameEnd, SendOrder, Connections
<1> QED
  BY <1>6, <1>8, <1>9, <1>11 DEF r, d, to, finAcked

\* r is c in the middle of an event, after the SYN has been acknowledged.  d is
\* the peer.
Mid(c, d, r) ==
  /\ SendReady(r) /\ AllSaid(r, c.rcv_nxt)
  /\ SameEnd(c, r) /\ r.irs = c.irs
  /\ c.snd_max <= r.snd_max
  /\ IsFiniteSet(r.rcvQueue)
  /\ r.snd_una <= d.rcv_nxt
  /\ Received(d, r) /\ Delivered(d, r)
  /\ r.timers \ {"REXMIT", "2MSL"} = c.timers \ {"REXMIT", "2MSL"}

\* The event code ev is right: it leads to a state that agrees with the timers
\* and with the FIN.
Fits(d, r, ev) ==
  LET st == Goto(r.state, ev, r.active)
  IN  /\ st \in Synchronized
      /\ "2MSL" \in r.timers <=> st = "TIME_WAIT"
      /\ st \in AfterFin => FinTaken(d, r)

\* The facts about a connection at the start of an event.
AtRest(c, d) ==
  /\ c \in Connections /\ d \in Connections
  /\ LocalOK(c) /\ LocalOK(d) /\ TimersOK(c) /\ ~c.failed /\ c.out = {}
  /\ Received(d, c) /\ Delivered(d, c) /\ Acked(c, d)
  /\ c.state \in AfterFin => FinTaken(d, c)

LEMMA ReceivedSame ==
  ASSUME NEW d, NEW c, NEW r, SameRcv(c, r), Received(d, c), Delivered(d, c)
  PROVE  Received(d, r) /\ Delivered(d, r)
BY DEF Received, Delivered, FinTaken, SameRcv

\* Sending does not disturb what is known in the middle of an event.
LEMMA MidSending ==
  ASSUME NEW c \in Connections, NEW d, NEW r, NEW t,
         Mid(c, d, r), Sending(r, t, c.rcv_nxt)
  PROVE  /\ Mid(c, d, t)
         /\ \A ev : Fits(d, r, ev) => Fits(d, t, ev)
<1>1. Received(d, t) /\ Delivered(d, t)
  BY ReceivedSame DEF Mid, Sending
<1>2. Mid(c, d, t)
  BY <1>1 DEF Mid, Sending, SameEnd, SameAcked, SameRcv, SendReady, Connections
<1>3. /\ t.state = r.state /\ t.active = r.active /\ t.rcv_nxt = r.rcv_nxt
      /\ "2MSL" \in t.timers <=> "2MSL" \in r.timers
  BY DEF Sending, SameEnd, SameRcv
<1> QED  BY <1>2, <1>3 DEF Fits, FinTaken

LEMMA MidTimers ==
  ASSUME NEW c \in Connections, NEW d, NEW r, NEW t, Mid(c, d, r), TimersOnly(r, t),
         t.timers \ {"REXMIT", "2MSL"} = r.timers \ {"REXMIT", "2MSL"}
  PROVE  Mid(c, d, t)
<1>1. SendReady(t) /\ AllSaid(t, c.rcv_nxt)
  BY ReadyTimers DEF Mid
<1>2. Received(d, t) /\ Delivered(d, t)
  BY ReceivedSame DEF Mid, TimersOnly
<1> QED
  BY <1>1, <1>2 DEF Mid, TimersOnly, SameEnd, SameAcked, SameRcv, SameSent

\* The facts at the start of an event put a synchronized connection in the middle
\* of one.
LEMMA MidStart ==
  ASSUME NEW c, NEW d, AtRest(c, d), c.state \in Synchronized
  PROVE  Mid(c, d, c) /\ Fits(d, c, "IGNORE") /\ RexmitOK(c)
<1>1. c \in Connections /\ d \in Connections
  BY DEF AtRest
<1>2. SendReady(c)
  BY DEF AtRest, LocalOK, SendReady, AfterHandshake
<1>3. AllSaid(c, c.rcv_nxt)
  BY <1>1 DEF AtRest, AllSaid, Connections
<1>4. Mid(c, d, c)
  BY <1>1, <1>2, <1>3
     DEF Mid, AtRest, LocalOK, SameEnd, Acked, SendReady, Connections
<1>5. Goto(c.state, "IGNORE", c.active) = c.state
  BY DEF Goto, OnAbort, Synchronized
<1> QED
  BY <1>4, <1>5 DEF Fits, RexmitOK, AtRest, TimersOK

TextStates == {"SYN_RCVD", "ESTABLISHED", "FIN_WAIT_1", "FIN_WAIT_2"}

\* A segment that CheckAck is called for.
AckArrives(c, d, s) ==
  /\ AtRest(c, d) /\ s \in Segments /\ Truthful(c, d, s)
  /\ "RST" \notin s.flags /\ "SYN" \notin s.flags /\ "ACK" \in s.flags
  /\ c.state \in Synchronized \cup {"SYN_RCVD"}
  /\ c.state = "SYN_RCVD" => c.snd_una <= s.ackNo /\ s.ackNo <= c.snd_nxt
  /\ s.len > 0 => c.state \in TextStates

\* The timer is right, or ProcessText is about to set it.
RexmitLater(c, r, s) == RexmitOK(r) \/ (s.len > 0 /\ r.snd_una > c.snd_una)

LEMMA ProcessAckOK ==
  ASSUME NEW c, NEW d, NEW s, AckArrives(c, d, s), s.ackNo <= c.snd_max
  PROVE  LET b == IF c.state = "SYN_RCVD" THEN established(c, FALSE) ELSE c
             a == processAckInEstabEtc(b, s)
         IN  /\ Mid(c, d, a) /\ SameRcv(c, a)
             /\ a.timers \ {"REXMIT"} = c.timers \ {"REXMIT"}
             /\ RexmitLater(c, a, s)
<1> DEFINE b == IF c.state = "SYN_RCVD" THEN established(c, FALSE) ELSE c
           a == processAckInEstabEtc(b, s)
           finAcked == b.send_fin /\ s.ackNo = b.snd_fin_seq + 1
           x == discardUpTo(
                  [b EXCEPT !.snd_una = s.ackNo,
                            !.snd_nxt = IF @ < s.ackNo THEN s.ackNo ELSE @,
                            !.fin_ack_rcvd = @ \/ finAcked],
                  IF finAcked THEN s.ackNo - 1 ELSE s.ackNo)
<1>1. /\ c \in Connections /\ d \in Connections /\ s \in Segments
      /\ SendOrder(c) /\ c.out = {} /\ ~c.failed
      /\ s.ackNo \in Nat /\ s.len \in {0, 1}
  BY DEF AckArrives, AtRest, LocalOK, Segments
<1>2. /\ b \in Connections /\ SameEnd(c, b) /\ SameAcked(c, b) /\ SameRcv(c, b)
      /\ b.snd_max = c.snd_max /\ b.snd_nxt = c.snd_nxt
      /\ b.out = c.out /\ b.failed = c.failed /\ b.timers = c.timers
  BY <1>1, EstablishedOK DEF SameEnd, SameAcked, SameRcv
<1>3. a = CASE s.ackNo <= b.snd_una -> b
            [] s.ackNo > b.snd_una /\ s.len = 0 /\ b.state # "SYN_RCVD" ->
                 receivedDataAck(x)
            [] OTHER -> x
  BY DEF processAckInEstabEtc
<1> HIDE DEF a, b
<1>4. CASE s.ackNo <= c.snd_una
  <2>1. c.state # "SYN_RCVD"
    BY <1>1, <1>4
       DEF AckArrives, AtRest, LocalOK, SendOpening, Opening, Truthful, Connections
  <2>2. b = c
    BY <2>1 DEF b
  <2>3. a = c
    <3>1. ~(s.ackNo > c.snd_una)
      BY <1>1, <1>4 DEF Connections
    <3> HIDE DEF x
    <3> QED  BY <1>3, <1>4, <2>2, <3>1
  <2>4. c.state \in Synchronized /\ AtRest(c, d)
    BY <2>1 DEF AckArrives
  <2> QED
    BY <2>3, <2>4, MidStart DEF RexmitLater, SameRcv, a, b
<1>5. CASE s.ackNo > c.snd_una
  <2>1. AckReady(b)
    <3>1. CASE c.state \in Synchronized
      BY <1>1, <1>2, <3>1
         DEF AckReady, AckArrives, AtRest, LocalOK, AfterHandshake, SendOrder,
             SameEnd, SameAcked
    <3>2. CASE c.state = "SYN_RCVD"
      BY <1>1, <1>2, <3>2
         DEF AckReady, AckArrives, AtRest, LocalOK, SendOpening, Opening, Handshake,
             SendOrder, SameEnd, SameAcked
    <3> QED  BY <3>1, <3>2 DEF AckArrives
  <2>2. s.ackNo <= d.rcv_nxt
    BY DEF AckArrives, Truthful
  <2>3. /\ SendReady(x) /\ SameEnd(b, x) /\ SameRcv(b, x)
        /\ x.snd_una = s.ackNo /\ x.snd_max = b.snd_max
        /\ x.timers = b.timers /\ x.out = b.out
    <3>1. b.snd_una < s.ackNo /\ s.ackNo <= b.snd_max
      BY <1>1, <1>2, <1>5 DEF SameAcked, Connections
    <3> QED  BY <1>1, <2>1, <3>1, AckTaken
  <2> HIDE DEF x
  <2>4. /\ SameEnd(c, x) /\ SameRcv(c, x) /\ x.snd_max = c.snd_max
        /\ x.timers = c.timers /\ x.out = {}
    BY <1>1, <1>2, <2>3 DEF SameEnd, SameRcv
  <2>5. AllSaid(x, c.rcv_nxt)
    BY <1>1, <2>4 DEF AllSaid, SameRcv, Connections
  <2>6. Received(d, x) /\ Delivered(d, x)
    BY <2>4, ReceivedSame DEF AckArrives, AtRest
  <2>7. Mid(c, d, x)
    BY <1>1, <2>2, <2>3, <2>4, <2>5, <2>6
       DEF Mid, SameRcv, AckArrives, AtRest, LocalOK, Connections
  <2>8. CASE s.len = 0 /\ c.state # "SYN_RCVD"
    <3>1. a = receivedDataAck(x)
      BY <1>1, <1>2, <1>3, <1>5, <2>8 DEF SameEnd, SameAcked, Connections
    <3>2. Sending(x, a, c.rcv_nxt) /\ RexmitOK(a)
      BY <2>3, <2>5, <3>1, SendingOnAck
    <3>3. Mid(c, d, a)
      BY <1>1, <2>7, <3>2, MidSending
    <3> QED
      BY <2>4, <3>2, <3>3 DEF Sending, SameRcv, RexmitLater, a, b
  <2>9. CASE ~(s.len = 0 /\ c.state # "SYN_RCVD")
    <3>1. a = x
      BY <1>1, <1>2, <1>3, <1>5, <2>9 DEF SameEnd, SameAcked, Connections
    <3>2. RexmitLater(c, x, s)
      <4>1. CASE s.len > 0
        BY <4>1, <1>5, <2>3 DEF RexmitLater
      <4>2. CASE c.state = "SYN_RCVD"
        <5>1. /\ c.snd_una = c.iss /\ c.snd_max = c.iss + 1
              /\ "REXMIT" \notin c.timers
          BY <4>2 DEF AckArrives, AtRest, LocalOK, SendOpening, Opening, Handshake,
                      TimersOK, Synchronized
        <5> QED
          BY <1>1, <1>5, <2>3, <2>4, <5>1 DEF RexmitLater, RexmitOK, Connections
      <4> QED  BY <1>1, <2>9, <4>1, <4>2
    <3> QED
      BY <2>4, <2>7, <3>1, <3>2 DEF a, b
  <2> QED  BY <2>8, <2>9
<1>6. s.ackNo <= c.snd_una \/ s.ackNo > c.snd_una
  BY <1>1 DEF Connections
<1> QED  BY <1>4, <1>5, <1>6

LEMMA CheckAckOK ==
  ASSUME NEW c, NEW d, NEW s, AckArrives(c, d, s)
  PROVE  LET ack == CheckAck(c, s)
         IN  /\ Mid(c, d, ack.c) /\ SameRcv(c, ack.c)
             /\ ack.ev = "DROP" => /\ Fits(d, ack.c, "IGNORE") /\ RexmitOK(ack.c)
             /\ ack.ev # "DROP" => /\ Fits(d, ack.c, ack.ev)
                                   /\ RexmitLater(c, ack.c, s)
<1> DEFINE b == IF c.state = "SYN_RCVD" THEN established(c, FALSE) ELSE c
           a == processAckInEstabEtc(b, s)
           ack == CheckAck(c, s)
<1>1. /\ c \in Connections /\ AtRest(c, d) /\ s.ackNo \in Nat
      /\ c.state \in Synchronized \cup {"SYN_RCVD"}
  BY DEF AckArrives, AtRest, Segments
<1>2. ack = CASE c.state = "TIME_WAIT" ->
                   Outcome(schedule(sendAck(c), "2MSL"), "IGNORE")
              [] c.state # "TIME_WAIT" /\ s.ackNo > c.snd_max ->
                   Outcome(sendAck(b), "DROP")
              [] c.state = "CLOSING" /\ s.ackNo <= c.snd_max /\ a.fin_ack_rcvd ->
                   Outcome(schedule(a, "2MSL"), "RCV_ACK")
              [] /\ s.ackNo <= c.snd_max
                 /\ \/ c.state = "SYN_RCVD"
                    \/ c.state = "FIN_WAIT_1" /\ a.fin_ack_rcvd ->
                   Outcome(a, "RCV_ACK")
              [] OTHER -> Outcome(a, "IGNORE")
  BY DEF CheckAck
<1>3. s.ackNo <= c.snd_max <=> ~(s.ackNo > c.snd_max)
  BY <1>1 DEF Connections
<1> HIDE DEF ack, a
<1>4. CASE c.state \in Synchronized /\ (c.state = "TIME_WAIT" \/ s.ackNo > c.snd_max)
  <2>1. Mid(c, d, c) /\ Fits(d, c, "IGNORE") /\ RexmitOK(c)
    BY <1>1, <1>4, MidStart
  <2>2. Sending(c, sendAck(c), c.rcv_nxt) /\ RexmitOK(sendAck(c))
    BY <2>1, SendingAck DEF Mid
  <2>3. Mid(c, d, sendAck(c)) /\ Fits(d, sendAck(c), "IGNORE")
    BY <1>1, <2>1, <2>2, MidSending
  <2>4. SameRcv(c, sendAck(c)) /\ sendAck(c) \in Connections /\ sendAck(c).state = c.state
    BY <2>2 DEF Sending, SendReady, SameEnd
  <2>5. CASE c.state = "TIME_WAIT"
    <3> DEFINE t == schedule(sendAck(c), "2MSL")
    <3>1. ack = Outcome(t, "IGNORE")
      BY <1>2, <2>5
    <3>2. TimersOnly(sendAck(c), t) /\ t.timers = sendAck(c).timers \cup {"2MSL"}
      BY <2>4, ScheduleOK DEF Timers
    <3> HIDE DEF t
    <3>3. Mid(c, d, t)
      BY <1>1, <2>3, <3>2, MidTimers
    <3>4. /\ SameRcv(c, t) /\ t.state = "TIME_WAIT" /\ t.rcv_nxt = c.rcv_nxt
          /\ "2MSL" \in t.timers
      BY <2>4, <2>5, <3>2 DEF TimersOnly, SameRcv, SameEnd
    <3>5. RexmitOK(t)
      BY <2>2, <3>2 DEF RexmitOK, TimersOnly, SameAcked, SameSent
    <3>6. Goto(t.state, "IGNORE", t.active) = "TIME_WAIT"
      BY <3>4 DEF Goto, OnAbort
    <3>7. FinTaken(d, t)
      BY <1>1, <2>5, <3>4 DEF AtRest, AfterFin, FinTaken
    <3>8. Fits(d, t, "IGNORE")
      BY <3>4, <3>6, <3>7 DEF Fits, Synchronized
    <3> QED
      BY <3>1, <3>3, <3>4, <3>5, <3>8 DEF Outcome, RexmitLater, ack
  <2>6. CASE c.state # "TIME_WAIT"
    <3>1. ack = Outcome(sendAck(c), "DROP")
      <4>1. b = c
        BY <1>4 DEF Synchronized
      <4> HIDE DEF b
      <4> QED  BY <1>2, <1>3, <1>4, <2>6, <4>1
    <3> QED
      BY <2>2, <2>3, <2>4, <3>1 DEF Outcome, ack
  <2> QED  BY <2>5, <2>6
<1>5. CASE s.ackNo <= c.snd_max /\ c.state # "TIME_WAIT"
  <2>1. /\ Mid(c, d, a) /\ SameRcv(c, a)
        /\ a.timers \ {"REXMIT"} = c.timers \ {"REXMIT"}
        /\ RexmitLater(c, a, s)
    BY <1>5, ProcessAckOK DEF a
  <2>2. /\ a \in Connections /\ a.state = c.state /\ a.active = c.active
        /\ a.rcv_nxt = c.rcv_nxt /\ "2MSL" \notin a.timers
    BY <1>1, <1>5, <2>1 DEF Mid, SendReady, SameEnd, SameRcv, AtRest, TimersOK
  <2>3. c.state \in AfterFin => FinTaken(d, a)
    BY <1>1, <2>2 DEF AtRest, FinTaken
  <2>4. CASE c.state = "CLOSING" /\ a.fin_ack_rcvd
    <3> DEFINE t == schedule(a, "2MSL")
    <3>1. ack = Outcome(t, "RCV_ACK")
      BY <1>2, <1>3, <1>5, <2>4
    <3>2. TimersOnly(a, t) /\ t.timers = a.timers \cup {"2MSL"}
      BY <2>2, ScheduleOK DEF Timers
    <3> HIDE DEF t
    <3>3. Mid(c, d, t)
      BY <1>1, <2>1, <3>2, MidTimers
    <3>4. /\ SameRcv(c, t) /\ t.state = "CLOSING" /\ t.rcv_nxt = a.rcv_nxt
          /\ "2MSL" \in t.timers
      BY <2>1, <2>2, <2>4, <3>2 DEF TimersOnly, SameRcv, SameEnd
    <3>5. RexmitLater(c, t, s)
      BY <2>1, <3>2 DEF RexmitOK, RexmitLater, TimersOnly, SameAcked, SameSent
    <3>6. Goto(t.state, "RCV_ACK", t.active) = "TIME_WAIT"
      BY <3>4 DEF Goto, OnAbort
    <3>7. FinTaken(d, t)
      BY <2>3, <2>4, <3>4 DEF AfterFin, FinTaken
    <3>8. Fits(d, t, "RCV_ACK")
      BY <3>4, <3>6, <3>7 DEF Fits, Synchronized
    <3> QED
      BY <3>1, <3>3, <3>4, <3>5, <3>8 DEF Outcome, ack
  <2>5. CASE c.state = "SYN_RCVD" \/ (c.state = "FIN_WAIT_1" /\ a.fin_ack_rcvd)
    <3>1. ack = Outcome(a, "RCV_ACK")
      BY <1>2, <1>3, <1>5, <2>5
    <3>2. Goto(a.state, "RCV_ACK", a.active) \in {"ESTABLISHED", "FIN_WAIT_2"}
      BY <2>2, <2>5 DEF Goto, OnAbort
    <3>3. Fits(d, a, "RCV_ACK")
      BY <2>2, <3>2 DEF Fits, Synchronized, AfterFin
    <3> QED  BY <2>1, <3>1, <3>3 DEF Outcome, ack
  <2>6. CASE ~(c.state = "CLOSING" /\ a.fin_ack_rcvd)
             /\ ~(c.state = "SYN_RCVD" \/ (c.state = "FIN_WAIT_1" /\ a.fin_ack_rcvd))
    <3>1. ack = Outcome(a, "IGNORE")
      BY <1>2, <1>3, <1>5, <2>6
    <3>2. Goto(a.state, "IGNORE", a.active) = c.state /\ c.state \in Synchronized
      BY <1>1, <2>2, <2>6 DEF Goto, OnAbort, Synchronized
    <3>3. Fits(d, a, "IGNORE")
      BY <1>5, <2>2, <2>3, <3>2 DEF Fits
    <3> QED  BY <2>1, <3>1, <3>3 DEF Outcome, ack
  <2> QED  BY <2>4, <2>5, <2>6
<1>6. c.state = "SYN_RCVD" => s.ackNo <= c.snd_max
  BY DEF AckArrives, AtRest, LocalOK, SendOpening, Opening, Handshake
<1> QED  BY <1>1, <1>3, <1>4, <1>5, <1>6 DEF Synchronized

-----------------------------------------------------------------------------
(* The segment text and the FIN *)

LEMMA LeastElement ==
  ASSUME NEW S \in SUBSET Nat, S # {}
  PROVE  LET n == CHOOSE n \in S : \A m \in S : n <= m
         IN  n \in S /\ \A m \in S : n <= m
<1>1. \E n \in S : \A m \in S : ~(<<m, n>> \in OpToRel(<, Nat))
  BY NatLessThanWellFounded, WFMin
<1>2. PICK n \in S : \A m \in S : ~(<<m, n>> \in OpToRel(<, Nat))
  BY <1>1
<1>3. \A m \in S : ~(m < n)
  BY <1>2 DEF OpToRel
<1>4. \A m \in S : n <= m
  BY <1>3
<1> QED  BY <1>4

\* The unit is in the queue, and rcv_nxt is the first one that is not.
LEMMA InsertOK ==
  ASSUME NEW c \in Connections, NEW s \in Segments, IsFiniteSet(c.rcvQueue)
  PROVE  LET r == insertBytesFromSegment(c, s)
             q == c.rcvQueue \cup {s.seq}
         IN  /\ r \in Connections /\ SameEnd(c, r) /\ SameAcked(c, r) /\ SameSent(c, r)
             /\ r.timers = c.timers /\ r.irs = c.irs /\ r.delivered = c.delivered
             /\ r.fin_rcvd = c.fin_rcvd /\ r.rcv_fin_seq = c.rcv_fin_seq
             /\ r.rcvQueue = q /\ IsFiniteSet(q)
             /\ c.rcv_nxt <= r.rcv_nxt
             /\ r.rcv_nxt # c.rcv_nxt => c.rcv_nxt \in q /\ r.rcv_nxt - 1 \in q
<1> DEFINE r == insertBytesFromSegment(c, s)
           q == c.rcvQueue \cup {s.seq}
           span == c.rcv_nxt .. (c.rcv_nxt + Cardinality(q))
           missing == span \ q
           n == CHOOSE k \in missing : \A m \in missing : k <= m
<1>1. s.seq \in Nat /\ q \subseteq Nat /\ c.rcv_nxt \in Nat
  BY DEF Connections, Segments
<1>2. IsFiniteSet(q) /\ Cardinality(q) \in Nat
  BY FS_AddElement, FS_CardinalityType
<1>3. Cardinality(span) = Cardinality(q) + 1
  BY <1>1, <1>2, FS_Interval
<1> HIDE DEF q
<1>4. missing # {} /\ missing \in SUBSET Nat
  <2>1. ASSUME missing = {} PROVE FALSE
    <3>1. span \in SUBSET q
      BY <2>1
    <3>2. Cardinality(span) <= Cardinality(q)
      BY <1>2, <3>1, FS_Subset
    <3> QED  BY <1>2, <1>3, <3>2
  <2> QED  BY <1>1, <1>2, <2>1
<1>5. n \in missing /\ \A m \in missing : n <= m
  <2> HIDE DEF missing
  <2> QED BY <1>4, LeastElement
<1>6. n \in Nat /\ c.rcv_nxt <= n /\ (n # c.rcv_nxt => c.rcv_nxt \in q /\ n - 1 \in q)
  <2> HIDE DEF n
  <2>1. n \in Nat /\ c.rcv_nxt <= n /\ n <= c.rcv_nxt + Cardinality(q)
    BY <1>1, <1>2, <1>5
  <2>2. ASSUME n # c.rcv_nxt, NEW m \in Nat, c.rcv_nxt <= m, m < n PROVE m \in q
    BY <1>1, <1>2, <1>5, <2>1, <2>2
  <2> QED  BY <1>1, <2>1, <2>2
<1>7. r = [c EXCEPT !.rcvQueue = q, !.rcv_nxt = n]
  BY DEF insertBytesFromSegment, q
<1> HIDE DEF r, n
<1>8. r \in Connections
  BY <1>1, <1>6, <1>7 DEF Connections
<1>9. /\ SameEnd(c, r) /\ SameAcked(c, r) /\ SameSent(c, r)
      /\ r.timers = c.timers /\ r.irs = c.irs /\ r.delivered = c.delivered
      /\ r.fin_rcvd = c.fin_rcvd /\ r.rcv_fin_seq = c.rcv_fin_seq
      /\ r.rcvQueue = q /\ r.rcv_nxt = n
  BY <1>7 DEF SameEnd, SameAcked, SameSent, Connections
<1> QED  BY <1>2, <1>6, <1>8, <1>9 DEF r, q

\* The peer's FIN, which d has sent and which is next.
FinNext(d, r) ==
  d.state \notin Opening /\ d.send_fin /\ d.snd_max = d.end + 1 /\ r.rcv_nxt = d.end

LEMMA FinArrivedOK ==
  ASSUME NEW c \in Connections, NEW d \in Connections, SendOrder(d), NEW r, Mid(c, d, r),
         RexmitOK(r), NEW ev, Fits(d, r, ev), r.state \in TextStates,
         FinNext(d, r), c.rcv_nxt # 0
  PROVE  LET p == FinArrived(r)
         IN  Mid(c, d, p.c) /\ RexmitOK(p.c) /\ Fits(d, p.c, p.ev)
<1> DEFINE m == [r EXCEPT !.rcv_nxt = @ + 1]
           t == schedule(m, "2MSL")
           p == FinArrived(r)
<1>1. r \in Connections /\ c.rcv_nxt <= r.rcv_nxt
  BY DEF Mid, SendReady, AllSaid
<1>2. /\ m \in Connections /\ SameEnd(r, m) /\ SameAcked(r, m) /\ SameSent(r, m)
      /\ m.timers = r.timers /\ m.irs = r.irs /\ m.rcvQueue = r.rcvQueue
      /\ m.delivered = r.delivered /\ m.fin_rcvd = r.fin_rcvd
      /\ m.rcv_fin_seq = r.rcv_fin_seq /\ m.rcv_nxt = r.rcv_nxt + 1
  BY <1>1 DEF SameEnd, SameAcked, SameSent, Connections
<1>3. p = CASE m.state = "FIN_WAIT_1" /\ m.fin_ack_rcvd -> Outcome(t, "RCV_FIN_ACK")
            [] m.state \in {"FIN_WAIT_2", "TIME_WAIT"} -> Outcome(t, "RCV_FIN")
            [] OTHER -> Outcome(m, "RCV_FIN")
  BY DEF FinArrived
<1> HIDE DEF m, p
<1>4. SendReady(m)
  BY <1>2 DEF Mid, SendReady, SendOrder, SameEnd, SameAcked, SameSent
<1>5. AllSaid(m, c.rcv_nxt)
  <2>1. \A s \in r.out : Says(r, c.rcv_nxt, s) /\ s \in Segments
    BY <1>1 DEF Mid, AllSaid, Connections
  <2>2. \A s \in m.out : Says(m, c.rcv_nxt, s)
    BY <1>1, <1>2, <2>1 DEF Says, SameEnd, SameSent, Segments, Connections
  <2> QED  BY <1>1, <1>2, <2>2 DEF AllSaid, Connections
<1>6. /\ FinTaken(d, m) /\ ~FinTaken(d, r)
  BY <1>1, <1>2 DEF FinNext, FinTaken, Connections
<1>7. Received(d, m)
  BY <1>1, <1>2, <1>6 DEF Mid, Received, FinNext, SendOrder, Connections
<1>8. Delivered(d, m)
  BY <1>1, <1>2, <1>6 DEF Mid, Delivered, FinNext, Connections
<1>9. Mid(c, d, m)
  BY <1>2, <1>4, <1>5, <1>7, <1>8 DEF Mid, SameEnd, SameAcked, SameSent
<1>10. RexmitOK(m)
  BY <1>2 DEF RexmitOK, SameAcked, SameSent
<1>11. "2MSL" \notin m.timers
  BY <1>2, <1>6 DEF Fits, AfterFin
<1>12. CASE m.state = "FIN_WAIT_2" \/ (m.state = "FIN_WAIT_1" /\ m.fin_ack_rcvd)
  <2>1. TimersOnly(m, t) /\ t.timers = m.timers \cup {"2MSL"}
    BY <1>2, ScheduleOK DEF Timers
  <2> HIDE DEF t
  <2>2. Mid(c, d, t)
    BY <1>9, <2>1, MidTimers
  <2>3. /\ t.state = m.state /\ t.rcv_nxt = m.rcv_nxt /\ "2MSL" \in t.timers
    BY <2>1 DEF TimersOnly, SameEnd, SameRcv
  <2>4. RexmitOK(t)
    BY <1>10, <2>1 DEF RexmitOK, TimersOnly, SameAcked, SameSent
  <2>5. p = Outcome(t, p.ev) /\ Goto(t.state, p.ev, t.active) = "TIME_WAIT"
    <3>1. CASE m.state = "FIN_WAIT_2"
      <4>1. p = Outcome(t, "RCV_FIN")
        BY <1>3, <3>1
      <4>2. Goto(t.state, "RCV_FIN", t.active) = "TIME_WAIT"
        BY <2>3, <3>1 DEF Goto, OnAbort
      <4> QED  BY <4>1, <4>2 DEF Outcome
    <3>2. CASE m.state = "FIN_WAIT_1" /\ m.fin_ack_rcvd
      <4>1. p = Outcome(t, "RCV_FIN_ACK")
        BY <1>3, <3>2
      <4>2. Goto(t.state, "RCV_FIN_ACK", t.active) = "TIME_WAIT"
        BY <2>3, <3>2 DEF Goto, OnAbort
      <4> QED  BY <4>1, <4>2 DEF Outcome
    <3> QED  BY <1>12, <3>1, <3>2
  <2>6. FinTaken(d, t)
    BY <1>6, <2>3 DEF FinTaken
  <2>7. Fits(d, t, p.ev)
    BY <2>3, <2>5, <2>6 DEF Fits, Synchronized
  <2> QED  BY <2>2, <2>4, <2>5, <2>7 DEF Outcome, p
<1>13. CASE ~(m.state = "FIN_WAIT_2" \/ (m.state = "FIN_WAIT_1" /\ m.fin_ack_rcvd))
  <2>1. m.state \in {"SYN_RCVD", "ESTABLISHED", "FIN_WAIT_1"}
    BY <1>2, <1>13 DEF TextStates, SameEnd
  <2>2. p = Outcome(m, "RCV_FIN")
    <3> HIDE DEF t
    <3> QED  BY <1>3, <1>13, <2>1
  <2>3. Goto(m.state, "RCV_FIN", m.active) \in {"CLOSE_WAIT", "CLOSING"}
    BY <2>1 DEF Goto, OnAbort
  <2>4. Fits(d, m, "RCV_FIN")
    BY <1>6, <1>11, <2>3 DEF Fits, Synchronized
  <2> QED  BY <1>9, <1>10, <2>2, <2>4 DEF Outcome, p
<1> QED  BY <1>12, <1>13

LEMMA AckArrivesFacts ==
  ASSUME NEW c, NEW d, NEW s, AckArrives(c, d, s)
  PROVE  /\ c \in Connections /\ d \in Connections /\ s \in Segments
         /\ SendOrder(c) /\ SendOrder(d) /\ c.rcv_nxt \in Nat \ {0}
         /\ s.seq \in Nat /\ s.len \in {0, 1} /\ s.ackNo \in Nat
<1>1. c \in Connections /\ d \in Connections /\ s \in Segments
  BY DEF AckArrives, AtRest
<1>2. SendOrder(c) /\ SendOrder(d) /\ RcvOpening(c) /\ AfterHandshake(c)
  BY DEF AckArrives, AtRest, LocalOK
<1>3. c.rcv_nxt # 0
  BY <1>2 DEF AckArrives, RcvOpening, AfterHandshake, Opening
<1> QED  BY <1>1, <1>2, <1>3 DEF Connections, Segments

\* What is in sequence is delivered, and may be followed by the FIN.
LEMMA ProcessTextOK ==
  ASSUME NEW c, NEW d, NEW s, AckArrives(c, d, s), NEW p,
         Mid(c, d, p.c), Fits(d, p.c, p.ev), RexmitLater(c, p.c, s)
  PROVE  LET r == ProcessText(p, s, c.snd_una)
         IN  Mid(c, d, r.c) /\ RexmitOK(r.c) /\ Fits(d, r.c, r.ev)
<1> DEFINE b == p.c
           i == insertBytesFromSegment(b, s)
           e == IF i.snd_una > c.snd_una THEN receivedDataAck(i) ELSE i
           keep == {q \in e.rcvQueue : q >= e.rcv_nxt}
           f == [e EXCEPT !.rcvQueue = keep,
                          !.delivered = @ + (e.rcv_nxt - b.rcv_nxt)]
           r == ProcessText(p, s, c.snd_una)
<1>1. /\ c \in Connections /\ d \in Connections /\ s \in Segments
      /\ SendOrder(c) /\ SendOrder(d) /\ c.rcv_nxt \in Nat \ {0}
      /\ s.seq \in Nat /\ s.len \in {0, 1}
  BY AckArrivesFacts
<1>2. CASE s.len = 0
  <2>1. r = p
    BY <1>2 DEF ProcessText
  <2> HIDE DEF r
  <2> QED  BY <1>2, <2>1 DEF RexmitLater, r
<1>3. CASE s.len > 0
  <2>1. /\ b \in Connections /\ SendReady(b) /\ AllSaid(b, c.rcv_nxt)
        /\ SameEnd(c, b) /\ IsFiniteSet(b.rcvQueue)
        /\ Received(d, b) /\ Delivered(d, b)
    BY DEF Mid, SendReady
  <2>2. b.state \in TextStates
    BY <1>3, <2>1 DEF AckArrives, SameEnd
  <2>3. /\ d.state \notin Opening /\ d.iss < s.seq /\ s.seq < d.end
        /\ s.seq < d.snd_max
    BY <1>1, <1>3 DEF AckArrives, Truthful, Connections
  <2>4. /\ i \in Connections /\ SameEnd(b, i) /\ SameAcked(b, i) /\ SameSent(b, i)
        /\ i.timers = b.timers /\ i.irs = b.irs /\ i.delivered = b.delivered
        /\ i.fin_rcvd = b.fin_rcvd /\ i.rcv_fin_seq = b.rcv_fin_seq
        /\ i.rcvQueue = b.rcvQueue \cup {s.seq} /\ IsFiniteSet(i.rcvQueue)
        /\ b.rcv_nxt <= i.rcv_nxt
        /\ i.rcv_nxt # b.rcv_nxt => b.rcv_nxt \in i.rcvQueue /\ i.rcv_nxt - 1 \in i.rcvQueue
    <3> DEFINE q == b.rcvQueue \cup {s.seq}
    <3>1. /\ i \in Connections /\ SameEnd(b, i) /\ SameAcked(b, i) /\ SameSent(b, i)
          /\ i.timers = b.timers /\ i.irs = b.irs /\ i.delivered = b.delivered
          /\ i.fin_rcvd = b.fin_rcvd /\ i.rcv_fin_seq = b.rcv_fin_seq
          /\ i.rcvQueue = q /\ IsFiniteSet(q)
          /\ b.rcv_nxt <= i.rcv_nxt
          /\ i.rcv_nxt # b.rcv_nxt => b.rcv_nxt \in q /\ i.rcv_nxt - 1 \in q
      <4> HIDE DEF b
      <4> QED  BY <1>1, <2>1, InsertOK
    <3> HIDE DEF q, i
    <3>2. i.rcvQueue = b.rcvQueue \cup {s.seq}
      BY <3>1 DEF q
    <3> QED  BY <3>1, <3>2
  <2>5. r = IF e.rcv_nxt = b.rcv_nxt THEN Outcome(sendAck(e), p.ev)
            ELSE IF f.fin_rcvd /\ f.rcv_nxt = f.rcv_fin_seq THEN FinArrived(f)
            ELSE Outcome(f, p.ev)
    BY <1>3, <2>2 DEF ProcessText, TextStates
  <2> HIDE DEF r, i
  <2>6. SendReady(i)
    BY <2>1, <2>4 DEF SendReady, SendOrder, SameEnd, SameAcked, SameSent
  <2>7. AllSaid(i, c.rcv_nxt)
    <3>1. \A x \in b.out : Says(b, c.rcv_nxt, x) /\ x \in Segments
      BY <2>1 DEF AllSaid, Connections
    <3>2. \A x \in i.out : Says(i, c.rcv_nxt, x)
      BY <2>1, <2>4, <3>1 DEF Says, SameEnd, SameSent, Segments, Connections
    <3> QED  BY <1>1, <2>1, <2>4, <3>2 DEF AllSaid, Connections
  <2>8. Sending(i, e, c.rcv_nxt) /\ RexmitOK(e)
    <3>1. CASE i.snd_una > c.snd_una
      BY <2>6, <2>7, <3>1, SendingOnAck
    <3>2. CASE ~(i.snd_una > c.snd_una)
      <4>1. RexmitOK(i)
        BY <2>4, <3>2 DEF RexmitLater, RexmitOK, SameAcked, SameSent
      <4> QED
        BY <2>6, <2>7, <3>2, <4>1
           DEF Sending, SendReady, SameEnd, SameAcked, SameRcv, Connections
    <3> QED  BY <3>1, <3>2
  <2> HIDE DEF e
  <2>9. /\ e \in Connections /\ SendReady(e) /\ AllSaid(e, c.rcv_nxt)
        /\ SameEnd(c, e) /\ e.irs = c.irs /\ c.snd_max <= e.snd_max
        /\ e.rcvQueue = b.rcvQueue \cup {s.seq} /\ IsFiniteSet(e.rcvQueue)
        /\ e.rcv_nxt = i.rcv_nxt /\ e.snd_una = b.snd_una
        /\ e.delivered = b.delivered /\ e.irs = b.irs
        /\ e.fin_rcvd = b.fin_rcvd /\ e.rcv_fin_seq = b.rcv_fin_seq
        /\ e.timers \ {"REXMIT"} = b.timers \ {"REXMIT"}
    BY <1>1, <2>1, <2>4, <2>8
       DEF Sending, Mid, SendReady, SameEnd, SameAcked, SameRcv, SameSent, Connections
  <2>10. \A q \in e.rcvQueue : d.iss < q /\ q < d.end /\ q < d.snd_max
    BY <2>1, <2>3, <2>9 DEF Received
  <2>11. CASE e.rcv_nxt = b.rcv_nxt
    <3>1. r = Outcome(sendAck(e), p.ev)
      BY <2>5, <2>11
    <3>2. Received(d, e)
      BY <2>1, <2>3, <2>9, <2>10, <2>11 DEF Received
    <3>3. Delivered(d, e)
      BY <2>1, <2>9, <2>11 DEF Delivered, FinTaken
    <3>4. Mid(c, d, e)
      BY <2>9, <3>2, <3>3 DEF Mid
    <3>5. Fits(d, e, p.ev)
      BY <2>1, <2>9, <2>11 DEF Fits, SameEnd, FinTaken
    <3>6. Sending(e, sendAck(e), c.rcv_nxt) /\ RexmitOK(sendAck(e))
      BY <2>8, <2>9, SendingAck
    <3>7. Mid(c, d, sendAck(e)) /\ Fits(d, sendAck(e), p.ev)
      BY <1>1, <3>4, <3>5, <3>6, MidSending
    <3> QED  BY <3>1, <3>6, <3>7 DEF Outcome, r
  <2>12. CASE e.rcv_nxt # b.rcv_nxt
    <3>1. /\ b.rcv_nxt \in Nat /\ e.rcv_nxt \in Nat /\ b.rcv_nxt < e.rcv_nxt
          /\ d.iss < b.rcv_nxt /\ b.rcv_nxt < d.end
          /\ e.rcv_nxt <= d.end /\ e.rcv_nxt <= d.snd_max
      <4>1. b.rcv_nxt \in e.rcvQueue /\ e.rcv_nxt - 1 \in e.rcvQueue
        BY <2>4, <2>9, <2>12
      <4> QED  BY <1>1, <2>1, <2>4, <2>9, <2>10, <2>12, <4>1 DEF Connections
    <3>2. f = [e EXCEPT !.rcvQueue = keep,
                        !.delivered = e.delivered + (e.rcv_nxt - b.rcv_nxt)]
      BY <2>9 DEF Connections
    <3>3. /\ e.delivered + (e.rcv_nxt - b.rcv_nxt) \in Nat
          /\ keep \in SUBSET Nat /\ IsFiniteSet(keep) /\ keep \subseteq e.rcvQueue
      <4>1. keep \subseteq e.rcvQueue
        OBVIOUS
      <4>2. IsFiniteSet(keep)
        BY <2>9, <4>1, FS_Subset
      <4> QED  BY <2>9, <3>1, <4>1, <4>2 DEF Connections
    <3> HIDE DEF f, keep
    <3>4. /\ f \in Connections /\ SameEnd(e, f) /\ SameAcked(e, f) /\ SameSent(e, f)
          /\ f.irs = e.irs /\ f.rcv_nxt = e.rcv_nxt /\ f.rcvQueue = keep
          /\ f.delivered = e.delivered + (e.rcv_nxt - b.rcv_nxt)
          /\ f.fin_rcvd = e.fin_rcvd /\ f.rcv_fin_seq = e.rcv_fin_seq
          /\ f.timers = e.timers
      <4>1. f \in Connections
        BY <2>9, <3>2, <3>3 DEF Connections
      <4> QED  BY <2>9, <3>2, <4>1 DEF SameEnd, SameAcked, SameSent, Connections
    <3>5. SendReady(f)
      BY <2>9, <3>4 DEF SendReady, SendOrder, SameEnd, SameAcked, SameSent
    <3>6. AllSaid(f, c.rcv_nxt)
      BY <2>9, <3>4 DEF AllSaid, Says, SameEnd, SameSent
    <3>7. Received(d, f)
      BY <1>1, <2>1, <2>3, <2>9, <2>10, <3>1, <3>3, <3>4 DEF Received, Connections
    <3>8. ~FinTaken(d, b) /\ ~FinTaken(d, f)
      BY <1>1, <3>1, <3>4 DEF FinTaken, Connections
    <3>9. Delivered(d, f)
      BY <1>1, <2>1, <2>9, <3>1, <3>4, <3>8 DEF Delivered, Connections
    <3>10. Mid(c, d, f)
      <4>1. SameEnd(c, f)
        BY <2>9, <3>4 DEF SameEnd
      <4> QED
        BY <2>9, <3>3, <3>4, <3>5, <3>6, <3>7, <3>9, <4>1 DEF Mid, SameAcked, SameSent
    <3>11. Fits(d, f, p.ev)
      BY <2>1, <2>9, <3>4, <3>8 DEF Fits, SameEnd
    <3>12. RexmitOK(f)
      BY <2>8, <3>4 DEF RexmitOK, SameAcked, SameSent
    <3>13. CASE f.fin_rcvd /\ f.rcv_nxt = f.rcv_fin_seq
      <4>1. r = FinArrived(f)
        BY <2>5, <2>12, <3>13
      <4>2. FinNext(d, f)
        BY <3>7, <3>13 DEF Received, FinNext
      <4>3. f.state \in TextStates
        BY <2>1, <2>2, <2>9, <3>4 DEF SameEnd
      <4> QED  BY <1>1, <3>10, <3>11, <3>12, <4>1, <4>2, <4>3, FinArrivedOK DEF r
    <3>14. CASE ~(f.fin_rcvd /\ f.rcv_nxt = f.rcv_fin_seq)
      <4>1. r = Outcome(f, p.ev)
        BY <2>5, <2>12, <3>14
      <4> QED  BY <3>10, <3>11, <3>12, <4>1 DEF Outcome, r
    <3> QED  BY <3>13, <3>14
  <2> QED  BY <2>11, <2>12
<1> QED  BY <1>1, <1>2, <1>3

\* In the middle of an event, a FIN of the peer that had been taken before still is.
LEMMA FinStaysTaken ==
  ASSUME NEW c, NEW d, NEW s, AckArrives(c, d, s), NEW r, Mid(c, d, r),
         c.state \in AfterFin
  PROVE  FinTaken(d, r)
<1>1. /\ c \in Connections /\ d \in Connections /\ SendOrder(d)
  BY AckArrivesFacts
<1>2. FinTaken(d, c)
  BY DEF AckArrives, AtRest
<1>3. c.rcv_nxt <= r.rcv_nxt /\ r.rcv_nxt <= d.snd_max /\ r.rcv_nxt \in Nat
  BY DEF Mid, AllSaid, Received, SendReady, Connections
<1> QED  BY <1>1, <1>2, <1>3 DEF FinTaken, SendOrder, Connections

LEMMA CheckFinOK ==
  ASSUME NEW c, NEW d, NEW s, AckArrives(c, d, s), NEW p,
         Mid(c, d, p.c), RexmitOK(p.c), Fits(d, p.c, p.ev)
  PROVE  LET r == CheckFin(p, s)
         IN  Mid(c, d, r.c) /\ RexmitOK(r.c) /\ Fits(d, r.c, r.ev)
<1> DEFINE b == p.c
           f == [b EXCEPT !.fin_rcvd = TRUE, !.rcv_fin_seq = s.seq + s.len]
           r == CheckFin(p, s)
<1>1. /\ c \in Connections /\ d \in Connections /\ SendOrder(d)
      /\ c.rcv_nxt \in Nat \ {0} /\ s.seq \in Nat /\ s.len \in {0, 1}
  BY AckArrivesFacts
<1>2. b \in Connections /\ b.state = c.state
  BY DEF Mid, SendReady, SameEnd
<1>3. r = CASE "FIN" \notin s.flags -> p
            [] "FIN" \in s.flags /\ b.rcv_nxt = s.seq + s.len -> FinArrived(b)
            [] OTHER -> Outcome(f, p.ev)
  BY DEF CheckFin
<1> HIDE DEF r
<1>4. CASE "FIN" \notin s.flags
  BY <1>3, <1>4 DEF r
<1>5. ASSUME "FIN" \in s.flags
      PROVE  /\ d.state \notin Opening /\ d.send_fin
             /\ s.seq + s.len = d.end /\ d.snd_max = d.end + 1
  BY <1>5 DEF AckArrives, Truthful
<1>6. CASE "FIN" \in s.flags /\ b.rcv_nxt = s.seq + s.len
  <2>1. r = FinArrived(b)
    BY <1>3, <1>6
  <2>2. FinNext(d, b)
    BY <1>5, <1>6 DEF FinNext
  <2>3. b.state \in TextStates
    <3>1. ~FinTaken(d, b)
      BY <1>1, <2>2 DEF FinTaken, FinNext, Connections
    <3>2. c.state \notin AfterFin
      BY <3>1, FinStaysTaken
    <3> QED  BY <1>2, <3>2 DEF AckArrives, Synchronized, AfterFin, TextStates
  <2> QED  BY <1>1, <2>1, <2>2, <2>3, FinArrivedOK DEF r
<1>7. CASE "FIN" \in s.flags /\ b.rcv_nxt # s.seq + s.len
  <2>1. r = Outcome(f, p.ev)
    BY <1>3, <1>7
  <2>2. s.seq + s.len \in Nat
    BY <1>1
  <2>3. f = [b EXCEPT !.fin_rcvd = TRUE, !.rcv_fin_seq = s.seq + s.len]
    OBVIOUS
  <2> HIDE DEF f
  <2>4. f \in Connections
    BY <1>2, <2>2, <2>3 DEF Connections
  <2>5. /\ SameEnd(b, f) /\ SameAcked(b, f) /\ SameSent(b, f) /\ f.timers = b.timers
        /\ f.irs = b.irs /\ f.rcv_nxt = b.rcv_nxt /\ f.rcvQueue = b.rcvQueue
        /\ f.delivered = b.delivered /\ f.fin_rcvd /\ f.rcv_fin_seq = s.seq + s.len
    BY <1>2, <2>3 DEF SameEnd, SameAcked, SameSent, Connections
  <2>6. SendReady(f)
    BY <2>4, <2>5 DEF Mid, SendReady, SendOrder, SameEnd, SameAcked, SameSent
  <2>7. AllSaid(f, c.rcv_nxt)
    BY <2>5 DEF Mid, AllSaid, Says, SameEnd, SameSent
  <2>8. Received(d, f) /\ Delivered(d, f)
    BY <1>5, <1>7, <2>5 DEF Mid, Received, Delivered, FinTaken
  <2>9. Mid(c, d, f)
    BY <2>5, <2>6, <2>7, <2>8 DEF Mid, SameEnd, SameAcked, SameSent
  <2>10. RexmitOK(f)
    BY <2>5 DEF RexmitOK, SameAcked, SameSent
  <2>11. Fits(d, f, p.ev)
    BY <2>5 DEF Fits, FinTaken, SameEnd
  <2> QED  BY <2>1, <2>9, <2>10, <2>11 DEF Outcome, r
<1> QED  BY <1>4, <1>6, <1>7

LEMMA DeferredCloseOK ==
  ASSUME NEW c, NEW d, NEW s, AckArrives(c, d, s), NEW p, NEW nxt,
         Mid(c, d, p.c), RexmitOK(p.c), Fits(d, p.c, p.ev)
  PROVE  LET r == DeferredClose(p, nxt)
         IN  Mid(c, d, r.c) /\ RexmitOK(r.c) /\ Fits(d, r.c, r.ev)
<1> DEFINE b == p.c
           r == DeferredClose(p, nxt)
           now == /\ b.send_fin /\ b.snd_nxt = b.snd_fin_seq + 1
                  /\ \/ b.state \in {"ESTABLISHED", "SYN_RCVD"}
                     \/ b.state = "CLOSE_WAIT" /\ nxt # b.snd_nxt
<1>1. r = IF now THEN Outcome(b, "CLOSE") ELSE p
  BY DEF DeferredClose
<1> HIDE DEF r
<1>2. CASE now
  <2>1. b.state = c.state /\ b.send_fin = c.send_fin
    BY DEF Mid, SameEnd
  <2>2. SendOpening(c)
    BY DEF AckArrives, AtRest, LocalOK
  <2>3. b.state \in {"ESTABLISHED", "CLOSE_WAIT"}
    BY <1>2, <2>1, <2>2 DEF SendOpening, Opening
  <2> DEFINE st == Goto(b.state, p.ev, b.active)
  <2>4. st # "TIME_WAIT"
    BY <2>3 DEF Goto, OnAbort
  <2>5. "2MSL" \notin b.timers
    BY <2>4 DEF Fits
  <2>6. Goto(b.state, "CLOSE", b.active)
          = IF b.state = "ESTABLISHED" THEN "FIN_WAIT_1" ELSE "LAST_ACK"
    BY <2>3 DEF Goto, OnAbort
  <2>7. b.state = "CLOSE_WAIT" => FinTaken(d, b)
    BY <2>1, FinStaysTaken DEF AfterFin
  <2>8. Fits(d, b, "CLOSE")
    BY <2>3, <2>5, <2>6, <2>7 DEF Fits, Synchronized, AfterFin
  <2> QED  BY <1>1, <1>2, <2>8 DEF Outcome, r
<1>3. CASE ~now
  BY <1>1, <1>3 DEF r
<1> QED  BY <1>2, <1>3

\* Steps five to eight keep what is known of the two ends.
LEMMA ProcessAckTextFinOK ==
  ASSUME NEW c, NEW d, NEW s, AckArrives(c, d, s)
  PROVE  LET r == ProcessAckTextFin(c, s)
         IN  /\ Mid(c, d, r.c)
             /\ \/ RexmitOK(r.c) /\ Fits(d, r.c, r.ev)
                \/ c.state = "LAST_ACK" /\ r.ev = "RCV_ACK"
<1> DEFINE ack == CheckAck(c, s)
           text == ProcessText(ack, s, c.snd_una)
           fin == CheckFin(text, s)
           acked == IF fin.c.rcv_nxt = c.rcv_nxt THEN fin
                    ELSE Outcome(receiveSeqChanged(fin.c), fin.ev)
           r == ProcessAckTextFin(c, s)
           last == c.state = "LAST_ACK" /\ c.send_fin /\ s.ackNo = c.snd_fin_seq + 1
<1>1. c \in Connections
  BY AckArrivesFacts
<1>2. /\ Mid(c, d, ack.c) /\ SameRcv(c, ack.c)
      /\ ack.ev = "DROP" => /\ Fits(d, ack.c, "IGNORE") /\ RexmitOK(ack.c)
      /\ ack.ev # "DROP" => /\ Fits(d, ack.c, ack.ev)
                            /\ RexmitLater(c, ack.c, s)
  BY CheckAckOK
<1>3. r = CASE ack.ev = "DROP" -> Outcome(ack.c, "IGNORE")
            [] /\ c.state = "LAST_ACK" /\ ack.ev # "DROP"
               /\ c.send_fin /\ s.ackNo = c.snd_fin_seq + 1 ->
                 Outcome(ack.c, "RCV_ACK")
            [] OTHER -> DeferredClose(acked, c.snd_nxt)
  BY DEF ProcessAckTextFin
<1> HIDE DEF ack, r
<1>4. CASE ack.ev = "DROP"
  <2> HIDE DEF acked
  <2>1. r = Outcome(ack.c, "IGNORE")
    BY <1>3, <1>4
  <2> QED  BY <1>2, <1>4, <2>1 DEF Outcome, r
<1>5. CASE ack.ev # "DROP" /\ last
  <2> HIDE DEF acked
  <2>1. r = Outcome(ack.c, "RCV_ACK")
    BY <1>3, <1>5
  <2> QED  BY <1>2, <1>5, <2>1 DEF Outcome, r
<1>6. CASE ack.ev # "DROP" /\ ~last
  <2>1. r = DeferredClose(acked, c.snd_nxt)
    <3> HIDE DEF acked
    <3> QED  BY <1>3, <1>6
  <2>2. Mid(c, d, text.c) /\ RexmitOK(text.c) /\ Fits(d, text.c, text.ev)
    BY <1>2, <1>6, ProcessTextOK
  <2> HIDE DEF text
  <2>3. Mid(c, d, fin.c) /\ RexmitOK(fin.c) /\ Fits(d, fin.c, fin.ev)
    BY <2>2, CheckFinOK
  <2> HIDE DEF fin
  <2>4. Mid(c, d, acked.c) /\ RexmitOK(acked.c) /\ Fits(d, acked.c, acked.ev)
    <3>1. /\ Sending(fin.c, receiveSeqChanged(fin.c), c.rcv_nxt)
          /\ RexmitOK(receiveSeqChanged(fin.c))
      BY <2>3, SendingSeqChanged DEF Mid
    <3>2. Mid(c, d, receiveSeqChanged(fin.c)) /\ Fits(d, receiveSeqChanged(fin.c), fin.ev)
      BY <1>1, <2>3, <3>1, MidSending
    <3> QED  BY <2>3, <3>1, <3>2 DEF Outcome
  <2> HIDE DEF acked
  <2>5. Mid(c, d, r.c) /\ RexmitOK(r.c) /\ Fits(d, r.c, r.ev)
    BY <2>1, <2>4, DeferredCloseOK
  <2> QED  BY <2>5 DEF r
<1> QED  BY <1>4, <1>5, <1>6

-----------------------------------------------------------------------------
(* The end of an event *)

\* What the event may do to what the peer knows: r is c after the event.
Grows(c, r) ==
  /\ c.snd_max <= r.snd_max /\ c.rcv_nxt <= r.rcv_nxt
  /\ c.active => r.active
  /\ r.iss = c.iss \/ (c.state \in {"INIT", "LISTEN"} /\ c.snd_max < r.iss)
  /\ c.state \notin Opening =>
       r.state \notin Opening /\ c.end <= r.end /\ r.irs = c.irs
  /\ c.state = "CLOSED" => SameRcv(c, r)
  /\ c.send_fin => r.send_fin /\ r.end = c.end
  /\ r.send_fin => c.state \notin Opening

\* All that an event at c leaves behind, with its segments still in r.out.
After(c, d, r) ==
  /\ r \in Connections /\ LocalOK(r) /\ TimersOK(r) /\ ~r.failed
  /\ Received(d, r) /\ Delivered(d, r) /\ Acked(r, d)
  /\ r.state \in AfterFin => FinTaken(d, r)
  /\ Grows(c, r)
  /\ \A s \in r.out : Truthful(d, r, s)

LEMMA PeerFacts ==
  ASSUME NEW e \in Ends
  PROVE  /\ Peer(e) \in Ends /\ Peer(e) # e /\ Peer(Peer(e)) = e
         /\ \A x \in Ends : x = e \/ x = Peer(e)
<1>1. IsFiniteSet(Ends) /\ Cardinality(Ends) = 2
  BY TCPAssumption
<1>2. IsFiniteSet(Ends \ {e}) /\ Cardinality(Ends \ {e}) = 1
  BY <1>1, FS_RemoveElement
<1>3. PICK p : Ends \ {e} = {p}
  BY <1>2, FS_Singleton
<1>4. p \in Ends /\ p # e /\ \A x \in Ends : x = e \/ x = p
  BY <1>3
<1>5. Peer(e) = p
  BY <1>4 DEF Peer
<1>6. Peer(p) = e
  BY <1>4 DEF Peer
<1> QED  BY <1>4, <1>5, <1>6

\* What the peer has received and what is in flight stays right.
LEMMA PeerKept ==
  ASSUME NEW c, NEW d, AtRest(c, d), AtRest(d, c), NEW r \in Connections,
         SendOrder(r), Grows(c, r)
  PROVE  /\ Received(r, d) /\ Delivered(r, d) /\ Acked(d, r)
         /\ d.state \in AfterFin => FinTaken(r, d)
         /\ \A s \in Segments : /\ Truthful(d, c, s) => Truthful(d, r, s)
                                /\ Truthful(c, d, s) => Truthful(r, d, s)
<1>1. c \in Connections /\ d \in Connections /\ SendOrder(c) /\ SendOrder(d)
  BY DEF AtRest, LocalOK
<1>2. /\ Received(c, d) /\ Delivered(c, d) /\ Acked(d, c)
      /\ d.state \in AfterFin => FinTaken(c, d)
  BY DEF AtRest
<1>3. c.state \in {"INIT", "LISTEN"} => ~c.active
  BY DEF AtRest, LocalOK, RcvOpening, Opening
<1>4. FinTaken(r, d) <=> FinTaken(c, d)
  BY <1>1, <1>2 DEF FinTaken, Grows, Received, SendOrder, Connections
<1>5. FinTaken(c, d) => r.end = c.end
  BY DEF FinTaken, Grows
<1>6. Received(r, d)
  <2>1. d.rcv_nxt <= r.snd_max
    BY <1>1, <1>2 DEF Received, Grows, Connections
  <2>2. \/ d.rcv_nxt = 0 /\ d.delivered = 0
        \/ d.rcv_nxt < r.iss /\ d.rcv_nxt = d.irs + 1
        \/ d.rcv_nxt > r.iss /\ d.irs = r.iss
    <3>1. CASE r.iss = c.iss
      BY <1>2, <3>1 DEF Received
    <3>2. CASE c.state \in {"INIT", "LISTEN"} /\ c.snd_max < r.iss
      <4>1. c.snd_max <= c.iss + 1
        BY <3>2 DEF AtRest, LocalOK, SendOpening, Opening
      <4> QED  BY <1>1, <1>2, <3>2, <4>1 DEF Received, Connections
    <3> QED  BY <3>1, <3>2 DEF Grows
  <2>3. ASSUME NEW q \in d.rcvQueue
        PROVE  r.state \notin Opening /\ r.iss < q /\ q < r.end /\ q < r.snd_max
    <3>1. c.state \notin Opening /\ c.iss < q /\ q < c.end /\ q < c.snd_max /\ q \in Nat
      BY <1>1, <1>2, <2>3 DEF Received, Connections
    <3> QED  BY <1>1, <3>1 DEF Grows, Opening, Connections
  <2>4. d.fin_rcvd => /\ r.state \notin Opening
                      /\ r.send_fin /\ d.rcv_fin_seq = r.end /\ r.snd_max = r.end + 1
    BY <1>1, <1>2 DEF Received, Grows, SendOrder, Connections
  <2> QED  BY <2>1, <2>2, <2>3, <2>4 DEF Received
<1>7. Delivered(r, d)
  BY <1>2, <1>4, <1>5 DEF Delivered
<1>8. Acked(d, r)
  BY <1>1, <1>2 DEF Acked, Grows, Connections
<1>9. d.state \in AfterFin => FinTaken(r, d)
  BY <1>2, <1>4
<1>10. ASSUME NEW s \in Segments, Truthful(d, c, s) PROVE Truthful(d, r, s)
  <2> SUFFICES ASSUME "RST" \notin s.flags PROVE Truthful(d, r, s)
    BY DEF Truthful
  <2>1. s.seq \in Nat /\ s.len \in {0, 1} /\ s.ackNo \in Nat
    BY DEF Segments
  <2>2. s.seq + s.len <= r.snd_max
    BY <1>1, <1>10, <2>1 DEF Truthful, Grows, Connections
  <2>3. "ACK" \in s.flags => s.ackNo # 0 /\ s.ackNo # d.iss /\ s.ackNo <= r.rcv_nxt
    BY <1>1, <1>10, <2>1 DEF Truthful, Grows, Connections
  <2>4. "SYN" \in s.flags =>
          /\ s.len = 0 /\ "FIN" \notin s.flags
          /\ s.seq < r.snd_max
          /\ s.seq = r.iss \/ s.seq + 1 < r.iss
          /\ "ACK" \notin s.flags => s.seq = r.iss /\ r.active
    BY <1>1, <1>3, <1>10, <2>1 DEF Truthful, Grows, Connections
  <2>5. s.len > 0 => r.state \notin Opening /\ r.iss < s.seq /\ s.seq < r.end
    BY <1>1, <1>10, <2>1 DEF Truthful, Grows, Opening, Connections
  <2>6. "FIN" \in s.flags =>
          /\ r.state \notin Opening /\ r.send_fin
          /\ s.seq + s.len = r.end /\ r.snd_max = r.end + 1
    BY <1>1, <1>10, <2>1 DEF Truthful, Grows, SendOrder, Connections
  <2> QED  BY <2>2, <2>3, <2>4, <2>5, <2>6 DEF Truthful
<1>11. ASSUME NEW s \in Segments, Truthful(c, d, s) PROVE Truthful(r, d, s)
  <2>1. s.ackNo \in Nat /\ d.rcv_nxt <= c.snd_max
    BY <1>2 DEF Segments, Received
  <2>2. "RST" \notin s.flags /\ "ACK" \in s.flags => s.ackNo # r.iss
    BY <1>1, <1>11, <2>1 DEF Truthful, Grows, Connections
  <2> QED  BY <1>11, <2>2 DEF Truthful
<1> QED  BY <1>6, <1>7, <1>8, <1>9, <1>10, <1>11

LEMMA RestBetweenEvents ==
  ASSUME IndInv, NEW e \in Ends
  PROVE  AtRest(conn[e], conn[Peer(e)]) /\ AtRest(conn[Peer(e)], conn[e])
<1>1. Peer(e) \in Ends /\ Peer(Peer(e)) = e
  BY PeerFacts
<1>2. conn[e] \in Connections /\ conn[Peer(e)] \in Connections
  BY <1>1 DEF IndInv, TypeOK, Connections
<1> QED  BY <1>1, <1>2 DEF IndInv, AtRest

\* A step that is an event at e.
Advances(e) == Grows(conn[e], conn[e]') /\ conn[Peer(e)]' = conn[Peer(e)]

\* An event at e keeps the invariant.
LEMMA EventStep ==
  ASSUME IndInv, NEW e \in Ends, NEW r, NEW kept \in SUBSET net,
         After(conn[e], conn[Peer(e)], r),
         conn' = [conn EXCEPT ![e] = [r EXCEPT !.out = {}]],
         net' = kept \cup {[to |-> Peer(e), seg |-> s] : s \in r.out},
         AppOK(e)', AppOK(Peer(e))',
         plan' = plan, toSend' \in [Ends -> Nat], closing' \subseteq Ends,
         faults' \in 0 .. MaxFaults[plan]
  PROVE  IndInv' /\ Advances(e)
<1> DEFINE c == conn[e]
           d == conn[Peer(e)]
           q == [r EXCEPT !.out = {}]
           new == {[to |-> Peer(e), seg |-> s] : s \in r.out}
<1>1. /\ Peer(e) \in Ends /\ Peer(e) # e /\ Peer(Peer(e)) = e
      /\ \A x \in Ends : x = e \/ x = Peer(e)
  BY PeerFacts
<1>2. AtRest(c, d) /\ AtRest(d, c)
  BY RestBetweenEvents
<1>3. /\ conn \in [Ends -> Connections] /\ net \subseteq [to : Ends, seg : Segments]
      /\ plan \in Plans
  BY DEF IndInv, TypeOK, Connections
<1>4. r \in Connections /\ r.out \subseteq Segments /\ SendOrder(r) /\ Grows(c, r)
  BY DEF After, LocalOK, Connections
<1>5. q \in Connections
  BY <1>4 DEF Connections
<1>6. /\ SameEnd(r, q) /\ SameAcked(r, q) /\ SameRcv(r, q)
      /\ q.snd_nxt = r.snd_nxt /\ q.snd_max = r.snd_max /\ q.timers = r.timers
      /\ q.failed = r.failed /\ q.out = {}
  BY <1>4 DEF SameEnd, SameAcked, SameRcv, Connections
<1>7. conn'[e] = q /\ conn'[Peer(e)] = d /\ conn' \in [Ends -> Connections]
  BY <1>1, <1>3, <1>5
<1> HIDE DEF q
<1>8. LocalOK(q) /\ TimersOK(q) /\ ~q.failed
  BY <1>6
     DEF After, LocalOK, TimersOK, SendOrder, SendOpening, RcvOpening, AfterHandshake,
         SameEnd, SameAcked, SameRcv
<1>9. /\ Received(d, q) /\ Delivered(d, q) /\ Acked(q, d)
      /\ q.state \in AfterFin => FinTaken(d, q)
  <2>1. Received(d, q) /\ Delivered(d, q)
    BY <1>6, ReceivedSame DEF After
  <2> QED  BY <1>6, <2>1 DEF After, Acked, FinTaken, SameEnd, SameAcked, SameRcv
<1>10. SendOrder(q) /\ Grows(c, q)
  BY <1>4, <1>6, <1>8 DEF LocalOK, Grows, SameEnd, SameRcv
<1>11. /\ Received(q, d) /\ Delivered(q, d) /\ Acked(d, q)
       /\ d.state \in AfterFin => FinTaken(q, d)
       /\ \A s \in Segments : /\ Truthful(d, c, s) => Truthful(d, q, s)
                              /\ Truthful(c, d, s) => Truthful(q, d, s)
  BY <1>2, <1>5, <1>10, PeerKept
<1>12. /\ LocalOK(d) /\ TimersOK(d) /\ ~d.failed /\ d.out = {}
  BY <1>2 DEF AtRest
<1>13. net' \subseteq [to : Ends, seg : Segments]
  <2>1. new \subseteq [to : Ends, seg : Segments]
    BY <1>1, <1>4
  <2> QED  BY <1>3, <2>1
<1>14. TypeOK'
  BY <1>3, <1>7, <1>13 DEF TypeOK, Connections
<1>15. ASSUME NEW m \in net' PROVE Truthful(conn'[m.to], conn'[Peer(m.to)], m.seg)
  <2>1. CASE m \in kept
    <3>1. m \in net /\ m.to \in Ends /\ m.seg \in Segments
      BY <1>3, <2>1
    <3>2. Truthful(conn[m.to], conn[Peer(m.to)], m.seg)
      BY <3>1 DEF IndInv
    <3>3. CASE m.to = e
      BY <1>7, <1>11, <3>1, <3>2, <3>3
    <3>4. CASE m.to = Peer(e)
      BY <1>1, <1>7, <1>11, <3>1, <3>2, <3>4
    <3> QED  BY <1>1, <3>1, <3>3, <3>4
  <2>2. CASE m \in new
    <3>1. PICK s \in r.out : m = [to |-> Peer(e), seg |-> s]
      BY <2>2
    <3>2. Truthful(d, r, s)
      BY <3>1 DEF After
    <3>3. Truthful(d, q, s)
      BY <1>6, <3>2 DEF Truthful, SameEnd, SameRcv
    <3> QED  BY <1>1, <1>7, <3>1, <3>3
  <2> QED  BY <2>1, <2>2
<1>16. ASSUME NEW x \in Ends
       PROVE  /\ LocalOK(conn'[x]) /\ TimersOK(conn'[x])
              /\ ~conn'[x].failed /\ conn'[x].out = {}
              /\ AppOK(x)'
              /\ Received(conn'[x], conn'[Peer(x)])
              /\ conn'[Peer(x)].state \in AfterFin => FinTaken(conn'[x], conn'[Peer(x)])
              /\ Delivered(conn'[x], conn'[Peer(x)])
              /\ Acked(conn'[x], conn'[Peer(x)])
  <2>1. CASE x = e
    BY <1>6, <1>7, <1>8, <1>9, <1>11, <2>1
  <2>2. CASE x = Peer(e)
    BY <1>1, <1>7, <1>9, <1>11, <1>12, <2>2
  <2> QED  BY <1>1, <2>1, <2>2
<1>17. Advances(e)
  BY <1>7, <1>10 DEF Advances
<1> QED  BY <1>14, <1>15, <1>16, <1>17 DEF IndInv

\* performStateTransition changes the state and the timers.
LEMMA TransitionOK ==
  ASSUME NEW c \in Connections, NEW ev
  PROVE  LET st == Goto(c.state, ev, c.active)
             r == performStateTransition(c, ev)
         IN  /\ r \in Connections /\ r.state = st
             /\ SameAcked(c, r) /\ SameRcv(c, r) /\ SameSent(c, r)
             /\ r.active = c.active /\ r.iss = c.iss /\ r.end = c.end
             /\ r.send_fin = c.send_fin /\ r.snd_fin_seq = c.snd_fin_seq
             /\ r.timers = IF st = c.state THEN c.timers ELSE c.timers \ Cancelled(st)
<1> DEFINE st == Goto(c.state, ev, c.active)
           r == performStateTransition(c, ev)
           x == cancel(c, Cancelled(st))
<1>1. st \in States
  BY DEF Goto, States, Connections
<1> HIDE DEF st
<1>2. r = IF st = c.state THEN c ELSE [x EXCEPT !.state = st]
  BY DEF performStateTransition, st
<1>3. TimersOnly(c, x) /\ x.timers = c.timers \ Cancelled(st)
  BY CancelOK
<1> HIDE DEF x, r
<1>4. CASE st = c.state
  BY <1>2, <1>4 DEF SameAcked, SameRcv, SameSent, st, r
<1>5. CASE st # c.state
  <2>1. r = [x EXCEPT !.state = st] /\ x \in Connections
    BY <1>2, <1>3, <1>5 DEF TimersOnly
  <2>2. r \in Connections
    BY <1>1, <2>1 DEF Connections
  <2>3. /\ r.state = st /\ SameAcked(x, r) /\ SameRcv(x, r) /\ SameSent(x, r)
        /\ r.active = x.active /\ r.iss = x.iss /\ r.end = x.end
        /\ r.send_fin = x.send_fin /\ r.snd_fin_seq = x.snd_fin_seq
        /\ r.timers = x.timers
    BY <2>1 DEF SameAcked, SameRcv, SameSent, Connections
  <2> QED
    BY <1>3, <1>5, <2>2, <2>3 DEF TimersOnly, SameEnd, SameAcked, SameRcv, SameSent, st, r
<1> QED  BY <1>4, <1>5

\* A synchronized connection at the start of an event, or one whose SYN has just
\* been answered.
MidBase(c, d) ==
  /\ c \in Connections /\ d \in Connections /\ SendOrder(d)
  /\ c.rcv_nxt # 0 /\ Received(d, c) /\ Delivered(d, c) /\ TimersOK(c)
  /\ c.state \in Synchronized \cup Handshake
  /\ c.state \in Opening => ~c.send_fin

\* The acknowledgements of one event are all before the peer's SYN or all after it.
LEMMA MidSaid ==
  ASSUME NEW c, NEW d, MidBase(c, d), NEW b, Mid(c, d, b), NEW s \in b.out
  PROVE  "RST" \notin s.flags => s.ackNo # 0 /\ s.ackNo # d.iss /\ s.ackNo <= b.rcv_nxt
<1> SUFFICES ASSUME "RST" \notin s.flags
             PROVE  s.ackNo # 0 /\ s.ackNo # d.iss /\ s.ackNo <= b.rcv_nxt
  OBVIOUS
<1>1. c \in Connections /\ d \in Connections /\ b \in Connections
  BY DEF MidBase, Mid, SendReady
<1>2. s.ackNo \in Nat /\ c.rcv_nxt <= s.ackNo /\ s.ackNo <= b.rcv_nxt
  BY <1>1 DEF Mid, AllSaid, Says, Segments, Connections
<1>3. c.rcv_nxt # 0 /\ b.irs = c.irs /\ b.rcv_nxt # 0
  BY <1>1, <1>2 DEF MidBase, Mid, Connections
<1>4. CASE c.rcv_nxt > d.iss
  BY <1>1, <1>2, <1>3, <1>4 DEF Connections
<1>5. CASE c.rcv_nxt < d.iss
  <2>1. ~FinTaken(d, c)
    BY <1>1, <1>5 DEF MidBase, SendOrder, FinTaken, Connections
  <2>2. c.irs < d.iss
    BY <1>1, <1>3, <1>5, <2>1 DEF MidBase, Delivered, Connections
  <2>3. b.rcv_nxt < d.iss
    BY <1>1, <1>3, <2>2 DEF Mid, Received, Connections
  <2> QED  BY <1>1, <1>2, <1>3, <2>3 DEF Connections
<1> QED  BY <1>3, <1>4, <1>5 DEF MidBase, Received

\* The state transition closes the event.
LEMMA MidAfter ==
  ASSUME NEW c, NEW d, MidBase(c, d), NEW b, Mid(c, d, b), RexmitOK(b),
         NEW ev, Fits(d, b, ev)
  PROVE  LET r == performStateTransition(b, ev)
         IN  /\ After(c, d, r) /\ r.state \in Synchronized /\ SameEnd(c, b)
             /\ r.active = c.active /\ r.iss = c.iss /\ r.end = c.end
             /\ r.send_fin = c.send_fin
<1> DEFINE r == performStateTransition(b, ev)
           st == Goto(b.state, ev, b.active)
<1>1. c \in Connections /\ d \in Connections /\ b \in Connections
  BY DEF MidBase, Mid, SendReady
<1>2. SameEnd(c, b)
  BY DEF Mid
<1>3. /\ r \in Connections /\ r.state = st
      /\ SameAcked(b, r) /\ SameRcv(b, r) /\ SameSent(b, r)
      /\ r.active = b.active /\ r.iss = b.iss /\ r.end = b.end
      /\ r.send_fin = b.send_fin /\ r.snd_fin_seq = b.snd_fin_seq
      /\ r.timers = IF st = b.state THEN b.timers ELSE b.timers \ Cancelled(st)
  BY <1>1, TransitionOK
<1>4. /\ st \in Synchronized
      /\ "2MSL" \in b.timers <=> st = "TIME_WAIT"
      /\ st \in AfterFin => FinTaken(d, b)
  BY DEF Fits
<1>5. b.state \in Handshake => st # "TIME_WAIT" /\ st # b.state
  <2>1. ASSUME b.state \in Handshake PROVE st # "TIME_WAIT"
    BY <2>1 DEF Goto, OnAbort, Handshake
  <2> HIDE DEF st
  <2> QED  BY <1>4, <2>1 DEF Handshake, Synchronized
<1> HIDE DEF r, st
<1>6. LocalOK(r)
  <2>1. SendOrder(r) /\ r.iss < r.snd_una /\ r.begin = Min2(r.snd_una, r.end)
    BY <1>3 DEF Mid, SendReady, SendOrder, SameAcked, SameSent
  <2>2. r.rcv_nxt # 0
    BY <1>1, <1>3 DEF Mid, AllSaid, MidBase, SameRcv, Connections
  <2>3. r.state \in Synchronized /\ r.state \notin Opening
    BY <1>3, <1>4 DEF Synchronized, Opening
  <2>4. IsFiniteSet(r.rcvQueue)
    BY <1>3 DEF Mid, SameRcv
  <2> QED
    BY <2>1, <2>2, <2>3, <2>4 DEF LocalOK, SendOpening, RcvOpening, AfterHandshake
<1>7. TimersOK(r)
  <2>1. r.state \in Synchronized /\ r.state \notin Handshake
    BY <1>3, <1>4 DEF Synchronized, Handshake
  <2>2. "2MSL" \notin Cancelled(st) /\ "REXMIT" \notin Cancelled(st)
    BY <1>4 DEF Cancelled, Synchronized
  <2>3. "2MSL" \in r.timers <=> r.state = "TIME_WAIT"
    BY <1>3, <1>4, <2>2
  <2>4. "REXMIT" \in r.timers <=> r.snd_una < r.snd_max
    BY <1>3, <2>2 DEF RexmitOK, SameAcked, SameSent
  <2>5. "CONN-ESTAB" \notin r.timers /\ "SYN-REXMIT" \notin r.timers
    <3>1. /\ "CONN-ESTAB" \in b.timers <=> "CONN-ESTAB" \in c.timers
          /\ "SYN-REXMIT" \in b.timers <=> "SYN-REXMIT" \in c.timers
      BY DEF Mid
    <3>2. CASE b.state \notin Handshake
      <4>1. "CONN-ESTAB" \notin b.timers /\ "SYN-REXMIT" \notin b.timers
        BY <1>2, <3>1, <3>2 DEF MidBase, TimersOK, SameEnd
      <4> QED  BY <1>3, <4>1
    <3>3. CASE b.state \in Handshake
      <4>1. Cancelled(st) = {"CONN-ESTAB", "SYN-REXMIT"}
        BY <1>4, <1>5, <3>3 DEF Cancelled, Synchronized
      <4> QED  BY <1>3, <1>5, <3>3, <4>1
    <3> QED  BY <3>2, <3>3
  <2> QED  BY <2>1, <2>3, <2>4, <2>5 DEF TimersOK
<1>8. Received(d, r) /\ Delivered(d, r)
  BY <1>3, ReceivedSame DEF Mid
<1>9. /\ Acked(r, d) /\ ~r.failed
      /\ r.state \in AfterFin => FinTaken(d, r)
  BY <1>3, <1>4 DEF Acked, FinTaken, Mid, SendReady, SameAcked, SameRcv, SameSent
<1>10. Grows(c, r)
  <2>1. r.state \notin Opening
    BY <1>3, <1>4 DEF Synchronized, Opening
  <2>2. c.snd_max <= r.snd_max /\ c.rcv_nxt <= r.rcv_nxt
    BY <1>3 DEF Mid, AllSaid, SameRcv, SameSent
  <2>3. r.irs = c.irs /\ c.state # "CLOSED"
    BY <1>3 DEF Mid, MidBase, SameRcv, Synchronized, Handshake
  <2> QED  BY <1>1, <1>2, <1>3, <2>1, <2>2, <2>3 DEF Grows, SameEnd, MidBase, Connections
<1>11. ASSUME NEW s \in r.out PROVE Truthful(d, r, s)
  <2>1. s \in b.out
    BY <1>3 DEF SameSent
  <2>2. Says(b, c.rcv_nxt, s)
    BY <2>1 DEF Mid, AllSaid
  <2>3. "RST" \notin s.flags => s.ackNo # 0 /\ s.ackNo # d.iss /\ s.ackNo <= b.rcv_nxt
    BY <2>1, MidSaid
  <2>4. r.state \notin Opening
    BY <1>3, <1>4 DEF Synchronized, Opening
  <2> QED
    BY <1>3, <2>2, <2>3, <2>4 DEF Truthful, Says, SameRcv, SameSent
<1>12. After(c, d, r)
  BY <1>3, <1>6, <1>7, <1>8, <1>9, <1>10, <1>11 DEF After
<1> QED  BY <1>2, <1>3, <1>4, <1>12 DEF SameEnd, r

\* An event in which the application gives no command keeps what is known of it.
SameApp(c, r) ==
  /\ r.send_fin = c.send_fin
  /\ r.state \in Opening /\ ~r.active => c.state \in Opening /\ ~c.active
  /\ \/ r.end = c.end /\ r.iss = c.iss
     \/ c.state \in Opening /\ ~c.active /\ r.end = r.iss + 1
  /\ r.state \in Handshake \cup Synchronized \/ r.send_fin =>
       \/ /\ c.state \in Handshake \cup Synchronized \/ c.send_fin
          /\ r.end = c.end /\ r.iss = c.iss
       \/ c.state \in Opening /\ ~c.active /\ r.end = r.iss + 1

\* The connection ends: CLOSED remembers what was sent and received.
LEMMA ClosedAfter ==
  ASSUME NEW c, NEW d, AtRest(c, d), NEW b \in Connections, ~b.failed, SendOrder(b),
         IsFiniteSet(b.rcvQueue), SameEnd(c, b), Received(d, b), Delivered(d, b), Acked(b, d),
         c.snd_max <= b.snd_max, c.rcv_nxt <= b.rcv_nxt, b.irs = c.irs,
         NEW ev, b.state # "CLOSED", Goto(b.state, ev, b.active) = "CLOSED",
         \A s \in b.out : "RST" \notin s.flags =>
           Says(b, c.rcv_nxt, s) /\ s.ackNo # 0 /\ s.ackNo # d.iss
  PROVE  LET r == performStateTransition(b, ev)
         IN  After(c, d, r) /\ SameApp(c, r)
<1> DEFINE r == performStateTransition(b, ev)
<1>1. c \in Connections /\ SendOpening(c)
  BY DEF AtRest, LocalOK
<1>2. /\ r \in Connections /\ r.state = "CLOSED"
      /\ SameAcked(b, r) /\ SameRcv(b, r) /\ SameSent(b, r)
      /\ r.active = b.active /\ r.iss = b.iss /\ r.end = b.end
      /\ r.send_fin = b.send_fin /\ r.snd_fin_seq = b.snd_fin_seq
      /\ r.timers = b.timers \ Cancelled("CLOSED")
  BY TransitionOK
<1> HIDE DEF r
<1>3. r.timers = {}
  BY <1>2 DEF Cancelled, Connections
<1>4. LocalOK(r) /\ TimersOK(r) /\ ~r.failed
  BY <1>2, <1>3
     DEF LocalOK, SendOrder, SendOpening, RcvOpening, AfterHandshake, TimersOK,
         Opening, Handshake, Synchronized, SameAcked, SameRcv, SameSent
<1>5. Received(d, r) /\ Delivered(d, r)
  BY <1>2, ReceivedSame
<1>6. Acked(r, d) /\ r.state \notin AfterFin
  BY <1>2 DEF Acked, AfterFin, SameAcked
<1>7. Grows(c, r)
  <2>1. c.snd_max <= r.snd_max /\ c.rcv_nxt <= r.rcv_nxt /\ r.state \notin Opening
    BY <1>2 DEF SameSent, SameRcv, Opening
  <2>2. r.irs = c.irs /\ c.state # "CLOSED"
    BY <1>2 DEF SameRcv, SameEnd
  <2> QED  BY <1>1, <1>2, <2>1, <2>2 DEF Grows, SameEnd, SendOpening, Connections
<1>8. ASSUME NEW s \in r.out PROVE Truthful(d, r, s)
  BY <1>2, <1>8 DEF Truthful, Says, SameSent, SameRcv, Opening
<1>9. SameApp(c, r)
  BY <1>2 DEF SameApp, SameEnd, Opening, Handshake, Synchronized
<1> QED  BY <1>2, <1>4, <1>5, <1>6, <1>7, <1>8, <1>9 DEF After, r

\* The connection is unchanged but for the segments it sends.
OutOnly(c, b) ==
  /\ b \in Connections /\ SameEnd(c, b) /\ SameAcked(c, b) /\ SameRcv(c, b)
  /\ b.snd_nxt = c.snd_nxt /\ b.snd_max = c.snd_max /\ b.timers = c.timers
  /\ b.failed = c.failed

LEMMA QuietAfter ==
  ASSUME NEW c, NEW d, AtRest(c, d), NEW b, OutOnly(c, b),
         \A s \in b.out : Truthful(d, c, s)
  PROVE  After(c, d, b) /\ SameApp(c, b)
<1>1. c \in Connections /\ SendOpening(c) /\ ~c.failed
  BY DEF AtRest, LocalOK
<1>2. LocalOK(b) /\ TimersOK(b) /\ ~b.failed
  BY DEF AtRest, OutOnly, LocalOK, SendOrder, SendOpening, RcvOpening, AfterHandshake,
         TimersOK, SameEnd, SameAcked, SameRcv
<1>3. Received(d, b) /\ Delivered(d, b)
  BY ReceivedSame DEF AtRest, OutOnly
<1>4. Acked(b, d) /\ (b.state \in AfterFin => FinTaken(d, b))
  BY DEF AtRest, OutOnly, Acked, FinTaken, SameEnd, SameAcked, SameRcv
<1>5. Grows(c, b)
  BY <1>1 DEF Grows, OutOnly, SameEnd, SameRcv, SendOpening, Connections
<1>6. ASSUME NEW s \in b.out PROVE Truthful(d, b, s)
  BY <1>6 DEF Truthful, OutOnly, SameEnd, SameRcv
<1>7. SameApp(c, b)
  <2>1. c.send_fin => c.state \notin Opening
    BY <1>1 DEF SendOpening
  <2> QED  BY <2>1 DEF SameApp, OutOnly, SameEnd
<1> QED  BY <1>2, <1>3, <1>4, <1>5, <1>6, <1>7 DEF After, OutOnly

LEMMA OutOnlySelf ==
  ASSUME NEW c, NEW d, AtRest(c, d)
  PROVE  OutOnly(c, c) /\ c.out = {}
BY DEF AtRest, OutOnly, SameEnd, SameAcked, SameRcv

\* Events that the state machine ignores.
LEMMA IgnoreOK ==
  ASSUME NEW c, NEW ev \in {"IGNORE", "SEND"}
  PROVE  performStateTransition(c, ev) = c
<1>1. Goto(c.state, ev, c.active) = c.state
  BY DEF Goto, OnAbort
<1> QED  BY <1>1 DEF performStateTransition

LEMMA SendRstOK ==
  ASSUME NEW c, NEW d, AtRest(c, d), NEW s \in Segments, "RST" \in s.flags
  PROVE  /\ OutOnly(c, sendToIP(c, s)) /\ sendToIP(c, s).out = {s}
         /\ After(c, d, sendToIP(c, s)) /\ SameApp(c, sendToIP(c, s))
<1> DEFINE b == sendToIP(c, s)
<1>1. c \in Connections /\ c.out = {}
  BY DEF AtRest
<1>2. b = [c EXCEPT !.out = {s}]
  BY <1>1 DEF sendToIP
<1> HIDE DEF b
<1>3. b \in Connections
  BY <1>1, <1>2 DEF Connections
<1>4. OutOnly(c, b) /\ b.out = {s}
  BY <1>1, <1>2, <1>3 DEF OutOnly, SameEnd, SameAcked, SameRcv, Connections
<1>5. \A x \in b.out : Truthful(d, c, x)
  BY <1>4 DEF Truthful
<1> QED  BY <1>4, <1>5, QuietAfter DEF b

\* The handshake fails: a passive end listens again, an active one is closed.
LEMMA HandshakeEnds ==
  ASSUME NEW c, NEW d, AtRest(c, d), c.state \in Handshake,
         NEW b \in Connections, SameEnd(c, b), SameRcv(c, b), ~b.failed, b.out = {},
         b.snd_una = c.snd_una, b.snd_nxt = c.snd_nxt, b.snd_max = c.snd_max,
         b.fin_ack_rcvd = c.fin_ack_rcvd, b.begin <= b.end, b.timers \subseteq c.timers,
         NEW ev \in {"TIMEOUT_CONN_ESTAB", "RCV_RST"}
  PROVE  LET r == performStateTransition(b, ev)
         IN  After(c, d, r) /\ SameApp(c, r)
<1> DEFINE r == performStateTransition(b, ev)
<1>1. /\ c \in Connections /\ SendOrder(c) /\ SendOpening(c) /\ RcvOpening(c)
      /\ TimersOK(c) /\ IsFiniteSet(c.rcvQueue)
      /\ Received(d, c) /\ Delivered(d, c) /\ Acked(c, d)
  BY DEF AtRest, LocalOK
<1>2. SendOrder(b) /\ Acked(b, d) /\ IsFiniteSet(b.rcvQueue)
  BY <1>1 DEF SendOrder, Acked, SameEnd, SameRcv
<1>3. Received(d, b) /\ Delivered(d, b)
  BY <1>1, ReceivedSame
<1>4. b.state = c.state /\ c.snd_max <= b.snd_max /\ c.rcv_nxt <= b.rcv_nxt /\ b.irs = c.irs
  BY <1>1 DEF SameEnd, SameRcv, Connections
<1>5. CASE Goto(b.state, ev, b.active) = "CLOSED"
  BY <1>2, <1>3, <1>4, <1>5, ClosedAfter DEF Handshake
<1>6. CASE Goto(b.state, ev, b.active) # "CLOSED"
  <2>1. b.state = "SYN_RCVD" /\ ~b.active /\ Goto(b.state, ev, b.active) = "LISTEN"
    BY <1>4, <1>6 DEF Goto, OnAbort, Handshake
  <2>2. /\ r \in Connections /\ r.state = "LISTEN"
        /\ SameAcked(b, r) /\ SameRcv(b, r) /\ SameSent(b, r)
        /\ r.active = b.active /\ r.iss = b.iss /\ r.end = b.end
        /\ r.send_fin = b.send_fin /\ r.snd_fin_seq = b.snd_fin_seq
        /\ r.timers = b.timers \ Cancelled("LISTEN")
    BY <2>1, TransitionOK
  <2> HIDE DEF r
  <2>3. Cancelled("LISTEN") = {"CONN-ESTAB", "SYN-REXMIT"}
    BY DEF Cancelled
  <2>4. LocalOK(r)
    <3>1. SendOrder(r) /\ IsFiniteSet(r.rcvQueue)
      BY <1>2, <2>2 DEF SendOrder, SameAcked, SameRcv, SameSent
    <3>2. SendOpening(r)
      BY <1>1, <2>2 DEF SendOpening, Opening, Handshake, SameEnd, SameAcked, SameSent
    <3>3. RcvOpening(r) /\ AfterHandshake(r)
      BY <1>1, <1>4, <2>1, <2>2
         DEF RcvOpening, AfterHandshake, Opening, Synchronized, SameRcv
    <3> QED  BY <3>1, <3>2, <3>3 DEF LocalOK
  <2>5. TimersOK(r)
    BY <1>1, <2>2, <2>3 DEF TimersOK, Handshake, Synchronized
  <2>6. Received(d, r) /\ Delivered(d, r)
    BY <1>3, <2>2, ReceivedSame
  <2>7. Acked(r, d) /\ r.state \notin AfterFin /\ ~r.failed /\ r.out = {}
    BY <1>2, <2>2 DEF Acked, AfterFin, SameAcked, SameSent
  <2>8. Grows(c, r)
    BY <1>1, <1>4, <2>1, <2>2
       DEF Grows, SameEnd, SameRcv, SameSent, Opening, SendOpening, Connections
  <2>9. SameApp(c, r)
    BY <1>1, <1>4, <2>1, <2>2
       DEF SameApp, SameEnd, Opening, Handshake, Synchronized, SendOpening
  <2> QED  BY <2>2, <2>4, <2>5, <2>6, <2>7, <2>8, <2>9 DEF After, r
<1> QED  BY <1>5, <1>6

\* A connection that is not waiting for anything more ends as it is.
LEMMA EndsAsItIs ==
  ASSUME NEW c, NEW d, AtRest(c, d), NEW b, OutOnly(c, b),
         \A s \in b.out : "RST" \in s.flags,
         NEW ev, b.state # "CLOSED", Goto(b.state, ev, b.active) = "CLOSED"
  PROVE  LET r == performStateTransition(b, ev)
         IN  After(c, d, r) /\ SameApp(c, r)
<1>1. /\ c \in Connections /\ SendOrder(c) /\ IsFiniteSet(c.rcvQueue) /\ ~c.failed
      /\ Received(d, c) /\ Delivered(d, c) /\ Acked(c, d)
  BY DEF AtRest, LocalOK
<1>2. /\ b \in Connections /\ ~b.failed /\ SendOrder(b) /\ Acked(b, d)
      /\ IsFiniteSet(b.rcvQueue) /\ SameEnd(c, b)
      /\ c.snd_max <= b.snd_max /\ c.rcv_nxt <= b.rcv_nxt /\ b.irs = c.irs
  BY <1>1 DEF OutOnly, SendOrder, Acked, SameEnd, SameAcked, SameRcv, Connections
<1>3. Received(d, b) /\ Delivered(d, b)
  BY <1>1, ReceivedSame DEF OutOnly
<1> QED  BY <1>2, <1>3, ClosedAfter

LEMMA WhileClosedOK ==
  ASSUME NEW c, NEW d, AtRest(c, d), NEW s \in Segments
  PROVE  LET b == segmentArrivalWhileClosed(c, s)
         IN  After(c, d, b) /\ SameApp(c, b)
<1> DEFINE n == s.len + Cardinality(s.flags \cap {"SYN", "FIN"})
           b == segmentArrivalWhileClosed(c, s)
<1>1. n \in Nat
  <2>1. s.len \in Nat /\ s.flags \cap {"SYN", "FIN"} \in SUBSET {"SYN", "FIN"}
    BY DEF Segments
  <2>2. IsFiniteSet({"SYN", "FIN"})
    <3>1. IsFiniteSet({"SYN"})
      BY FS_Singleton
    <3>2. IsFiniteSet({"SYN"} \cup {"FIN"})
      BY <3>1, FS_AddElement
    <3>3. {"SYN"} \cup {"FIN"} = {"SYN", "FIN"}
      OBVIOUS
    <3> QED  BY <3>2, <3>3
  <2>3. IsFiniteSet(s.flags \cap {"SYN", "FIN"})
    BY <2>1, <2>2, FS_Subset
  <2>4. Cardinality(s.flags \cap {"SYN", "FIN"}) \in Nat
    BY <2>3, FS_CardinalityType
  <2> QED  BY <2>1, <2>4
<1>2. b = CASE "RST" \in s.flags -> c
            [] "RST" \notin s.flags /\ "ACK" \notin s.flags ->
                 sendToIP(c, Segment({"RST", "ACK"}, 0, s.seq + n, 0))
            [] OTHER -> sendToIP(c, Segment({"RST"}, s.ackNo, 0, 0))
  BY DEF segmentArrivalWhileClosed, sendRst
<1> HIDE DEF b, n
<1>3. CASE "RST" \in s.flags
  <2>1. b = c
    BY <1>2, <1>3
  <2> QED  BY <2>1, OutOnlySelf, QuietAfter DEF b
<1>4. CASE "RST" \notin s.flags /\ "ACK" \notin s.flags
  <2>1. b = sendToIP(c, Segment({"RST", "ACK"}, 0, s.seq + n, 0))
    BY <1>2, <1>4
  <2>2. /\ Segment({"RST", "ACK"}, 0, s.seq + n, 0) \in Segments
        /\ "RST" \in Segment({"RST", "ACK"}, 0, s.seq + n, 0).flags
    BY <1>1 DEF Segment, Segments
  <2> QED  BY <2>1, <2>2, SendRstOK DEF b
<1>5. CASE "RST" \notin s.flags /\ "ACK" \in s.flags
  <2>1. b = sendToIP(c, Segment({"RST"}, s.ackNo, 0, 0))
    BY <1>2, <1>5
  <2>2. /\ Segment({"RST"}, s.ackNo, 0, 0) \in Segments
        /\ "RST" \in Segment({"RST"}, s.ackNo, 0, 0).flags
    BY DEF Segment, Segments
  <2> QED  BY <2>1, <2>2, SendRstOK DEF b
<1> QED  BY <1>3, <1>4, <1>5

\* A SYN fixes what is known of the peer: its sequence numbers start over.
LEMMA SynchronizeOK ==
  ASSUME NEW c, NEW d, AtRest(c, d), AtRest(d, c), c.state \in {"LISTEN", "SYN_SENT"},
         NEW s \in Segments, Truthful(c, d, s), "RST" \notin s.flags, "SYN" \in s.flags,
         c.state = "LISTEN" => "ACK" \notin s.flags
  PROVE  LET r == Synchronize(c, s)
         IN  /\ r \in Connections /\ SameEnd(c, r) /\ SameAcked(c, r) /\ SameSent(c, r)
             /\ r.timers = c.timers /\ r.irs = s.seq /\ r.rcv_nxt = s.seq + 1
             /\ r.rcvQueue = {} /\ r.delivered = 0 /\ ~r.fin_rcvd
             /\ Received(d, r) /\ Delivered(d, r)
             /\ c.rcv_nxt <= r.rcv_nxt /\ r.rcv_nxt # 0 /\ r.rcv_nxt # d.iss
             /\ r.rcv_fin_seq = c.rcv_fin_seq
<1> DEFINE r == Synchronize(c, s)
<1>1. /\ c \in Connections /\ d \in Connections /\ SendOrder(d) /\ RcvOpening(c)
      /\ Received(d, c)
  BY DEF AtRest, LocalOK
<1>2. s.seq \in Nat /\ s.seq + 1 \in Nat
  BY DEF Segments
<1>3. r = [c EXCEPT !.irs = s.seq, !.rcv_nxt = s.seq + 1, !.rcvQueue = {}]
  BY DEF Synchronize
<1> HIDE DEF r
<1>4. r \in Connections
  BY <1>1, <1>2, <1>3 DEF Connections
<1>5. /\ SameEnd(c, r) /\ SameAcked(c, r) /\ SameSent(c, r)
      /\ r.timers = c.timers /\ r.irs = s.seq /\ r.rcv_nxt = s.seq + 1
      /\ r.rcvQueue = {} /\ r.delivered = c.delivered /\ r.fin_rcvd = c.fin_rcvd
      /\ r.rcv_fin_seq = c.rcv_fin_seq
  BY <1>1, <1>3 DEF SameEnd, SameAcked, SameSent, Connections
<1>6. r.delivered = 0 /\ ~r.fin_rcvd
  BY <1>1, <1>5 DEF RcvOpening, Opening
<1>7. /\ s.seq < d.snd_max /\ (s.seq = d.iss \/ s.seq + 1 < d.iss)
      /\ c.state = "LISTEN" => s.seq = d.iss
  BY DEF Truthful
<1>8. Received(d, r)
  BY <1>1, <1>2, <1>5, <1>6, <1>7 DEF Received, Connections
<1>9. ~FinTaken(d, r)
  BY <1>1, <1>2, <1>5, <1>7 DEF FinTaken, SendOrder, Connections
<1>10. Delivered(d, r)
  BY <1>2, <1>5, <1>6, <1>9 DEF Delivered
<1>11. c.rcv_nxt <= r.rcv_nxt
  BY <1>1, <1>2, <1>5, <1>7 DEF Received, RcvOpening, Opening, Connections
<1>12. r.rcv_nxt # 0 /\ r.rcv_nxt # d.iss
  BY <1>1, <1>2, <1>5, <1>7 DEF Connections
<1> QED  BY <1>4, <1>5, <1>6, <1>8, <1>10, <1>11, <1>12 DEF r

\* SYN-REXMIT and CONN-ESTAB are started.
LEMMA SynTimersOK ==
  ASSUME NEW c \in Connections
  PROVE  LET r == startSynRexmitTimer(c)
             t == schedule(r, "CONN-ESTAB")
         IN  /\ r \in Connections /\ t \in Connections
             /\ SameAcked(c, r) /\ SameRcv(c, r) /\ SameSent(c, r)
             /\ r.state = c.state /\ r.active = c.active /\ r.iss = c.iss
             /\ r.end = c.end /\ r.send_fin = c.send_fin /\ r.snd_fin_seq = c.snd_fin_seq
             /\ r.timers = c.timers \cup {"SYN-REXMIT"}
             /\ TimersOnly(r, t) /\ t.timers = r.timers \cup {"CONN-ESTAB"}
<1> DEFINE x == schedule(c, "SYN-REXMIT")
           r == startSynRexmitTimer(c)
           t == schedule(r, "CONN-ESTAB")
<1>1. TimersOnly(c, x) /\ x.timers = c.timers \cup {"SYN-REXMIT"}
  BY ScheduleOK DEF Timers
<1>2. r = [x EXCEPT !.syn_rexmit_count = 0]
  BY DEF startSynRexmitTimer
<1> HIDE DEF x, r
<1>3. x \in Connections
  BY <1>1 DEF TimersOnly
<1>4. r \in Connections
  BY <1>2, <1>3 DEF Connections
<1>5. /\ SameAcked(x, r) /\ SameRcv(x, r) /\ SameSent(x, r)
      /\ r.state = x.state /\ r.active = x.active /\ r.iss = x.iss
      /\ r.end = x.end /\ r.send_fin = x.send_fin /\ r.snd_fin_seq = x.snd_fin_seq
      /\ r.timers = x.timers
  BY <1>2, <1>3 DEF SameAcked, SameRcv, SameSent, Connections
<1>6. TimersOnly(r, t) /\ t.timers = r.timers \cup {"CONN-ESTAB"}
  BY <1>4, ScheduleOK DEF Timers
<1>7. t \in Connections
  BY <1>6 DEF TimersOnly
<1>8. /\ SameAcked(c, r) /\ SameRcv(c, r) /\ SameSent(c, r)
      /\ r.state = c.state /\ r.active = c.active /\ r.iss = c.iss
      /\ r.end = c.end /\ r.send_fin = c.send_fin /\ r.snd_fin_seq = c.snd_fin_seq
      /\ r.timers = c.timers \cup {"SYN-REXMIT"}
  BY <1>1, <1>5 DEF TimersOnly, SameEnd, SameAcked, SameRcv, SameSent
<1> QED  BY <1>4, <1>6, <1>7, <1>8 DEF r, x

\* The connection starts over at a new initial sequence number.
LEMMA SelectOK ==
  ASSUME NEW c \in Connections
  PROVE  LET r == selectInitialSeqNum(c)
         IN  /\ r \in Connections /\ SameRcv(c, r)
             /\ r.iss = c.iss + IssStep /\ r.snd_una = r.iss /\ r.snd_nxt = r.iss
             /\ r.snd_max = r.iss /\ r.begin = r.iss + 1 /\ r.end = r.iss + 1
             /\ r.fin_ack_rcvd = c.fin_ack_rcvd /\ r.state = c.state
             /\ r.active = c.active /\ r.send_fin = c.send_fin
             /\ r.timers = c.timers /\ r.failed = c.failed /\ r.out = c.out
<1> DEFINE n == c.iss + IssStep
           r == selectInitialSeqNum(c)
<1>1. n \in Nat /\ n + 1 \in Nat
  BY TCPAssumption DEF Connections
<1>2. r = [c EXCEPT !.iss = n, !.snd_una = n, !.snd_nxt = n, !.snd_max = n,
                    !.begin = n + 1, !.end = n + 1]
  BY DEF selectInitialSeqNum
<1> HIDE DEF r, n
<1>3. r \in Connections
  BY <1>1, <1>2 DEF Connections
<1>4. /\ SameRcv(c, r) /\ r.iss = n /\ r.snd_una = n /\ r.snd_nxt = n
      /\ r.snd_max = n /\ r.begin = n + 1 /\ r.end = n + 1
      /\ r.fin_ack_rcvd = c.fin_ack_rcvd /\ r.state = c.state
      /\ r.active = c.active /\ r.send_fin = c.send_fin
      /\ r.timers = c.timers /\ r.failed = c.failed /\ r.out = c.out
  BY <1>2 DEF SameRcv, Connections
<1> QED  BY <1>3, <1>4 DEF r, n

\* The effect of sending a SYN of either kind.
SynOut(c, r, s) ==
  /\ r \in Connections /\ SameEnd(c, r) /\ SameAcked(c, r) /\ SameRcv(c, r)
  /\ r.snd_nxt = c.iss + 1 /\ r.snd_max = c.iss + 1
  /\ r.timers = c.timers /\ r.failed = c.failed /\ r.out = c.out \cup {s}

LEMMA SendSynOK ==
  ASSUME NEW c \in Connections
  PROVE  SynOut(c, sendSyn(c), Segment({"SYN"}, c.iss, 0, 0))
<1> DEFINE s == Segment({"SYN"}, c.iss, 0, 0)
           r == sendSyn(c)
<1>1. s \in Segments /\ c.iss + 1 \in Nat
  BY DEF Segment, Segments, Connections
<1>2. r = [c EXCEPT !.out = @ \cup {s}, !.snd_nxt = c.iss + 1, !.snd_max = c.iss + 1]
  BY DEF sendSyn, sendToIP
<1> HIDE DEF r, s
<1>3. r \in Connections
  BY <1>1, <1>2 DEF Connections
<1>4. SynOut(c, r, s)
  BY <1>2, <1>3 DEF SynOut, SameEnd, SameAcked, SameRcv, Connections
<1> QED  BY <1>4 DEF r, s

LEMMA SendSynAckOK ==
  ASSUME NEW c \in Connections
  PROVE  SynOut(c, sendSynAck(c), Segment({"SYN", "ACK"}, c.iss, c.rcv_nxt, 0))
<1> DEFINE s == Segment({"SYN", "ACK"}, c.iss, c.rcv_nxt, 0)
           r == sendSynAck(c)
<1>1. s \in Segments /\ c.iss + 1 \in Nat
  BY DEF Segment, Segments, Connections
<1>2. r = [c EXCEPT !.out = @ \cup {s}, !.snd_nxt = c.iss + 1, !.snd_max = c.iss + 1]
  BY DEF sendSynAck, sendToIP
<1> HIDE DEF r, s
<1>3. r \in Connections
  BY <1>1, <1>2 DEF Connections
<1>4. SynOut(c, r, s)
  BY <1>2, <1>3 DEF SynOut, SameEnd, SameAcked, SameRcv, Connections
<1> QED  BY <1>4 DEF r, s

\* r has sent its SYN, alone or in answer to the peer's.
InHandshake(c, d, r) ==
  /\ r \in Connections /\ ~r.failed /\ r.state \in Handshake
  /\ r.snd_una = r.iss /\ r.snd_nxt = r.iss + 1 /\ r.snd_max = r.iss + 1
  /\ r.begin = r.iss + 1 /\ r.begin <= r.end /\ ~r.send_fin /\ ~r.fin_ack_rcvd
  /\ r.rcvQueue = {} /\ r.delivered = 0 /\ ~r.fin_rcvd
  /\ r.state = "SYN_SENT" => r.rcv_nxt = 0 /\ r.active
  /\ r.state = "SYN_RCVD" => r.rcv_nxt # 0 /\ r.rcv_nxt = r.irs + 1
  /\ Received(d, r) /\ Delivered(d, r)
  /\ "CONN-ESTAB" \in r.timers /\ "REXMIT" \notin r.timers /\ "2MSL" \notin r.timers
  /\ c.snd_max <= r.snd_max /\ c.rcv_nxt <= r.rcv_nxt /\ (c.active => r.active)
  /\ \/ c.state \in Handshake /\ r.end = c.end /\ r.iss = c.iss
     \/ /\ c.state \in {"INIT", "LISTEN"} /\ c.snd_max < r.iss
        /\ r.end = r.iss + 1
  /\ r.out \subseteq
       IF r.state = "SYN_SENT" THEN {Segment({"SYN"}, r.iss, 0, 0)}
       ELSE {Segment({"SYN", "ACK"}, r.iss, r.rcv_nxt, 0)}

LEMMA HandshakeAfter ==
  ASSUME NEW c, NEW d, AtRest(c, d), NEW r, InHandshake(c, d, r)
  PROVE  After(c, d, r) /\ SameApp(c, r)
<1>1. /\ c \in Connections /\ d \in Connections /\ SendOpening(c) /\ RcvOpening(c)
      /\ r \in Connections
  BY DEF AtRest, LocalOK, InHandshake
<1>2. /\ r.state \in Opening /\ r.state \notin Synchronized /\ r.state \notin AfterFin
      /\ c.state \in Opening /\ ~c.send_fin
      /\ c.state \in {"INIT", "LISTEN"} => ~c.active
  BY <1>1 DEF InHandshake, Handshake, Opening, Synchronized, AfterFin, SendOpening, RcvOpening
<1>3. SendOrder(r)
  BY <1>1 DEF InHandshake, SendOrder, Connections
<1>4. SendOpening(r) /\ RcvOpening(r) /\ AfterHandshake(r)
  BY <1>1, <1>2 DEF InHandshake, SendOpening, RcvOpening, AfterHandshake, Handshake, Connections
<1>5. IsFiniteSet(r.rcvQueue)
  BY FS_EmptySet DEF InHandshake
<1>6. TimersOK(r)
  BY <1>2 DEF InHandshake, TimersOK, Handshake
<1>7. Acked(r, d)
  BY <1>1 DEF InHandshake, Acked, Connections
<1>8. Grows(c, r)
  BY <1>1, <1>2 DEF InHandshake, Grows, Opening, Connections
<1>9. ASSUME NEW s \in r.out PROVE Truthful(d, r, s)
  <2>1. CASE r.state = "SYN_SENT"
    <3>1. s = Segment({"SYN"}, r.iss, 0, 0) /\ r.active
      BY <1>9, <2>1 DEF InHandshake
    <3> QED  BY <1>1, <3>1 DEF InHandshake, Truthful, Segment, Connections
  <2>2. CASE r.state = "SYN_RCVD"
    <3>1. s = Segment({"SYN", "ACK"}, r.iss, r.rcv_nxt, 0) /\ r.rcv_nxt # 0
      BY <1>9, <2>2 DEF InHandshake
    <3>2. r.rcv_nxt # d.iss
      BY <1>1, <3>1 DEF InHandshake, Received, Connections
    <3> QED  BY <1>1, <3>1, <3>2 DEF InHandshake, Truthful, Segment, Connections
  <2> QED  BY <2>1, <2>2 DEF InHandshake, Handshake
<1>10. SameApp(c, r)
  <2>1. /\ ~r.send_fin /\ (c.active => r.active)
        /\ \/ c.state \in Handshake /\ r.end = c.end /\ r.iss = c.iss
           \/ c.state \in {"INIT", "LISTEN"} /\ r.end = r.iss + 1
    BY DEF InHandshake
  <2> QED  BY <1>1, <1>2, <2>1 DEF SameApp, Connections
<1> QED
  BY <1>1, <1>2, <1>3, <1>4, <1>5, <1>6, <1>7, <1>8, <1>9, <1>10
     DEF After, LocalOK, InHandshake

\* A new initial sequence number is above all that has been used.
LEMMA LargeStep ==
  ASSUME Plans # {}
  PROVE  IssStep \in Nat /\ IssStep > 4
<1>1. PICK p \in Plans : TRUE
  OBVIOUS
<1>2. Cardinality(Ends) = 2 /\ Plans \subseteq [Ends -> Plan]
  BY TCPAssumption
<1>3. PICK e \in Ends : TRUE
  BY <1>2, FS_EmptySet
<1>4. p[e].sends \in Nat
  BY <1>2 DEF Plan
<1> QED  BY <1>4, TCPAssumption

LEMMA InListenOK ==
  ASSUME Plans # {},
         NEW c, NEW d, AtRest(c, d), AtRest(d, c), c.state = "LISTEN",
         NEW s \in Segments, Truthful(c, d, s)
  PROVE  LET p == processSegmentInListen(c, s)
             r == performStateTransition(p.c, p.ev)
         IN  After(c, d, r) /\ SameApp(c, r)
<1> DEFINE y == Synchronize(c, s)
           n == selectInitialSeqNum(y)
           k == sendSynAck(n)
           u == startSynRexmitTimer(k)
           t == schedule(u, "CONN-ESTAB")
           rst == sendToIP(c, Segment({"RST"}, s.ackNo, 0, 0))
           p == processSegmentInListen(c, s)
           r == performStateTransition(p.c, p.ev)
<1>1. p = CASE "RST" \in s.flags -> Outcome(c, "IGNORE")
            [] "RST" \notin s.flags /\ "ACK" \in s.flags -> Outcome(rst, "IGNORE")
            [] s.flags \cap {"RST", "ACK", "SYN"} = {"SYN"} -> Outcome(t, "RCV_SYN")
            [] OTHER -> Outcome(c, "IGNORE")
  BY DEF processSegmentInListen, sendRst
<1>2. After(c, d, c) /\ SameApp(c, c)
  BY OutOnlySelf, QuietAfter
<1>3. After(c, d, rst) /\ SameApp(c, rst)
  <2>1. /\ Segment({"RST"}, s.ackNo, 0, 0) \in Segments
        /\ "RST" \in Segment({"RST"}, s.ackNo, 0, 0).flags
    BY DEF Segment, Segments
  <2> QED  BY <2>1, SendRstOK
<1> HIDE DEF p, rst
<1>4. CASE p = Outcome(c, "IGNORE")
  <2>1. r = c
    BY <1>4, IgnoreOK DEF Outcome
  <2> QED  BY <1>2, <2>1 DEF p
<1>5. CASE p = Outcome(rst, "IGNORE")
  <2>1. r = rst
    BY <1>5, IgnoreOK DEF Outcome
  <2> QED  BY <1>3, <2>1 DEF p
<1>6. CASE "RST" \notin s.flags /\ "ACK" \notin s.flags /\ "SYN" \in s.flags
  <2>1. p = Outcome(t, "RCV_SYN")
    <3>1. s.flags \cap {"RST", "ACK", "SYN"} = {"SYN"}
      BY <1>6
    <3> HIDE DEF t
    <3> QED  BY <1>1, <1>6, <3>1
  <2>2. /\ c \in Connections /\ d \in Connections
        /\ SendOrder(c) /\ SendOpening(c) /\ RcvOpening(c) /\ TimersOK(c) /\ ~c.failed
        /\ c.out = {}
    BY DEF AtRest, LocalOK
  <2>3. /\ ~c.send_fin /\ c.snd_max <= c.iss + 1 /\ ~c.fin_ack_rcvd
        /\ "2MSL" \notin c.timers /\ "REXMIT" \notin c.timers
    BY <2>2 DEF SendOrder, SendOpening, TimersOK, Opening, Synchronized
  <2>4. /\ y \in Connections /\ SameEnd(c, y) /\ SameAcked(c, y) /\ SameSent(c, y)
        /\ y.timers = c.timers /\ y.irs = s.seq /\ y.rcv_nxt = s.seq + 1
        /\ y.rcvQueue = {} /\ y.delivered = 0 /\ ~y.fin_rcvd
        /\ Received(d, y) /\ Delivered(d, y)
        /\ c.rcv_nxt <= y.rcv_nxt /\ y.rcv_nxt # 0
    BY <1>6, SynchronizeOK
  <2> HIDE DEF y
  <2>5. /\ n \in Connections /\ SameRcv(y, n)
        /\ n.iss = y.iss + IssStep /\ n.snd_una = n.iss /\ n.snd_nxt = n.iss
        /\ n.snd_max = n.iss /\ n.begin = n.iss + 1 /\ n.end = n.iss + 1
        /\ n.fin_ack_rcvd = y.fin_ack_rcvd /\ n.state = y.state
        /\ n.active = y.active /\ n.send_fin = y.send_fin
        /\ n.timers = y.timers /\ n.failed = y.failed /\ n.out = y.out
    BY <2>4, SelectOK
  <2> HIDE DEF n
  <2>6. /\ k \in Connections /\ SameEnd(n, k) /\ SameAcked(n, k) /\ SameRcv(n, k)
        /\ k.snd_nxt = n.iss + 1 /\ k.snd_max = n.iss + 1
        /\ k.timers = n.timers /\ k.failed = n.failed
        /\ k.out = n.out \cup {Segment({"SYN", "ACK"}, n.iss, n.rcv_nxt, 0)}
    BY <2>5, SendSynAckOK DEF SynOut
  <2> HIDE DEF k
  <2>7. /\ u \in Connections /\ t \in Connections
        /\ SameAcked(k, u) /\ SameRcv(k, u) /\ SameSent(k, u)
        /\ u.state = k.state /\ u.active = k.active /\ u.iss = k.iss
        /\ u.end = k.end /\ u.send_fin = k.send_fin
        /\ u.timers = k.timers \cup {"SYN-REXMIT"}
        /\ TimersOnly(u, t) /\ t.timers = u.timers \cup {"CONN-ESTAB"}
    BY <2>6, SynTimersOK
  <2> HIDE DEF u, t
  <2>8. /\ t.state = "LISTEN" /\ t.active = c.active /\ ~t.send_fin /\ ~t.fin_ack_rcvd
        /\ t.iss = c.iss + IssStep /\ t.snd_una = t.iss
        /\ t.snd_nxt = t.iss + 1 /\ t.snd_max = t.iss + 1
        /\ t.begin = t.iss + 1 /\ t.end = t.iss + 1 /\ ~t.failed
        /\ SameRcv(y, t)
        /\ t.out = {Segment({"SYN", "ACK"}, t.iss, t.rcv_nxt, 0)}
        /\ t.timers = c.timers \cup {"SYN-REXMIT", "CONN-ESTAB"}
    <3>1. SameRcv(y, t)
      BY <2>5, <2>6, <2>7 DEF SameRcv, TimersOnly
    <3>2. /\ t.state = "LISTEN" /\ t.active = c.active /\ ~t.send_fin /\ ~t.fin_ack_rcvd
          /\ t.iss = c.iss + IssStep /\ t.snd_una = t.iss /\ t.iss = n.iss
          /\ t.snd_nxt = t.iss + 1 /\ t.snd_max = t.iss + 1
          /\ t.begin = t.iss + 1 /\ t.end = t.iss + 1 /\ ~t.failed
      BY <2>2, <2>3, <2>4, <2>5, <2>6, <2>7 DEF SameEnd, SameAcked, SameSent, TimersOnly
    <3>3. n.out = {} /\ t.out = k.out
      BY <2>2, <2>4, <2>5, <2>7 DEF SameSent, TimersOnly
    <3>4. t.timers = c.timers \cup {"SYN-REXMIT", "CONN-ESTAB"}
      BY <2>4, <2>5, <2>6, <2>7
    <3>5. n.rcv_nxt = t.rcv_nxt
      BY <2>6, <2>7 DEF SameRcv, TimersOnly
    <3> QED  BY <2>6, <3>1, <3>2, <3>3, <3>4, <3>5
  <2>9. Goto(t.state, "RCV_SYN", t.active) = "SYN_RCVD"
    BY <2>8 DEF Goto, OnAbort
  <2>10. /\ r \in Connections /\ r.state = "SYN_RCVD"
         /\ SameAcked(t, r) /\ SameRcv(t, r) /\ SameSent(t, r)
         /\ r.active = t.active /\ r.iss = t.iss /\ r.end = t.end
         /\ r.send_fin = t.send_fin
         /\ r.timers = t.timers \ Cancelled("SYN_RCVD")
    <3> DEFINE z == performStateTransition(t, "RCV_SYN")
    <3>1. r = z
      BY <2>1 DEF Outcome
    <3>2. /\ z \in Connections /\ z.state = "SYN_RCVD"
          /\ SameAcked(t, z) /\ SameRcv(t, z) /\ SameSent(t, z)
          /\ z.active = t.active /\ z.iss = t.iss /\ z.end = t.end
          /\ z.send_fin = t.send_fin
          /\ z.timers = t.timers \ Cancelled("SYN_RCVD")
      <4>1. t \in Connections /\ t.state = "LISTEN"
        BY <2>7, <2>8
      <4> QED  BY <2>9, <4>1, TransitionOK
    <3> HIDE DEF z, r
    <3> QED  BY <3>1, <3>2
  <2> HIDE DEF r
  <2>11. Cancelled("SYN_RCVD") = {}
    BY DEF Cancelled
  <2>12. Received(d, r) /\ Delivered(d, r)
    <3>1. SameRcv(y, r)
      BY <2>8, <2>10 DEF SameRcv
    <3> QED  BY <2>4, <3>1, ReceivedSame
  <2>13. /\ r.rcvQueue = {} /\ r.delivered = 0 /\ ~r.fin_rcvd
         /\ r.rcv_nxt # 0 /\ r.rcv_nxt = r.irs + 1 /\ c.rcv_nxt <= r.rcv_nxt
    BY <2>4, <2>8, <2>10 DEF SameRcv
  <2>14. c.snd_max < r.iss /\ c.snd_max <= r.snd_max
    BY <2>2, <2>3, <2>8, <2>10, LargeStep DEF SameSent, Connections
  <2>15. InHandshake(c, d, r)
    <3>1. /\ "CONN-ESTAB" \in r.timers /\ "REXMIT" \notin r.timers /\ "2MSL" \notin r.timers
      BY <2>3, <2>8, <2>10, <2>11
    <3>2. r.out = {Segment({"SYN", "ACK"}, r.iss, r.rcv_nxt, 0)}
      BY <2>8, <2>10 DEF SameSent, SameRcv
    <3>3. /\ r.snd_una = r.iss /\ r.snd_nxt = r.iss + 1 /\ r.snd_max = r.iss + 1
          /\ r.begin = r.iss + 1 /\ r.begin <= r.end /\ ~r.send_fin /\ ~r.fin_ack_rcvd
          /\ ~r.failed /\ r.end = r.iss + 1 /\ r.active = c.active
      BY <2>8, <2>10 DEF SameAcked, SameSent, Connections
    <3> QED
      BY <2>10, <2>12, <2>13, <2>14, <3>1, <3>2, <3>3 DEF InHandshake, Handshake
  <2> QED  BY <2>15, HandshakeAfter DEF r, p
<1>7. \/ p = Outcome(c, "IGNORE") \/ p = Outcome(rst, "IGNORE")
      \/ "RST" \notin s.flags /\ "ACK" \notin s.flags /\ "SYN" \in s.flags
  <2> HIDE DEF t
  <2> QED  BY <1>1
<1> QED  BY <1>4, <1>5, <1>6, <1>7

\* The SYN is answered: the connection is established, or both ends sent a SYN.
LEMMA InSynSentOK ==
  ASSUME NEW c, NEW d, AtRest(c, d), AtRest(d, c), c.state = "SYN_SENT",
         NEW s \in Segments, Truthful(c, d, s)
  PROVE  LET p == processSegmentInSynSent(c, s)
             r == performStateTransition(p.c, p.ev)
         IN  After(c, d, r) /\ SameApp(c, r)
<1> DEFINE acks == "ACK" \in s.flags
           badAck == acks /\ (s.ackNo <= c.iss \/ s.ackNo > c.snd_nxt)
           y == Synchronize(c, s)
           x == discardUpTo([y EXCEPT !.snd_una = s.ackNo], s.ackNo)
           g == established(x, TRUE)
           k == sendSynAck(y)
           u == startSynRexmitTimer(k)
           rst == sendToIP(c, Segment({"RST"}, s.ackNo, 0, 0))
           p == processSegmentInSynSent(c, s)
           r == performStateTransition(p.c, p.ev)
<1>1. p = CASE badAck -> Outcome(IF "RST" \in s.flags THEN c ELSE rst, "IGNORE")
            [] ~badAck /\ "RST" \in s.flags ->
                 Outcome(c, IF acks THEN "RCV_RST" ELSE "IGNORE")
            [] ~badAck /\ s.flags = {"SYN", "ACK"} -> Outcome(g, "RCV_SYN_ACK")
            [] ~badAck /\ s.flags = {"SYN"} -> Outcome(u, "RCV_SYN")
            [] OTHER -> Outcome(c, "IGNORE")
  BY DEF processSegmentInSynSent, sendRst
<1>2. /\ c \in Connections /\ d \in Connections /\ s.ackNo \in Nat /\ s.seq \in Nat
      /\ SendOrder(c) /\ SendOpening(c) /\ RcvOpening(c) /\ TimersOK(c) /\ ~c.failed
      /\ c.out = {} /\ SendOrder(d)
  BY DEF AtRest, LocalOK, Segments
<1>3. /\ ~c.send_fin /\ c.snd_una = c.iss /\ c.snd_max = c.iss + 1 /\ ~c.fin_ack_rcvd
      /\ c.snd_nxt = c.iss + 1 /\ c.begin = c.iss + 1 /\ c.begin <= c.end
      /\ "2MSL" \notin c.timers /\ "REXMIT" \notin c.timers /\ "CONN-ESTAB" \in c.timers
      /\ c.rcv_nxt = 0 /\ c.active /\ c.state \in Handshake /\ c.state \in Opening
      /\ c.delivered = 0 /\ ~c.fin_rcvd
  BY <1>2 DEF SendOrder, SendOpening, RcvOpening, TimersOK, Opening, Handshake, Synchronized
<1>4. After(c, d, c) /\ SameApp(c, c)
  BY OutOnlySelf, QuietAfter
<1>5. After(c, d, rst) /\ SameApp(c, rst)
  <2>1. /\ Segment({"RST"}, s.ackNo, 0, 0) \in Segments
        /\ "RST" \in Segment({"RST"}, s.ackNo, 0, 0).flags
    BY DEF Segment, Segments
  <2> QED  BY <2>1, SendRstOK
<1> HIDE DEF p, rst
<1>6. CASE p = Outcome(c, "IGNORE")
  <2>1. r = c
    BY <1>6, IgnoreOK DEF Outcome
  <2> QED  BY <1>4, <2>1 DEF p
<1>7. CASE p = Outcome(rst, "IGNORE")
  <2>1. r = rst
    BY <1>7, IgnoreOK DEF Outcome
  <2> QED  BY <1>5, <2>1 DEF p
<1>8. CASE p = Outcome(c, "RCV_RST")
  <2>1. r = performStateTransition(c, "RCV_RST")
    BY <1>8 DEF Outcome
  <2>2. Goto(c.state, "RCV_RST", c.active) = "CLOSED"
    BY DEF Goto, OnAbort
  <2>3. /\ After(c, d, performStateTransition(c, "RCV_RST"))
        /\ SameApp(c, performStateTransition(c, "RCV_RST"))
    BY <2>2, OutOnlySelf, EndsAsItIs
  <2> QED  BY <2>1, <2>3 DEF p
<1>9. ASSUME "SYN" \in s.flags, "RST" \notin s.flags
      PROVE  /\ y \in Connections /\ SameEnd(c, y) /\ SameAcked(c, y) /\ SameSent(c, y)
             /\ y.timers = c.timers /\ y.irs = s.seq /\ y.rcv_nxt = s.seq + 1
             /\ y.rcvQueue = {} /\ y.delivered = 0 /\ ~y.fin_rcvd
             /\ Received(d, y) /\ Delivered(d, y)
             /\ c.rcv_nxt <= y.rcv_nxt /\ y.rcv_nxt # 0
  BY <1>9, SynchronizeOK
<1>10. CASE ~badAck /\ s.flags = {"SYN", "ACK"}
  <2>1. p = Outcome(g, "RCV_SYN_ACK")
    <3> HIDE DEF g, u
    <3> QED  BY <1>1, <1>10
  <2>2. /\ y \in Connections /\ SameEnd(c, y) /\ SameAcked(c, y) /\ SameSent(c, y)
        /\ y.timers = c.timers /\ y.rcvQueue = {}
        /\ Received(d, y) /\ Delivered(d, y) /\ y.rcv_nxt # 0
    BY <1>9, <1>10
  <2>3. /\ s.ackNo = c.iss + 1 /\ s.ackNo <= d.rcv_nxt
    BY <1>2, <1>3, <1>10 DEF Truthful, Connections
  <2> HIDE DEF y
  <2>4. MidBase(y, d)
    BY <1>2, <1>3, <2>2 DEF MidBase, TimersOK, SameEnd, SameAcked, SameSent
  <2>5. x = [y EXCEPT !.snd_una = s.ackNo, !.begin = s.ackNo, !.failed = FALSE]
    <3> DEFINE w == [y EXCEPT !.snd_una = s.ackNo]
    <3>1. /\ w \in Connections /\ w.begin = y.begin /\ w.end = y.end /\ w.failed = y.failed
      BY <1>2, <2>2 DEF Connections
    <3>2. /\ w.begin <= s.ackNo /\ s.ackNo <= w.end /\ w.failed = FALSE
      BY <1>2, <1>3, <2>2, <2>3, <3>1 DEF SameAcked, SameEnd, SameSent, Connections
    <3>3. x = discardUpTo(w, s.ackNo)
      OBVIOUS
    <3>4. w = [y EXCEPT !.snd_una = s.ackNo]
      OBVIOUS
    <3> HIDE DEF w, x
    <3>5. x = [w EXCEPT !.begin = s.ackNo, !.failed = FALSE]
      BY <3>1, <3>2, <3>3 DEF discardUpTo, Assert, Connections
    <3> QED  BY <2>2, <3>4, <3>5 DEF Connections
  <2> HIDE DEF x
  <2>6. x \in Connections
    BY <1>2, <2>2, <2>5 DEF Connections
  <2>7. /\ SameEnd(y, x) /\ SameRcv(y, x) /\ x.snd_una = s.ackNo /\ x.begin = s.ackNo
        /\ ~x.failed /\ x.snd_nxt = y.snd_nxt /\ x.snd_max = y.snd_max
        /\ x.out = y.out /\ x.timers = y.timers /\ x.fin_ack_rcvd = y.fin_ack_rcvd
    BY <2>2, <2>5 DEF SameEnd, SameRcv, Connections
  <2>8. SendReady(x)
    BY <1>2, <1>3, <2>2, <2>3, <2>6, <2>7
       DEF SendReady, SendOrder, SameEnd, SameAcked, SameSent, Min2, Connections
  <2>9. AllSaid(x, y.rcv_nxt)
    BY <1>2, <2>2, <2>7 DEF AllSaid, SameRcv, SameSent, Connections
  <2>10. RexmitOK(x)
    BY <1>2, <1>3, <2>2, <2>3, <2>7 DEF RexmitOK, SameSent, Connections
  <2>11. Mid(y, d, x)
    <3>1. Received(d, x) /\ Delivered(d, x)
      BY <2>2, <2>7, ReceivedSame
    <3>2. IsFiniteSet(x.rcvQueue)
      BY <2>2, <2>7, FS_EmptySet DEF SameRcv
    <3> QED
      BY <2>2, <2>3, <2>6, <2>7, <2>8, <2>9, <3>1, <3>2 DEF Mid, SameRcv, Connections
  <2>12. Sending(x, g, y.rcv_nxt) /\ RexmitOK(g)
    BY <2>8, <2>9, <2>10, SendingEstablished
  <2> HIDE DEF g
  <2>13. Mid(y, d, g)
    BY <2>2, <2>11, <2>12, MidSending
  <2>14. Fits(d, g, "RCV_SYN_ACK")
    <3>1. g.state = "SYN_SENT" /\ "2MSL" \notin g.timers
      BY <1>3, <2>2, <2>7, <2>12 DEF Sending, SameEnd
    <3>2. Goto(g.state, "RCV_SYN_ACK", g.active) = "ESTABLISHED"
      BY <3>1 DEF Goto, OnAbort
    <3> QED  BY <3>1, <3>2 DEF Fits, Synchronized, AfterFin
  <2>15. /\ After(y, d, r) /\ r.state \in Synchronized
         /\ r.active = y.active /\ r.iss = y.iss /\ r.end = y.end /\ r.send_fin = y.send_fin
    <3> DEFINE z == performStateTransition(g, "RCV_SYN_ACK")
    <3>1. /\ After(y, d, z) /\ z.state \in Synchronized
          /\ z.active = y.active /\ z.iss = y.iss /\ z.end = y.end /\ z.send_fin = y.send_fin
      BY <2>4, <2>12, <2>13, <2>14, MidAfter
    <3>2. r = z
      BY <2>1 DEF Outcome
    <3> HIDE DEF z, r
    <3> QED  BY <3>1, <3>2
  <2> HIDE DEF r
  <2>16. Grows(c, r)
    <3>1. Grows(y, r) /\ r \in Connections
      BY <2>15 DEF After
    <3>2. c.rcv_nxt <= r.rcv_nxt
      BY <1>3, <3>1 DEF Connections
    <3> QED  BY <1>3, <2>2, <3>1, <3>2 DEF Grows, SameEnd, SameSent, Opening
  <2>17. After(c, d, r)
    BY <2>15, <2>16 DEF After
  <2>18. SameApp(c, r)
    BY <1>3, <2>2, <2>15 DEF SameApp, SameEnd, Opening, Synchronized
  <2> QED  BY <2>17, <2>18 DEF r, p
<1>11. CASE ~badAck /\ s.flags = {"SYN"}
  <2>1. p = Outcome(u, "RCV_SYN")
    <3> HIDE DEF g, u
    <3> QED  BY <1>1, <1>11
  <2>2. /\ y \in Connections /\ SameEnd(c, y) /\ SameAcked(c, y) /\ SameSent(c, y)
        /\ y.timers = c.timers /\ y.irs = s.seq /\ y.rcv_nxt = s.seq + 1
        /\ y.rcvQueue = {} /\ y.delivered = 0 /\ ~y.fin_rcvd
        /\ Received(d, y) /\ Delivered(d, y) /\ c.rcv_nxt <= y.rcv_nxt /\ y.rcv_nxt # 0
    BY <1>9, <1>11
  <2> HIDE DEF y
  <2>3. /\ k \in Connections /\ SameEnd(y, k) /\ SameAcked(y, k) /\ SameRcv(y, k)
        /\ k.snd_nxt = y.iss + 1 /\ k.snd_max = y.iss + 1
        /\ k.timers = y.timers /\ k.failed = y.failed
        /\ k.out = y.out \cup {Segment({"SYN", "ACK"}, y.iss, y.rcv_nxt, 0)}
    BY <2>2, SendSynAckOK DEF SynOut
  <2> HIDE DEF k
  <2>4. /\ u \in Connections
        /\ SameAcked(k, u) /\ SameRcv(k, u) /\ SameSent(k, u)
        /\ u.state = k.state /\ u.active = k.active /\ u.iss = k.iss
        /\ u.end = k.end /\ u.send_fin = k.send_fin
        /\ u.timers = k.timers \cup {"SYN-REXMIT"}
    BY <2>3, SynTimersOK
  <2> HIDE DEF u
  <2>5. u.state = "SYN_SENT" /\ Goto(u.state, "RCV_SYN", u.active) = "SYN_RCVD"
    <3>1. u.state = "SYN_SENT"
      BY <2>2, <2>3, <2>4 DEF SameEnd
    <3> QED  BY <3>1 DEF Goto, OnAbort
  <2>6. /\ r \in Connections /\ r.state = "SYN_RCVD"
        /\ SameAcked(u, r) /\ SameRcv(u, r) /\ SameSent(u, r)
        /\ r.active = u.active /\ r.iss = u.iss /\ r.end = u.end
        /\ r.send_fin = u.send_fin /\ r.timers = u.timers \ Cancelled("SYN_RCVD")
    <3> DEFINE z == performStateTransition(u, "RCV_SYN")
    <3>1. r = z
      BY <2>1 DEF Outcome
    <3>2. /\ z \in Connections /\ z.state = "SYN_RCVD"
          /\ SameAcked(u, z) /\ SameRcv(u, z) /\ SameSent(u, z)
          /\ z.active = u.active /\ z.iss = u.iss /\ z.end = u.end
          /\ z.send_fin = u.send_fin /\ z.timers = u.timers \ Cancelled("SYN_RCVD")
      <4>1. u \in Connections
        BY <2>4
      <4> QED  BY <2>5, <4>1, TransitionOK
    <3> HIDE DEF z, r
    <3> QED  BY <3>1, <3>2
  <2> HIDE DEF r
  <2>7. SameRcv(y, r)
    BY <2>3, <2>4, <2>6 DEF SameRcv
  <2>8. Received(d, r) /\ Delivered(d, r)
    BY <2>2, <2>7, ReceivedSame
  <2>9. /\ r.active = c.active /\ r.iss = c.iss /\ r.end = c.end /\ r.send_fin = c.send_fin
        /\ SameAcked(c, r)
        /\ r.snd_nxt = c.iss + 1 /\ r.snd_max = c.iss + 1 /\ ~r.failed
    BY <1>2, <2>2, <2>3, <2>4, <2>6 DEF SameEnd, SameAcked, SameSent
  <2>10. r.out = {Segment({"SYN", "ACK"}, r.iss, r.rcv_nxt, 0)}
    <3>1. r.out = k.out /\ y.out = {}
      BY <1>2, <2>2, <2>4, <2>6 DEF SameSent
    <3>2. y.iss = r.iss /\ y.rcv_nxt = r.rcv_nxt
      BY <2>2, <2>7, <2>9 DEF SameEnd, SameRcv
    <3> QED  BY <2>3, <3>1, <3>2
  <2>11. r.timers = c.timers \cup {"SYN-REXMIT"}
    <3>1. Cancelled("SYN_RCVD") = {}
      BY DEF Cancelled
    <3> QED  BY <2>2, <2>3, <2>4, <2>6, <3>1
  <2>12. /\ r.rcvQueue = {} /\ r.delivered = 0 /\ ~r.fin_rcvd
         /\ r.rcv_nxt # 0 /\ r.rcv_nxt = r.irs + 1 /\ c.rcv_nxt <= r.rcv_nxt
    BY <2>2, <2>7 DEF SameRcv
  <2>13. InHandshake(c, d, r)
    BY <1>2, <1>3, <2>6, <2>8, <2>9, <2>10, <2>11, <2>12
       DEF InHandshake, Handshake, SameAcked, Connections
  <2> QED  BY <2>13, HandshakeAfter DEF r, p
<1>12. \/ p = Outcome(c, "IGNORE") \/ p = Outcome(rst, "IGNORE") \/ p = Outcome(c, "RCV_RST")
       \/ ~badAck /\ s.flags = {"SYN", "ACK"}
       \/ ~badAck /\ s.flags = {"SYN"}
  <2> HIDE DEF g, u, badAck
  <2> QED  BY <1>1
<1> QED  BY <1>6, <1>7, <1>8, <1>10, <1>11, <1>12

\* An ACK in answer to a segment that is not acceptable.
LEMMA PureAckAfter ==
  ASSUME NEW c, NEW d, AtRest(c, d), c.rcv_nxt # 0
  PROVE  After(c, d, sendAck(c)) /\ SameApp(c, sendAck(c))
<1> DEFINE s == Segment({"ACK"}, c.snd_nxt, c.rcv_nxt, 0)
           b == sendAck(c)
<1>1. c \in Connections /\ d \in Connections /\ SendOrder(c) /\ c.out = {} /\ Received(d, c)
  BY DEF AtRest, LocalOK
<1>2. b = [c EXCEPT !.out = {s}]
  BY <1>1 DEF sendAck, sendToIP
<1>3. s \in Segments
  BY <1>1 DEF Segment, Segments, Connections
<1>4. Truthful(d, c, s)
  <2>1. c.rcv_nxt # d.iss
    BY <1>1 DEF Received, Connections
  <2> QED  BY <1>1, <2>1 DEF Truthful, Segment, SendOrder, Connections
<1> HIDE DEF b, s
<1>5. b \in Connections
  BY <1>1, <1>2, <1>3 DEF Connections
<1>6. OutOnly(c, b) /\ b.out = {s}
  BY <1>1, <1>2, <1>5 DEF OutOnly, SameEnd, SameAcked, SameRcv, Connections
<1> QED  BY <1>4, <1>6, QuietAfter DEF b

\* Steps five to eight, and the state transition.
LEMMA AckTextFinAfter ==
  ASSUME NEW c, NEW d, NEW s, AckArrives(c, d, s)
  PROVE  LET p == ProcessAckTextFin(c, s)
             r == performStateTransition(p.c, p.ev)
         IN  After(c, d, r) /\ SameApp(c, r)
<1> DEFINE p == ProcessAckTextFin(c, s)
           b == p.c
           r == performStateTransition(b, p.ev)
<1>1. AtRest(c, d) /\ c.state \in Synchronized \cup {"SYN_RCVD"}
  BY DEF AckArrives
<1>2. /\ c \in Connections /\ d \in Connections /\ SendOrder(d) /\ c.rcv_nxt # 0
  BY AckArrivesFacts
<1>3. MidBase(c, d)
  BY <1>1, <1>2 DEF MidBase, AtRest, LocalOK, SendOpening, Handshake
<1>4. /\ Mid(c, d, b)
      /\ \/ RexmitOK(b) /\ Fits(d, b, p.ev)
         \/ c.state = "LAST_ACK" /\ p.ev = "RCV_ACK"
  BY ProcessAckTextFinOK
<1> HIDE DEF p
<1>5. CASE RexmitOK(b) /\ Fits(d, b, p.ev)
  <2>1. /\ After(c, d, r) /\ r.state \in Synchronized
        /\ r.active = c.active /\ r.iss = c.iss /\ r.end = c.end /\ r.send_fin = c.send_fin
    BY <1>3, <1>4, <1>5, MidAfter
  <2> HIDE DEF r
  <2>2. SameApp(c, r)
    BY <1>1, <2>1 DEF SameApp, Opening, Synchronized, Handshake
  <2> QED  BY <2>1, <2>2 DEF r, p
<1>6. CASE c.state = "LAST_ACK" /\ p.ev = "RCV_ACK"
  <2>1. /\ b \in Connections /\ ~b.failed /\ SendOrder(b) /\ IsFiniteSet(b.rcvQueue)
        /\ SameEnd(c, b) /\ Received(d, b) /\ Delivered(d, b)
        /\ c.snd_max <= b.snd_max /\ c.rcv_nxt <= b.rcv_nxt /\ b.irs = c.irs
        /\ Acked(b, d)
    BY <1>4 DEF Mid, SendReady, AllSaid, Acked
  <2>2. b.state # "CLOSED" /\ Goto(b.state, p.ev, b.active) = "CLOSED"
    <3>1. b.state = "LAST_ACK"
      BY <1>6, <2>1 DEF SameEnd
    <3> QED  BY <1>6, <3>1 DEF Goto, OnAbort
  <2>3. \A x \in b.out : "RST" \notin x.flags =>
          Says(b, c.rcv_nxt, x) /\ x.ackNo # 0 /\ x.ackNo # d.iss
    BY <1>3, <1>4, MidSaid DEF Mid, AllSaid
  <2>4. After(c, d, r) /\ SameApp(c, r)
    BY <1>1, <2>1, <2>2, <2>3, ClosedAfter
  <2> QED  BY <2>4 DEF p
<1> QED  BY <1>4, <1>5, <1>6

LEMMA FirstThruEighthOK ==
  ASSUME NEW c, NEW d, AtRest(c, d), c.state \in Synchronized \cup {"SYN_RCVD"},
         NEW s \in Segments, Truthful(c, d, s)
  PROVE  LET p == processSegment1stThru8th(c, s)
             r == performStateTransition(p.c, p.ev)
         IN  After(c, d, r) /\ SameApp(c, r)
<1> DEFINE ok == isSegmentAcceptable(c, s)
           ans == IF "RST" \in s.flags THEN c ELSE sendAck(c)
           rst == sendToIP(c, Segment({"RST"}, s.ackNo, 0, 0))
           x == IF c.state = "SYN_RCVD" THEN discardUpTo(c, c.end) ELSE c
           bad == /\ c.state = "SYN_RCVD"
                  /\ ~(c.snd_una <= s.ackNo /\ s.ackNo <= c.snd_nxt)
           p == processSegment1stThru8th(c, s)
           r == performStateTransition(p.c, p.ev)
<1>1. p = CASE ~ok -> Outcome(ans, "IGNORE")
            [] ok /\ "RST" \in s.flags -> Outcome(x, "RCV_RST")
            [] ok /\ s.flags \cap {"RST", "SYN"} = {"SYN"} -> Outcome(c, "RCV_UNEXP_SYN")
            [] ok /\ s.flags \cap {"RST", "SYN", "ACK"} = {"ACK"} ->
                 IF bad THEN Outcome(rst, "IGNORE") ELSE ProcessAckTextFin(c, s)
            [] OTHER -> Outcome(c, "IGNORE")
  BY DEF processSegment1stThru8th, sendRst
<1>2. /\ c \in Connections /\ d \in Connections /\ s.ackNo \in Nat /\ s.seq \in Nat
      /\ s.len \in {0, 1} /\ SendOrder(c) /\ SendOrder(d) /\ SendOpening(c) /\ RcvOpening(c)
      /\ AfterHandshake(c) /\ ~c.failed /\ c.out = {}
  BY DEF AtRest, LocalOK, Segments
<1>3. c.rcv_nxt # 0
  BY <1>2 DEF RcvOpening, AfterHandshake, Opening
<1>4. After(c, d, c) /\ SameApp(c, c)
  BY OutOnlySelf, QuietAfter
<1>5. After(c, d, ans) /\ SameApp(c, ans)
  BY <1>3, <1>4, PureAckAfter
<1>6. After(c, d, rst) /\ SameApp(c, rst)
  <2>1. /\ Segment({"RST"}, s.ackNo, 0, 0) \in Segments
        /\ "RST" \in Segment({"RST"}, s.ackNo, 0, 0).flags
    BY DEF Segment, Segments
  <2> QED  BY <2>1, SendRstOK
<1> SUFFICES After(c, d, r) /\ SameApp(c, r)
  OBVIOUS
<1> HIDE DEF p, ans, rst, ok
<1>7. ASSUME NEW b \in {c, ans, rst}, p = Outcome(b, "IGNORE")
      PROVE  After(c, d, r) /\ SameApp(c, r)
  <2>1. r = b
    BY <1>7, IgnoreOK DEF Outcome
  <2> QED  BY <1>4, <1>5, <1>6, <1>7, <2>1
<1>8. CASE p = Outcome(x, "RCV_RST")
  <2>1. r = performStateTransition(x, "RCV_RST")
    BY <1>8 DEF Outcome
  <2>2. CASE c.state = "SYN_RCVD"
    <3>1. c.begin <= c.end
      BY <1>2, <2>2 DEF SendOpening, Opening
    <3>2. x = [c EXCEPT !.begin = c.end, !.failed = FALSE]
      <4>1. c.failed = FALSE /\ c.end <= c.end /\ x = discardUpTo(c, c.end)
        BY <1>2, <2>2 DEF Connections
      <4> HIDE DEF x
      <4> QED  BY <1>2, <3>1, <4>1 DEF discardUpTo, Assert, Connections
    <3> HIDE DEF x
    <3>3. x \in Connections
      BY <1>2, <3>2 DEF Connections
    <3>4. /\ SameEnd(c, x) /\ SameRcv(c, x) /\ ~x.failed /\ x.out = {}
          /\ x.snd_una = c.snd_una /\ x.snd_nxt = c.snd_nxt /\ x.snd_max = c.snd_max
          /\ x.fin_ack_rcvd = c.fin_ack_rcvd /\ x.begin <= x.end /\ x.timers \subseteq c.timers
      BY <1>2, <3>2 DEF SameEnd, SameRcv, Connections
    <3>5. c.state \in Handshake
      BY <2>2 DEF Handshake
    <3>6. /\ After(c, d, performStateTransition(x, "RCV_RST"))
          /\ SameApp(c, performStateTransition(x, "RCV_RST"))
      BY <3>3, <3>4, <3>5, HandshakeEnds
    <3> QED  BY <2>1, <3>6
  <2>3. CASE c.state # "SYN_RCVD"
    <3>1. Goto(c.state, "RCV_RST", c.active) = "CLOSED" /\ c.state # "CLOSED"
      BY <2>3 DEF Goto, OnAbort, Synchronized
    <3>2. /\ After(c, d, performStateTransition(c, "RCV_RST"))
          /\ SameApp(c, performStateTransition(c, "RCV_RST"))
      BY <3>1, OutOnlySelf, EndsAsItIs
    <3> QED  BY <2>1, <2>3, <3>2
  <2> QED  BY <2>2, <2>3
<1>9. CASE p = Outcome(c, "RCV_UNEXP_SYN")
  <2>1. r = performStateTransition(c, "RCV_UNEXP_SYN")
    BY <1>9 DEF Outcome
  <2>2. Goto(c.state, "RCV_UNEXP_SYN", c.active) = "CLOSED" /\ c.state # "CLOSED"
    BY DEF Goto, OnAbort, Synchronized
  <2>3. /\ After(c, d, performStateTransition(c, "RCV_UNEXP_SYN"))
        /\ SameApp(c, performStateTransition(c, "RCV_UNEXP_SYN"))
    BY <2>2, OutOnlySelf, EndsAsItIs
  <2> QED  BY <2>1, <2>3
<1>10. CASE /\ p = ProcessAckTextFin(c, s) /\ ~bad /\ ok
            /\ s.flags \cap {"RST", "SYN", "ACK"} = {"ACK"}
  <2>1. "RST" \notin s.flags /\ "SYN" \notin s.flags /\ "ACK" \in s.flags
    BY <1>10
  <2>2. s.len > 0 => c.state \in TextStates
    <3> SUFFICES ASSUME s.len > 0, c.state \notin TextStates PROVE FALSE
      OBVIOUS
    <3>1. c.state \in AfterFin
      BY DEF TextStates, AfterFin, Synchronized
    <3>2. FinTaken(d, c)
      BY <3>1 DEF AtRest
    <3>3. s.seq < d.end
      BY <2>1 DEF Truthful
    <3>4. \/ c.rcv_nxt <= s.seq
          \/ c.rcv_nxt < s.seq + s.len
      BY <1>2, <1>10 DEF isSegmentAcceptable, ok
    <3> QED  BY <1>2, <3>2, <3>3, <3>4 DEF FinTaken, Connections
  <2>3. AckArrives(c, d, s)
    BY <1>10, <2>1, <2>2 DEF AckArrives
  <2> QED  BY <1>10, <2>3, AckTextFinAfter
<1>11. \/ p = Outcome(c, "IGNORE") \/ p = Outcome(ans, "IGNORE") \/ p = Outcome(rst, "IGNORE")
       \/ p = Outcome(x, "RCV_RST") \/ p = Outcome(c, "RCV_UNEXP_SYN")
       \/ /\ p = ProcessAckTextFin(c, s) /\ ~bad /\ ok
          /\ s.flags \cap {"RST", "SYN", "ACK"} = {"ACK"}
  <2> HIDE DEF x, bad
  <2> QED  BY <1>1
<1> HIDE DEF x, bad, r
<1> QED  BY <1>7, <1>8, <1>9, <1>10, <1>11

LEMMA RcvSegmentOK ==
  ASSUME Plans # {}, NEW c, NEW d, AtRest(c, d), AtRest(d, c),
         NEW s \in Segments, Truthful(c, d, s)
  PROVE  LET p == process_RCV_SEGMENT(c, s)
             r == performStateTransition(p.c, p.ev)
         IN  After(c, d, r) /\ SameApp(c, r)
<1> DEFINE w == segmentArrivalWhileClosed(c, s)
           p == process_RCV_SEGMENT(c, s)
           r == performStateTransition(p.c, p.ev)
<1>1. p = CASE c.state \in {"INIT", "CLOSED"} -> Outcome(w, "IGNORE")
            [] c.state = "LISTEN" -> processSegmentInListen(c, s)
            [] c.state = "SYN_SENT" -> processSegmentInSynSent(c, s)
            [] OTHER -> processSegment1stThru8th(c, s)
  BY DEF process_RCV_SEGMENT
<1> SUFFICES After(c, d, r) /\ SameApp(c, r)
  OBVIOUS
<1>2. After(c, d, w) /\ SameApp(c, w)
  BY WhileClosedOK
<1> HIDE DEF p, w
<1>3. CASE c.state \in {"INIT", "CLOSED"}
  <2>1. p = Outcome(w, "IGNORE")
    BY <1>1, <1>3
  <2>2. r = w
    BY <2>1, IgnoreOK DEF Outcome
  <2> QED  BY <1>2, <2>2
<1>4. CASE c.state = "LISTEN"
  <2>1. p = processSegmentInListen(c, s)
    BY <1>1, <1>4
  <2> QED  BY <1>4, <2>1, InListenOK
<1>5. CASE c.state = "SYN_SENT"
  <2>1. p = processSegmentInSynSent(c, s)
    BY <1>1, <1>5
  <2> QED  BY <1>5, <2>1, InSynSentOK
<1>6. CASE c.state \in Synchronized \cup {"SYN_RCVD"}
  <2>1. p = processSegment1stThru8th(c, s)
    BY <1>1, <1>6 DEF Synchronized
  <2> QED  BY <1>6, <2>1, FirstThruEighthOK
<1>7. c.state \in States
  BY DEF AtRest, Connections
<1> HIDE DEF r
<1> QED  BY <1>3, <1>4, <1>5, <1>6, <1>7 DEF States, Synchronized

-----------------------------------------------------------------------------
(* The steps of the specification *)

\* An event that starts from a changed connection b of the same end.
LEMMA AfterFrom ==
  ASSUME NEW c, NEW b, NEW d, NEW r, After(b, d, r),
         b.state = c.state, b.active = c.active, b.iss = c.iss,
         b.snd_max = c.snd_max, SameRcv(c, b),
         c \in Connections, b \in Connections, c.end <= b.end,
         c.send_fin => b.send_fin /\ b.end = c.end
  PROVE  After(c, d, r)
<1>1. Grows(b, r) /\ r \in Connections
  BY DEF After
<1>2. Grows(c, r)
  BY <1>1 DEF Grows, SameRcv, Connections
<1> QED  BY <1>2 DEF After

LEMMA FaultsOK ==
  ASSUME IndInv, UNCHANGED faults \/ Fault \/ Overdue
  PROVE  faults' \in 0 .. MaxFaults[plan]
<1>1. faults \in 0 .. MaxFaults[plan] /\ plan \in Plans
  BY DEF IndInv, TypeOK
<1>2. MaxFaults[plan] \in Nat
  BY <1>1, TCPAssumption
<1>3. UNCHANGED faults \/ Fault
  BY DEF Overdue
<1> QED  BY <1>1, <1>2, <1>3 DEF Fault

\* The fields of a connection that AppOK looks at are those of r.
LEMMA OutCleared ==
  ASSUME IndInv, NEW e \in Ends, NEW r \in Connections,
         conn' = [conn EXCEPT ![e] = [r EXCEPT !.out = {}]]
  PROVE  /\ conn'[e].state = r.state /\ conn'[e].active = r.active
         /\ conn'[e].iss = r.iss /\ conn'[e].end = r.end
         /\ conn'[e].send_fin = r.send_fin
         /\ conn'[Peer(e)] = conn[Peer(e)]
<1>1. conn \in [Ends -> Connections]
  BY DEF IndInv, TypeOK, Connections
<1>2. Peer(e) \in Ends /\ Peer(e) # e
  BY PeerFacts
<1>3. conn'[e] = [r EXCEPT !.out = {}] /\ conn'[Peer(e)] = conn[Peer(e)]
  BY <1>1, <1>2
<1> QED  BY <1>3 DEF Connections

LEMMA PeerAppKept ==
  ASSUME IndInv, NEW e \in Ends, conn'[Peer(e)] = conn[Peer(e)], plan' = plan,
         toSend'[Peer(e)] = toSend[Peer(e)], Peer(e) \in closing' <=> Peer(e) \in closing
  PROVE  AppOK(Peer(e))'
<1>1. AppOK(Peer(e))
  BY PeerFacts DEF IndInv
<1> QED  BY <1>1 DEF AppOK

\* An event at e in which no application gives a command.
LEMMA FinishStep ==
  ASSUME IndInv, NEW e \in Ends, NEW p, NEW kept \in SUBSET net, Finish(e, p, kept),
         AppUnchanged, UNCHANGED faults \/ Fault \/ Overdue,
         LET r == performStateTransition(p.c, p.ev)
         IN  After(conn[e], conn[Peer(e)], r) /\ SameApp(conn[e], r)
  PROVE  IndInv' /\ Advances(e)
<1> DEFINE r == performStateTransition(p.c, p.ev)
<1>1. After(conn[e], conn[Peer(e)], r) /\ SameApp(conn[e], r)
  OBVIOUS
<1>2. /\ conn' = [conn EXCEPT ![e] = [r EXCEPT !.out = {}]]
      /\ net' = kept \cup {[to |-> Peer(e), seg |-> s] : s \in r.out}
  BY DEF Finish
<1> HIDE DEF r
<1>3. r \in Connections
  BY <1>1 DEF After
<1>4. /\ conn'[e].state = r.state /\ conn'[e].active = r.active
      /\ conn'[e].iss = r.iss /\ conn'[e].end = r.end
      /\ conn'[e].send_fin = r.send_fin
      /\ conn'[Peer(e)] = conn[Peer(e)]
  BY <1>2, <1>3, OutCleared
<1>5. /\ plan' = plan /\ toSend' = toSend /\ closing' = closing
      /\ toSend \in [Ends -> Nat] /\ closing \subseteq Ends /\ plan \in Plans
  BY DEF AppUnchanged, IndInv, TypeOK
<1>6. AppOK(Peer(e))'
  BY <1>4, <1>5, PeerAppKept
<1>7. AppOK(e)'
  <2>1. AppOK(e)
    BY DEF IndInv
  <2>2. conn[e].state \in Opening /\ ~conn[e].active => toSend[e] = plan[e].sends
    BY <2>1 DEF AppOK
  <2>3. plan[e].sends \in Nat /\ r.iss \in Nat
    BY <1>3, <1>5, TCPAssumption DEF Plan, Connections
  <2>4. r.state \in Handshake \cup Synchronized \/ r.send_fin
          => r.end + toSend[e] = r.iss + 1 + plan[e].sends
    BY <1>1, <2>1, <2>2, <2>3 DEF SameApp, AppOK
  <2>5. r.end + toSend[e] <= r.iss + 1 + plan[e].sends
    BY <1>1, <1>5, <2>1, <2>2, <2>3 DEF SameApp, AppOK
  <2> QED  BY <1>1, <1>4, <1>5, <2>1, <2>2, <2>4, <2>5 DEF SameApp, AppOK
<1>8. faults' \in 0 .. MaxFaults[plan]
  BY FaultsOK
<1> QED  BY <1>1, <1>2, <1>5, <1>6, <1>7, <1>8, EventStep

LEMMA ReceiveStep ==
  ASSUME IndInv, NEW m \in net, Receive(m) \/ ReceiveCopy(m)
  PROVE  IndInv' /\ Advances(m.to)
<1> DEFINE p == process_RCV_SEGMENT(conn[m.to], m.seg)
<1>1. m.to \in Ends /\ m.seg \in Segments /\ plan \in Plans
  BY DEF IndInv, TypeOK
<1>2. AtRest(conn[m.to], conn[Peer(m.to)]) /\ AtRest(conn[Peer(m.to)], conn[m.to])
  BY <1>1, RestBetweenEvents
<1>3. Truthful(conn[m.to], conn[Peer(m.to)], m.seg)
  BY DEF IndInv
<1>4. LET r == performStateTransition(p.c, p.ev)
      IN  After(conn[m.to], conn[Peer(m.to)], r) /\ SameApp(conn[m.to], r)
  BY <1>1, <1>2, <1>3, RcvSegmentOK
<1>5. PICK kept \in SUBSET net : /\ Finish(m.to, p, kept)
                                /\ AppUnchanged /\ (UNCHANGED faults \/ Fault)
  <2>1. net \ {m} \in SUBSET net /\ net \in SUBSET net
    OBVIOUS
  <2> HIDE DEF p
  <2> QED  BY <2>1 DEF Receive, ReceiveCopy, p
<1> HIDE DEF p
<1> QED  BY <1>1, <1>4, <1>5, FinishStep

LEMMA LoseStep ==
  ASSUME IndInv, NEW m \in net, Lose(m)
  PROVE  IndInv'
<1>1. /\ net' \subseteq net /\ conn' = conn /\ plan' = plan /\ toSend' = toSend
      /\ closing' = closing
  BY DEF Lose, AppUnchanged
<1>2. faults' \in 0 .. MaxFaults[plan]
  BY FaultsOK DEF Lose
<1>3. TypeOK'
  BY <1>1, <1>2 DEF IndInv, TypeOK
<1>4. \A e \in Ends : AppOK(e)'
  BY <1>1 DEF IndInv, AppOK
<1> QED  BY <1>1, <1>3, <1>4 DEF IndInv

LEMMA AbortStep ==
  ASSUME IndInv, NEW e \in Ends, process_ABORT(e) \/ RexmitGivesUp(e)
  PROVE  IndInv' /\ Advances(e)
<1> DEFINE c == conn[e]
           d == conn[Peer(e)]
           s == Segment({"RST"}, c.snd_nxt, 0, 0)
<1>1. AtRest(c, d) /\ c \in Connections /\ TimersOK(c)
  BY RestBetweenEvents DEF AtRest
<1>2. c.state \notin {"INIT", "CLOSED"}
  BY <1>1 DEF process_ABORT, RexmitGivesUp, TimersOK, Synchronized
<1>3. PICK b \in {c, sendToIP(c, s)} :
        /\ Finish(e, Outcome(b, "ABORT"), net)
        /\ AppUnchanged /\ (UNCHANGED faults \/ Fault \/ Overdue)
  <2>1. CASE process_ABORT(e)
    BY <2>1 DEF process_ABORT, sendRst
  <2>2. CASE RexmitGivesUp(e)
    BY <2>2 DEF RexmitGivesUp
  <2> QED  BY <2>1, <2>2
<1>4. s \in Segments /\ "RST" \in s.flags
  BY <1>1 DEF Segment, Segments, Connections
<1> HIDE DEF c, d, s
<1>5. OutOnly(c, b) /\ \A x \in b.out : "RST" \in x.flags
  BY <1>1, <1>4, OutOnlySelf, SendRstOK
<1>6. b.state # "CLOSED" /\ Goto(b.state, "ABORT", b.active) = "CLOSED"
  <2>1. b.state \in States \ {"INIT", "CLOSED"}
    BY <1>1, <1>2, <1>5 DEF OutOnly, SameEnd, Connections
  <2> QED  BY <2>1 DEF Goto, OnAbort, States
<1>7. /\ After(c, d, performStateTransition(b, "ABORT"))
      /\ SameApp(c, performStateTransition(b, "ABORT"))
  BY <1>1, <1>5, <1>6, EndsAsItIs
<1> DEFINE p == Outcome(b, "ABORT")
<1>8. p.c = b /\ p.ev = "ABORT"
  BY DEF Outcome
<1>9. Finish(e, p, net) /\ AppUnchanged /\ (UNCHANGED faults \/ Fault \/ Overdue)
  BY <1>3
<1> HIDE DEF p
<1>10. LET r == performStateTransition(p.c, p.ev)
       IN  After(conn[e], conn[Peer(e)], r) /\ SameApp(conn[e], r)
  BY <1>7, <1>8 DEF c, d
<1> QED  BY <1>9, <1>10, FinishStep

LEMMA ConnEstabStep ==
  ASSUME IndInv, NEW e \in Ends, process_TIMEOUT_CONN_ESTAB(e)
  PROVE  IndInv' /\ Advances(e)
<1> DEFINE c == conn[e]
           d == conn[Peer(e)]
           b == cancel(c, {"CONN-ESTAB"})
           p == Outcome(Assert(b, c.state \in {"SYN_SENT", "SYN_RCVD"}), "TIMEOUT_CONN_ESTAB")
<1>1. AtRest(c, d) /\ c \in Connections /\ TimersOK(c) /\ SendOpening(c) /\ ~c.failed /\ c.out = {}
  BY RestBetweenEvents DEF AtRest, LocalOK
<1>2. /\ "CONN-ESTAB" \in c.timers /\ Finish(e, p, net) /\ AppUnchanged /\ UNCHANGED faults
  BY DEF process_TIMEOUT_CONN_ESTAB
<1>3. c.state \in Handshake
  BY <1>1, <1>2 DEF TimersOK
<1> HIDE DEF c, d
<1>4. TimersOnly(c, b) /\ b.timers = c.timers \ {"CONN-ESTAB"}
  BY <1>1, CancelOK
<1> HIDE DEF b
<1>5. /\ b \in Connections /\ SameEnd(c, b) /\ SameRcv(c, b) /\ ~b.failed /\ b.out = {}
      /\ b.snd_una = c.snd_una /\ b.snd_nxt = c.snd_nxt /\ b.snd_max = c.snd_max
      /\ b.fin_ack_rcvd = c.fin_ack_rcvd /\ b.begin <= b.end /\ b.timers \subseteq c.timers
  BY <1>1, <1>3, <1>4
     DEF TimersOnly, SameEnd, SameAcked, SameSent, SendOpening, Opening, Handshake
<1>6. /\ After(c, d, performStateTransition(b, "TIMEOUT_CONN_ESTAB"))
      /\ SameApp(c, performStateTransition(b, "TIMEOUT_CONN_ESTAB"))
  BY <1>1, <1>3, <1>5, HandshakeEnds
<1>7. p.c = b /\ p.ev = "TIMEOUT_CONN_ESTAB"
  <2>1. Assert(b, c.state \in {"SYN_SENT", "SYN_RCVD"}) = b
    BY <1>3, <1>5 DEF Assert, Handshake, Connections
  <2> QED  BY <2>1 DEF Outcome
<1> HIDE DEF p
<1>8. LET r == performStateTransition(p.c, p.ev)
      IN  After(conn[e], conn[Peer(e)], r) /\ SameApp(conn[e], r)
  BY <1>6, <1>7 DEF c, d
<1> QED  BY <1>2, <1>8, FinishStep

LEMMA TwoMSLStep ==
  ASSUME IndInv, NEW e \in Ends, process_TIMEOUT_2MSL(e)
  PROVE  IndInv' /\ Advances(e)
<1> DEFINE c == conn[e]
           d == conn[Peer(e)]
           b == cancel(c, {"2MSL"})
           p == Outcome(Assert(b, c.state = "TIME_WAIT"), "TIMEOUT_2MSL")
<1>1. /\ AtRest(c, d) /\ c \in Connections /\ TimersOK(c) /\ SendOrder(c) /\ ~c.failed
      /\ c.out = {} /\ IsFiniteSet(c.rcvQueue) /\ Received(d, c) /\ Delivered(d, c)
      /\ Acked(c, d)
  BY RestBetweenEvents DEF AtRest, LocalOK
<1>2. /\ "2MSL" \in c.timers /\ Finish(e, p, net) /\ AppUnchanged /\ UNCHANGED faults
  BY DEF process_TIMEOUT_2MSL
<1>3. c.state = "TIME_WAIT"
  BY <1>1, <1>2 DEF TimersOK
<1> HIDE DEF c, d
<1>4. TimersOnly(c, b) /\ b.timers = c.timers \ {"2MSL"}
  BY <1>1, CancelOK
<1> HIDE DEF b
<1>5. /\ b \in Connections /\ ~b.failed /\ SendOrder(b) /\ IsFiniteSet(b.rcvQueue)
      /\ SameEnd(c, b) /\ Acked(b, d) /\ b.out = {}
      /\ c.snd_max <= b.snd_max /\ c.rcv_nxt <= b.rcv_nxt /\ b.irs = c.irs
      /\ b.state = "TIME_WAIT"
  BY <1>1, <1>3, <1>4
     DEF TimersOnly, SendOrder, Acked, SameEnd, SameAcked, SameRcv, SameSent, Connections
<1>6. Received(d, b) /\ Delivered(d, b)
  BY <1>1, <1>4, ReceivedSame DEF TimersOnly
<1>7. Goto(b.state, "TIMEOUT_2MSL", b.active) = "CLOSED"
  BY <1>5 DEF Goto, OnAbort
<1>8. /\ After(c, d, performStateTransition(b, "TIMEOUT_2MSL"))
      /\ SameApp(c, performStateTransition(b, "TIMEOUT_2MSL"))
  BY <1>1, <1>5, <1>6, <1>7, ClosedAfter
<1>9. p.c = b /\ p.ev = "TIMEOUT_2MSL"
  <2>1. Assert(b, c.state = "TIME_WAIT") = b
    BY <1>3, <1>5 DEF Assert, Connections
  <2> QED  BY <2>1 DEF Outcome
<1> HIDE DEF p
<1>10. LET r == performStateTransition(p.c, p.ev)
       IN  After(conn[e], conn[Peer(e)], r) /\ SameApp(conn[e], r)
  BY <1>8, <1>9 DEF c, d
<1> QED  BY <1>2, <1>10, FinishStep

\* A SYN or a SYN+ACK is sent again.
LEMMA SynRexmitStep ==
  ASSUME IndInv, NEW e \in Ends, process_TIMEOUT_SYN_REXMIT(e)
  PROVE  IndInv' /\ Advances(e)
<1> DEFINE c == conn[e]
           d == conn[Peer(e)]
           b == [Assert(c, c.state \in {"SYN_SENT", "SYN_RCVD"})
                   EXCEPT !.syn_rexmit_count = @ + 1]
           r == IF b.state = "SYN_SENT" THEN sendSyn(b) ELSE sendSynAck(b)
           p == Outcome(r, "IGNORE")
<1>1. /\ AtRest(c, d) /\ c \in Connections /\ d \in Connections /\ TimersOK(c)
      /\ SendOrder(c) /\ SendOpening(c) /\ RcvOpening(c)
      /\ ~c.failed /\ c.out = {} /\ Received(d, c) /\ Delivered(d, c)
  BY RestBetweenEvents DEF AtRest, LocalOK
<1>2. /\ "SYN-REXMIT" \in c.timers /\ Finish(e, p, net) /\ AppUnchanged /\ Overdue
  BY DEF process_TIMEOUT_SYN_REXMIT
<1>3. c.state \in Handshake
  BY <1>1, <1>2 DEF TimersOK
<1> HIDE DEF c, d
<1>4. b = [c EXCEPT !.syn_rexmit_count = @ + 1]
  <2>1. Assert(c, c.state \in {"SYN_SENT", "SYN_RCVD"}) = c
    BY <1>1, <1>3 DEF Assert, Handshake, Connections
  <2> QED  BY <2>1
<1> HIDE DEF b
<1>5. /\ b \in Connections /\ SameAcked(c, b) /\ SameRcv(c, b) /\ SameSent(c, b)
      /\ b.state = c.state /\ b.active = c.active /\ b.iss = c.iss
      /\ b.end = c.end /\ b.send_fin = c.send_fin /\ b.timers = c.timers
  <2>1. c.syn_rexmit_count + 1 \in Nat
    BY <1>1 DEF Connections
  <2>2. b \in Connections
    BY <1>1, <1>4, <2>1 DEF Connections
  <2> QED  BY <1>1, <1>4, <2>2 DEF SameAcked, SameRcv, SameSent, Connections
<1>6. SynOut(b, r, IF c.state = "SYN_SENT" THEN Segment({"SYN"}, b.iss, 0, 0)
                   ELSE Segment({"SYN", "ACK"}, b.iss, b.rcv_nxt, 0))
  BY <1>5, SendSynOK, SendSynAckOK
<1> HIDE DEF r
<1>7. /\ r \in Connections /\ r.state = c.state /\ r.active = c.active /\ r.iss = c.iss
      /\ r.end = c.end /\ r.send_fin = c.send_fin /\ r.timers = c.timers
      /\ SameAcked(c, r) /\ SameRcv(c, r) /\ ~r.failed
      /\ r.snd_nxt = c.iss + 1 /\ r.snd_max = c.iss + 1
  BY <1>1, <1>5, <1>6 DEF SynOut, SameEnd, SameAcked, SameRcv, SameSent
<1>8. r.out = IF r.state = "SYN_SENT" THEN {Segment({"SYN"}, r.iss, 0, 0)}
              ELSE {Segment({"SYN", "ACK"}, r.iss, r.rcv_nxt, 0)}
  <2>1. b.out = {} /\ b.iss = r.iss /\ b.rcv_nxt = r.rcv_nxt
    BY <1>1, <1>5, <1>7 DEF SameSent, SameRcv
  <2> QED  BY <1>6, <1>7, <2>1 DEF SynOut
<1>9. Received(d, r) /\ Delivered(d, r)
  BY <1>1, <1>7, ReceivedSame
<1>10. /\ ~c.send_fin /\ c.snd_una = c.iss /\ c.snd_max = c.iss + 1 /\ ~c.fin_ack_rcvd
       /\ c.begin = c.iss + 1 /\ c.begin <= c.end
       /\ "2MSL" \notin c.timers /\ "REXMIT" \notin c.timers /\ "CONN-ESTAB" \in c.timers
       /\ c.rcvQueue = {} /\ c.delivered = 0 /\ ~c.fin_rcvd
       /\ c.state = "SYN_SENT" => c.rcv_nxt = 0 /\ c.active
       /\ c.state = "SYN_RCVD" => c.rcv_nxt # 0 /\ c.rcv_nxt = c.irs + 1
  BY <1>1, <1>3
     DEF SendOrder, SendOpening, RcvOpening, TimersOK, Opening, Handshake, Synchronized
<1>11. InHandshake(c, d, r)
  <2>1. c.snd_max <= r.snd_max /\ c.rcv_nxt <= r.rcv_nxt
    BY <1>1, <1>7, <1>10 DEF SameRcv, Connections
  <2> QED
    BY <1>3, <1>7, <1>8, <1>9, <1>10, <2>1 DEF InHandshake, SameAcked, SameRcv
<1>12. After(c, d, r) /\ SameApp(c, r)
  BY <1>1, <1>11, HandshakeAfter
<1>13. performStateTransition(p.c, p.ev) = r
  BY IgnoreOK DEF Outcome
<1> HIDE DEF p
<1>14. LET x == performStateTransition(p.c, p.ev)
       IN  After(conn[e], conn[Peer(e)], x) /\ SameApp(conn[e], x)
  BY <1>12, <1>13 DEF c, d
<1> QED  BY <1>2, <1>14, FinishStep

LEMMA RexmitStep ==
  ASSUME IndInv, NEW e \in Ends, processRexmitTimer(e)
  PROVE  IndInv' /\ Advances(e)
<1> DEFINE c == conn[e]
           d == conn[Peer(e)]
           b == [c EXCEPT !.rexmit_count = @ + 1]
           r == retransmitOneSegment(b)
           p == Outcome(r, "IGNORE")
<1>1. /\ AtRest(c, d) /\ c \in Connections
  BY RestBetweenEvents DEF AtRest
<1>2. /\ "REXMIT" \in c.timers /\ Finish(e, p, net) /\ AppUnchanged /\ Overdue
  BY DEF processRexmitTimer
<1>3. c.state \in Synchronized /\ c.snd_una < c.snd_max /\ c.rcv_nxt # 0
  BY <1>1, <1>2 DEF AtRest, LocalOK, TimersOK, AfterHandshake
<1> HIDE DEF c, d
<1>4. b = [c EXCEPT !.rexmit_count = @ + 1]
  OBVIOUS
<1> HIDE DEF b
<1>5. TimersOnly(c, b) /\ b.timers = c.timers
  <2>1. c.rexmit_count + 1 \in Nat
    BY <1>1 DEF Connections
  <2>2. b \in Connections
    BY <1>1, <1>4, <2>1 DEF Connections
  <2> QED
    BY <1>1, <1>4, <2>2 DEF TimersOnly, SameEnd, SameAcked, SameRcv, SameSent, Connections
<1>6. Mid(c, d, c) /\ Fits(d, c, "IGNORE") /\ RexmitOK(c)
  BY <1>1, <1>3, MidStart
<1>7. Mid(c, d, b)
  BY <1>1, <1>5, <1>6, MidTimers
<1>8. Fits(d, b, "IGNORE") /\ b.snd_una < b.snd_max /\ "REXMIT" \in b.timers
  BY <1>2, <1>3, <1>5, <1>6
     DEF Fits, FinTaken, TimersOnly, SameEnd, SameAcked, SameRcv, SameSent
<1>9. /\ Sending(b, r, c.rcv_nxt) /\ r.timers = b.timers /\ r.snd_max = b.snd_max
  BY <1>7, <1>8, SendingRetransmission DEF Mid
<1> HIDE DEF r
<1>10. RexmitOK(r)
  BY <1>8, <1>9 DEF RexmitOK, Sending, SameAcked
<1>11. Mid(c, d, r) /\ Fits(d, r, "IGNORE")
  BY <1>1, <1>7, <1>8, <1>9, MidSending
<1>12. MidBase(c, d)
  BY <1>1, <1>3 DEF MidBase, AtRest, LocalOK, Synchronized, Opening
<1>13. performStateTransition(r, "IGNORE") = r
  BY IgnoreOK
<1>14. /\ After(c, d, r) /\ r.state \in Synchronized
       /\ r.iss = c.iss /\ r.end = c.end /\ r.send_fin = c.send_fin
  BY <1>10, <1>11, <1>12, <1>13, MidAfter
<1>15. SameApp(c, r)
  BY <1>3, <1>14 DEF SameApp, Opening, Synchronized
<1>16. p.c = r /\ p.ev = "IGNORE"
  BY DEF Outcome
<1> HIDE DEF p
<1>17. LET x == performStateTransition(p.c, p.ev)
       IN  After(conn[e], conn[Peer(e)], x) /\ SameApp(conn[e], x)
  BY <1>13, <1>14, <1>15, <1>16 DEF c, d
<1> QED  BY <1>2, <1>17, FinishStep

LEMMA OpenPassiveStep ==
  ASSUME IndInv, NEW e \in Ends, process_OPEN_PASSIVE(e)
  PROVE  IndInv' /\ Advances(e)
<1> DEFINE c == conn[e]
           d == conn[Peer(e)]
           p == Outcome(c, "OPEN_PASSIVE")
           r == performStateTransition(c, "OPEN_PASSIVE")
<1>1. /\ AtRest(c, d) /\ c \in Connections /\ SendOrder(c) /\ SendOpening(c) /\ RcvOpening(c)
      /\ IsFiniteSet(c.rcvQueue) /\ TimersOK(c) /\ ~c.failed /\ c.out = {}
      /\ Received(d, c) /\ Delivered(d, c) /\ Acked(c, d)
  BY RestBetweenEvents DEF AtRest, LocalOK
<1>2. /\ c.state = "INIT" /\ Finish(e, p, net) /\ AppUnchanged /\ UNCHANGED faults
  BY DEF process_OPEN_PASSIVE, MayOpen
<1> HIDE DEF c, d
<1>3. Goto(c.state, "OPEN_PASSIVE", c.active) = "LISTEN"
  BY <1>2 DEF Goto
<1>4. /\ r \in Connections /\ r.state = "LISTEN"
      /\ SameAcked(c, r) /\ SameRcv(c, r) /\ SameSent(c, r)
      /\ r.active = c.active /\ r.iss = c.iss /\ r.end = c.end
      /\ r.send_fin = c.send_fin /\ r.snd_fin_seq = c.snd_fin_seq
      /\ r.timers = c.timers \ Cancelled("LISTEN")
  <2>1. c \in Connections /\ c.state = "INIT"
    BY <1>1, <1>2
  <2> QED  BY <1>3, <2>1, TransitionOK
<1> HIDE DEF r
<1>5. LocalOK(r)
  <2>1. SendOrder(r) /\ IsFiniteSet(r.rcvQueue)
    BY <1>1, <1>4 DEF SendOrder, SameAcked, SameRcv, SameSent
  <2>2. SendOpening(r)
    BY <1>1, <1>2, <1>4 DEF SendOpening, Opening, Handshake, SameAcked, SameSent
  <2>3. RcvOpening(r) /\ AfterHandshake(r)
    BY <1>1, <1>2, <1>4 DEF RcvOpening, AfterHandshake, Opening, Synchronized, SameRcv
  <2> QED  BY <2>1, <2>2, <2>3 DEF LocalOK
<1>6. TimersOK(r)
  BY <1>1, <1>2, <1>4 DEF TimersOK, Handshake, Synchronized
<1>7. Received(d, r) /\ Delivered(d, r)
  BY <1>1, <1>4, ReceivedSame
<1>8. Acked(r, d) /\ r.state \notin AfterFin /\ ~r.failed /\ r.out = {}
  BY <1>1, <1>4 DEF Acked, AfterFin, SameAcked, SameSent
<1>9. ~c.send_fin /\ c.state \in Opening
  BY <1>1, <1>2 DEF SendOpening, Opening
<1>10. Grows(c, r)
  BY <1>1, <1>4, <1>9 DEF Grows, SameRcv, SameSent, Connections
<1>11. SameApp(c, r)
  BY <1>4, <1>9 DEF SameApp, Handshake, Synchronized
<1>12. After(c, d, r)
  BY <1>4, <1>5, <1>6, <1>7, <1>8, <1>10 DEF After
<1>13. p.c = c /\ p.ev = "OPEN_PASSIVE"
  BY DEF Outcome
<1> HIDE DEF p
<1>14. LET x == performStateTransition(p.c, p.ev)
       IN  After(conn[e], conn[Peer(e)], x) /\ SameApp(conn[e], x)
  BY <1>11, <1>12, <1>13 DEF c, d, r
<1> QED  BY <1>2, <1>14, FinishStep

LEMMA OpenActiveStep ==
  ASSUME IndInv, NEW e \in Ends, process_OPEN_ACTIVE(e)
  PROVE  IndInv' /\ Advances(e)
<1> DEFINE c == conn[e]
           d == conn[Peer(e)]
           y == [c EXCEPT !.active = TRUE]
           n == selectInitialSeqNum(y)
           k == sendSyn(n)
           u == startSynRexmitTimer(k)
           t == schedule(u, "CONN-ESTAB")
           p == Outcome(t, "OPEN_ACTIVE")
           r == performStateTransition(t, "OPEN_ACTIVE")
<1>1. /\ AtRest(c, d) /\ c \in Connections /\ SendOrder(c) /\ SendOpening(c) /\ RcvOpening(c)
      /\ TimersOK(c) /\ ~c.failed /\ c.out = {} /\ Received(d, c) /\ Delivered(d, c)
  BY RestBetweenEvents DEF AtRest, LocalOK
<1>2. /\ c.state = "INIT" /\ Finish(e, p, net) /\ AppUnchanged /\ UNCHANGED faults
  BY DEF process_OPEN_ACTIVE, MayOpen
<1>3. /\ ~c.send_fin /\ c.snd_max <= c.iss + 1 /\ ~c.fin_ack_rcvd
      /\ "2MSL" \notin c.timers /\ "REXMIT" \notin c.timers
      /\ c.rcv_nxt = 0 /\ c.rcvQueue = {} /\ c.delivered = 0 /\ ~c.fin_rcvd
  BY <1>1, <1>2 DEF SendOrder, SendOpening, RcvOpening, TimersOK, Opening, Synchronized
<1>4. Plans # {}
  BY DEF IndInv, TypeOK
<1> HIDE DEF c, d
<1>5. y = [c EXCEPT !.active = TRUE]
  OBVIOUS
<1> HIDE DEF y
<1>6. y \in Connections
  BY <1>1, <1>5 DEF Connections
<1>7. /\ SameRcv(c, y) /\ y.iss = c.iss /\ y.state = c.state /\ y.active
      /\ y.send_fin = c.send_fin /\ y.fin_ack_rcvd = c.fin_ack_rcvd
      /\ y.timers = c.timers /\ y.failed = c.failed /\ y.out = c.out
  BY <1>1, <1>5 DEF SameRcv, Connections
<1>8. /\ n \in Connections /\ SameRcv(y, n)
      /\ n.iss = y.iss + IssStep /\ n.snd_una = n.iss /\ n.snd_nxt = n.iss
      /\ n.snd_max = n.iss /\ n.begin = n.iss + 1 /\ n.end = n.iss + 1
      /\ n.fin_ack_rcvd = y.fin_ack_rcvd /\ n.state = y.state
      /\ n.active = y.active /\ n.send_fin = y.send_fin
      /\ n.timers = y.timers /\ n.failed = y.failed /\ n.out = y.out
  BY <1>6, SelectOK
<1> HIDE DEF n
<1>9. SynOut(n, k, Segment({"SYN"}, n.iss, 0, 0))
  BY <1>8, SendSynOK
<1> HIDE DEF k
<1>10. /\ u \in Connections /\ t \in Connections
       /\ SameAcked(k, u) /\ SameRcv(k, u) /\ SameSent(k, u)
       /\ u.state = k.state /\ u.active = k.active /\ u.iss = k.iss
       /\ u.end = k.end /\ u.send_fin = k.send_fin
       /\ u.timers = k.timers \cup {"SYN-REXMIT"}
       /\ TimersOnly(u, t) /\ t.timers = u.timers \cup {"CONN-ESTAB"}
  <2>1. k \in Connections
    BY <1>9 DEF SynOut
  <2> QED  BY <2>1, SynTimersOK
<1> HIDE DEF u, t
<1>11. /\ t.state = "INIT" /\ t.active /\ ~t.send_fin /\ ~t.fin_ack_rcvd
       /\ t.iss = c.iss + IssStep /\ t.snd_una = t.iss
       /\ t.snd_nxt = t.iss + 1 /\ t.snd_max = t.iss + 1
       /\ t.begin = t.iss + 1 /\ t.end = t.iss + 1 /\ ~t.failed
       /\ t.iss = n.iss
  BY <1>1, <1>2, <1>3, <1>7, <1>8, <1>9, <1>10
     DEF SynOut, SameEnd, SameAcked, SameSent, TimersOnly
<1>12. SameRcv(c, t) /\ t.timers = c.timers \cup {"SYN-REXMIT", "CONN-ESTAB"}
  BY <1>7, <1>8, <1>9, <1>10 DEF SynOut, SameRcv, TimersOnly
<1>13. t.out = {Segment({"SYN"}, t.iss, 0, 0)}
  <2>1. n.out = {} /\ t.out = k.out
    BY <1>1, <1>7, <1>8, <1>10 DEF SameSent, TimersOnly
  <2> QED  BY <1>9, <1>11, <2>1 DEF SynOut
<1>14. Goto(t.state, "OPEN_ACTIVE", t.active) = "SYN_SENT"
  BY <1>11 DEF Goto
<1>15. /\ r \in Connections /\ r.state = "SYN_SENT"
       /\ SameAcked(t, r) /\ SameRcv(t, r) /\ SameSent(t, r)
       /\ r.active = t.active /\ r.iss = t.iss /\ r.end = t.end
       /\ r.send_fin = t.send_fin
       /\ r.timers = t.timers \ Cancelled("SYN_SENT")
  <2>1. t \in Connections /\ t.state = "INIT"
    BY <1>10, <1>11
  <2> QED  BY <1>14, <2>1, TransitionOK
<1> HIDE DEF r
<1>16. SameRcv(c, r)
  BY <1>12, <1>15 DEF SameRcv
<1>17. Received(d, r) /\ Delivered(d, r)
  BY <1>1, <1>16, ReceivedSame
<1>18. InHandshake(c, d, r)
  <2>1. "CONN-ESTAB" \in r.timers /\ "REXMIT" \notin r.timers /\ "2MSL" \notin r.timers
    <3>1. Cancelled("SYN_SENT") = {}
      BY DEF Cancelled
    <3> QED  BY <1>3, <1>12, <1>15, <3>1
  <2>2. r.out = {Segment({"SYN"}, r.iss, 0, 0)}
    BY <1>13, <1>15 DEF SameSent
  <2>3. /\ r.snd_una = r.iss /\ r.snd_nxt = r.iss + 1 /\ r.snd_max = r.iss + 1
        /\ r.begin = r.iss + 1 /\ r.begin <= r.end /\ ~r.send_fin /\ ~r.fin_ack_rcvd
        /\ ~r.failed /\ r.end = r.iss + 1 /\ r.active
    BY <1>11, <1>15 DEF SameAcked, SameSent, Connections
  <2>4. c.snd_max < r.iss /\ c.snd_max <= r.snd_max /\ c.rcv_nxt <= r.rcv_nxt
    BY <1>1, <1>3, <1>4, <1>11, <1>15, <1>16, LargeStep DEF SameSent, SameRcv, Connections
  <2>5. r.rcv_nxt = 0 /\ r.rcvQueue = {} /\ r.delivered = 0 /\ ~r.fin_rcvd
    BY <1>3, <1>16 DEF SameRcv
  <2> QED
    BY <1>2, <1>15, <1>17, <2>1, <2>2, <2>3, <2>4, <2>5 DEF InHandshake, Handshake
<1>19. After(c, d, r) /\ SameApp(c, r)
  BY <1>1, <1>18, HandshakeAfter
<1>20. p.c = t /\ p.ev = "OPEN_ACTIVE"
  BY DEF Outcome
<1> HIDE DEF p
<1>21. LET x == performStateTransition(p.c, p.ev)
       IN  After(conn[e], conn[Peer(e)], x) /\ SameApp(conn[e], x)
  BY <1>19, <1>20 DEF c, d, r
<1> QED  BY <1>2, <1>21, FinishStep

\* An event at e in which its application gives a command.
LEMMA CommandStep ==
  ASSUME IndInv, NEW e \in Ends, NEW p, Finish(e, p, net),
         NEW r, r = performStateTransition(p.c, p.ev), After(conn[e], conn[Peer(e)], r),
         SameRcv(conn[e], r),
         plan' = plan, faults' = faults,
         toSend' \in [Ends -> Nat], toSend'[Peer(e)] = toSend[Peer(e)],
         closing' \subseteq Ends, Peer(e) \in closing' <=> Peer(e) \in closing,
         r.send_fin => e \in closing',
         e \in closing' => toSend'[e] = 0,
         toSend'[e] <= plan[e].sends,
         r.end + toSend'[e] <= r.iss + 1 + plan[e].sends,
         r.state \in Opening => r.active \/ toSend'[e] = plan[e].sends,
         r.state \in Handshake \cup Synchronized \/ r.send_fin
           => r.end + toSend'[e] = r.iss + 1 + plan[e].sends
  PROVE  IndInv' /\ Advances(e) /\ SameRcv(conn[e], conn[e]')
<1>1. /\ conn' = [conn EXCEPT ![e] = [r EXCEPT !.out = {}]]
      /\ net' = net \cup {[to |-> Peer(e), seg |-> s] : s \in r.out}
  BY DEF Finish
<1>2. r \in Connections
  BY DEF After
<1>3. /\ conn'[e].state = r.state /\ conn'[e].active = r.active
      /\ conn'[e].iss = r.iss /\ conn'[e].end = r.end
      /\ conn'[e].send_fin = r.send_fin
      /\ conn'[Peer(e)] = conn[Peer(e)]
  BY <1>1, <1>2, OutCleared
<1>4. AppOK(Peer(e))'
  BY <1>3, PeerAppKept
<1>5. AppOK(e)'
  <2>1. ~plan[e].early
    BY DEF IndInv, AppOK
  <2> QED  BY <1>3, <2>1 DEF AppOK
<1>6. faults' \in 0 .. MaxFaults[plan]
  BY FaultsOK
<1>7. net \in SUBSET net
  OBVIOUS
<1>8. SameRcv(conn[e], conn[e]')
  <2>1. conn'[e] = [r EXCEPT !.out = {}]
    BY <1>1 DEF IndInv, TypeOK
  <2> QED  BY <1>2, <2>1 DEF SameRcv, Connections
<1> QED  BY <1>1, <1>4, <1>5, <1>6, <1>7, <1>8, EventStep

\* SEND in a synchronized state: what the window allows is sent at once.
LEMMA SendNow ==
  ASSUME NEW b, NEW d, AtRest(b, d), b.state \in {"ESTABLISHED", "CLOSE_WAIT"}
  PROVE  LET r == sendData(b)
         IN  /\ After(b, d, r) /\ SameRcv(b, r) /\ r.state = b.state
             /\ r.active = b.active /\ r.iss = b.iss /\ r.end = b.end
             /\ r.send_fin = b.send_fin
<1> DEFINE r == sendData(b)
<1>1. b.state \in Synchronized /\ b \in Connections
  BY DEF Synchronized, AtRest
<1>2. Mid(b, d, b) /\ Fits(d, b, "IGNORE") /\ RexmitOK(b)
  BY <1>1, MidStart
<1>3. Sending(b, r, b.rcv_nxt) /\ RexmitOK(r)
  BY <1>2, SendingData DEF Mid
<1> HIDE DEF r
<1>4. Mid(b, d, r) /\ Fits(d, r, "IGNORE") /\ r.state = b.state
  BY <1>1, <1>2, <1>3, MidSending DEF Sending, SameEnd
<1>5. MidBase(b, d)
  BY <1>1 DEF MidBase, AtRest, LocalOK, AfterHandshake, Synchronized, Opening
<1>6. performStateTransition(r, "IGNORE") = r
  BY IgnoreOK
<1>7. /\ After(b, d, r)
      /\ r.active = b.active /\ r.iss = b.iss /\ r.end = b.end
      /\ r.send_fin = b.send_fin
  BY <1>3, <1>4, <1>5, <1>6, MidAfter
<1>8. SameRcv(b, r)
  BY <1>3 DEF Sending
<1> QED  BY <1>4, <1>7, <1>8 DEF r

\* A unit is added to the send queue.
LEMMA QueueOK ==
  ASSUME NEW c, NEW d, AtRest(c, d), ~c.send_fin, 
         c.state \in {"SYN_SENT", "ESTABLISHED", "CLOSE_WAIT"}
  PROVE  LET b == [c EXCEPT !.end = @ + 1]
         IN  /\ AtRest(b, d) /\ b.end = c.end + 1 /\ b.out = {}
             /\ b.state = c.state /\ b.active = c.active /\ b.iss = c.iss
             /\ b.send_fin = c.send_fin
             /\ b.snd_max = c.snd_max /\ SameRcv(c, b)
<1> DEFINE b == [c EXCEPT !.end = c.end + 1]
<1>1. /\ c \in Connections /\ d \in Connections /\ SendOrder(c) /\ SendOpening(c)
      /\ RcvOpening(c) /\ AfterHandshake(c) /\ IsFiniteSet(c.rcvQueue)
      /\ TimersOK(c) /\ ~c.failed /\ c.out = {} /\ Received(d, c) /\ Delivered(d, c)
      /\ Acked(c, d) /\ (c.state \in AfterFin => FinTaken(d, c)) /\ LocalOK(d)
  BY DEF AtRest, LocalOK
<1>2. b = [c EXCEPT !.end = c.end + 1] /\ c.end + 1 \in Nat
  BY <1>1 DEF Connections
<1> HIDE DEF b
<1>3. b \in Connections
  BY <1>1, <1>2 DEF Connections
<1>4. /\ b.end = c.end + 1 /\ b.state = c.state /\ b.active = c.active
      /\ b.iss = c.iss /\ b.send_fin = c.send_fin /\ b.snd_fin_seq = c.snd_fin_seq
      /\ b.timers = c.timers
      /\ SameAcked(c, b) /\ SameRcv(c, b) /\ SameSent(c, b)
  BY <1>1, <1>2 DEF Connections, SameAcked, SameRcv, SameSent
<1>5. SendOrder(b) /\ IsFiniteSet(b.rcvQueue)
  BY <1>1, <1>3, <1>4 DEF SendOrder, SameAcked, SameRcv, SameSent, Connections
<1>6. SendOpening(b)
  BY <1>1, <1>3, <1>4 DEF SendOpening, SameAcked, SameSent, Connections
<1>7. RcvOpening(b)
  BY <1>1, <1>4 DEF RcvOpening, SameRcv
<1>8. AfterHandshake(b)
  BY <1>1, <1>3, <1>4
     DEF AfterHandshake, SendOrder, Min2, SameAcked, SameRcv, SameSent, Connections
<1>9. TimersOK(b)
  BY <1>1, <1>4 DEF TimersOK, SameAcked, SameSent
<1>10. Received(d, b) /\ Delivered(d, b)
  BY <1>1, <1>4, ReceivedSame
<1>11. Acked(b, d) /\ (b.state \in AfterFin => FinTaken(d, b)) /\ ~b.failed /\ b.out = {}
  BY <1>1, <1>4 DEF Acked, FinTaken, SameAcked, SameRcv, SameSent
<1>12. AtRest(b, d)
  BY <1>1, <1>3, <1>5, <1>6, <1>7, <1>8, <1>9, <1>10, <1>11 DEF AtRest, LocalOK
<1> QED  BY <1>4, <1>11, <1>12 DEF b, SameSent

LEMMA SendStep ==
  ASSUME IndInv, NEW e \in Ends, process_SEND(e)
  PROVE  IndInv' /\ Advances(e) /\ SameRcv(conn[e], conn[e]')
<1> DEFINE c == conn[e]
           d == conn[Peer(e)]
           b == [c EXCEPT !.end = @ + 1]
           r == IF b.state \in {"ESTABLISHED", "CLOSE_WAIT"} THEN sendData(b) ELSE b
           p == Outcome(r, "SEND")
<1>1. AtRest(c, d) /\ c \in Connections /\ AppOK(e) /\ RcvOpening(c)
  BY RestBetweenEvents DEF IndInv, AtRest, LocalOK
<1>2. /\ toSend[e] > 0 /\ e \notin closing /\ Finish(e, p, net)
      /\ toSend' = [toSend EXCEPT ![e] = @ - 1]
      /\ plan' = plan /\ closing' = closing /\ faults' = faults
  BY DEF process_SEND, MaySend
<1>3. toSend \in [Ends -> Nat] /\ closing \subseteq Ends /\ plan \in Plans
  BY DEF IndInv, TypeOK
<1>4. /\ c.state \in {"SYN_SENT", "ESTABLISHED", "CLOSE_WAIT"} /\ ~c.send_fin
      /\ c.end + toSend[e] = c.iss + 1 + plan[e].sends
  <2>1. c.state \in {"SYN_SENT", "ESTABLISHED", "CLOSE_WAIT"}
    BY <1>1 DEF process_SEND, MaySend, CommandStates, AppOK
  <2> QED  BY <1>1, <1>2, <2>1 DEF AppOK, Handshake, Synchronized
<1>5. toSend' \in [Ends -> Nat] /\ toSend'[e] = toSend[e] - 1
      /\ toSend'[Peer(e)] = toSend[Peer(e)]
  BY <1>2, <1>3, PeerFacts
<1> HIDE DEF c, d
<1>6. /\ AtRest(b, d) /\ b.end = c.end + 1 /\ b.out = {}
      /\ b.state = c.state /\ b.active = c.active /\ b.iss = c.iss
      /\ b.send_fin = c.send_fin /\ b.snd_max = c.snd_max /\ SameRcv(c, b)
  BY <1>1, <1>4, QueueOK
<1> HIDE DEF b
<1>7. /\ After(b, d, r) /\ SameRcv(b, r) /\ r.state = b.state /\ r.active = b.active
      /\ r.iss = b.iss /\ r.end = b.end /\ r.send_fin = b.send_fin
  <2>1. CASE b.state \in {"ESTABLISHED", "CLOSE_WAIT"}
    <3>1. r = sendData(b)
      BY <2>1
    <3> QED  BY <1>6, <2>1, <3>1, SendNow
  <2>2. CASE b.state \notin {"ESTABLISHED", "CLOSE_WAIT"}
    <3>1. r = b
      BY <2>2
    <3>2. SameRcv(b, b)
      BY DEF SameRcv
    <3> QED  BY <1>6, <3>1, <3>2, OutOnlySelf, QuietAfter
  <2> QED  BY <2>1, <2>2
<1> HIDE DEF r
<1>8. After(c, d, r) /\ SameRcv(c, r)
  <2>1. b \in Connections /\ c.end <= b.end
    BY <1>1, <1>6 DEF AtRest, Connections
  <2>2. SameRcv(c, r)
    BY <1>6, <1>7 DEF SameRcv
  <2> QED  BY <1>1, <1>4, <1>6, <1>7, <2>1, <2>2, AfterFrom
<1>9. performStateTransition(p.c, p.ev) = r
  BY IgnoreOK DEF Outcome
<1>10. /\ ~r.send_fin /\ (r.state \in Opening => r.active)
  BY <1>1, <1>4, <1>6, <1>7 DEF RcvOpening, Opening
<1>11. r.end + toSend'[e] = r.iss + 1 + plan[e].sends
  <2>1. plan[e].sends \in Nat /\ c.end \in Nat /\ c.iss \in Nat
    BY <1>1, <1>3, TCPAssumption DEF Plan, Connections
  <2> QED  BY <1>2, <1>3, <1>4, <1>5, <1>6, <1>7, <2>1
<1>12. r.end + toSend'[e] <= r.iss + 1 + plan[e].sends /\ toSend'[e] <= plan[e].sends
  <2>1. r.end \in Nat /\ toSend'[e] \in Nat
    BY <1>5, <1>7 DEF After, Connections
  <2>2. toSend[e] <= plan[e].sends /\ plan[e].sends \in Nat /\ toSend[e] \in Nat
    BY <1>1, <1>3, TCPAssumption DEF AppOK, Plan
  <2> QED  BY <1>5, <1>11, <2>1, <2>2
<1> HIDE DEF p
<1> QED
  BY <1>2, <1>3, <1>5, <1>8, <1>9, <1>10, <1>11, <1>12, CommandStep DEF c, d

\* What MidAfter says, for an event that starts from a connection b whose FIN has
\* just been queued.
LEMMA FinQueued ==
  ASSUME NEW c, NEW d, AtRest(c, d), ~c.send_fin, c.state \in {"ESTABLISHED", "CLOSE_WAIT"}
  PROVE  LET b == [c EXCEPT !.send_fin = TRUE, !.snd_fin_seq = c.end]
         IN  /\ b \in Connections /\ b.send_fin /\ b.snd_fin_seq = c.end
             /\ b.state = c.state /\ b.active = c.active /\ b.iss = c.iss
             /\ b.end = c.end /\ b.timers = c.timers
             /\ b.syn_rexmit_count = c.syn_rexmit_count
             /\ SameAcked(c, b) /\ SameRcv(c, b) /\ SameSent(c, b)
<1> DEFINE b == [c EXCEPT !.send_fin = TRUE, !.snd_fin_seq = c.end]
<1>1. c \in Connections /\ c.end \in Nat
  BY DEF AtRest, Connections
<1>2. b = [c EXCEPT !.send_fin = TRUE, !.snd_fin_seq = c.end]
  OBVIOUS
<1> HIDE DEF b
<1>3. b \in Connections
  BY <1>1, <1>2 DEF Connections
<1>4. /\ b.send_fin /\ b.snd_fin_seq = c.end
      /\ b.state = c.state /\ b.active = c.active /\ b.iss = c.iss
      /\ b.end = c.end /\ b.timers = c.timers
      /\ b.syn_rexmit_count = c.syn_rexmit_count
      /\ SameAcked(c, b) /\ SameRcv(c, b) /\ SameSent(c, b)
  BY <1>1, <1>2 DEF Connections, SameAcked, SameRcv, SameSent
<1> QED  BY <1>3, <1>4 DEF b

\* CLOSE with data still to be sent: the FIN will go with the last of it.
LEMMA CloseLater ==
  ASSUME NEW c, NEW d, AtRest(c, d), ~c.send_fin,
         c.state \in {"ESTABLISHED", "CLOSE_WAIT"}, c.snd_max # c.end
  PROVE  LET b == [c EXCEPT !.send_fin = TRUE, !.snd_fin_seq = c.end]
         IN  /\ After(c, d, b) /\ SameRcv(c, b) /\ b.state \in Synchronized
             /\ b.end = c.end /\ b.iss = c.iss
<1> DEFINE b == [c EXCEPT !.send_fin = TRUE, !.snd_fin_seq = c.end]
<1>1. /\ c \in Connections /\ d \in Connections /\ SendOrder(c) /\ AfterHandshake(c)
      /\ IsFiniteSet(c.rcvQueue) /\ LocalOK(d)
      /\ TimersOK(c) /\ ~c.failed /\ c.out = {} /\ Received(d, c) /\ Delivered(d, c)
      /\ Acked(c, d) /\ (c.state \in AfterFin => FinTaken(d, c))
  BY DEF AtRest, LocalOK
<1>2. /\ b \in Connections /\ b.send_fin /\ b.snd_fin_seq = c.end
      /\ b.state = c.state /\ b.active = c.active /\ b.iss = c.iss
      /\ b.end = c.end /\ b.timers = c.timers
      /\ SameAcked(c, b) /\ SameRcv(c, b) /\ SameSent(c, b)
  BY FinQueued
<1> HIDE DEF b
<1>3. SendOrder(b) /\ IsFiniteSet(b.rcvQueue)
  <2>1. c.iss < c.snd_una
    BY <1>1 DEF AfterHandshake, Synchronized
  <2> QED  BY <1>1, <1>2, <2>1 DEF SendOrder, SameAcked, SameRcv, SameSent, Connections
<1>4. SendOpening(b) /\ RcvOpening(b)
  BY <1>2 DEF SendOpening, RcvOpening, Opening
<1>5. AfterHandshake(b) /\ TimersOK(b)
  BY <1>1, <1>2 DEF AfterHandshake, TimersOK, SameAcked, SameRcv, SameSent
<1>6. Received(d, b) /\ Delivered(d, b)
  BY <1>1, <1>2, ReceivedSame
<1>7. Acked(b, d) /\ (b.state \in AfterFin => FinTaken(d, b)) /\ ~b.failed /\ b.out = {}
  BY <1>1, <1>2 DEF Acked, FinTaken, SameAcked, SameRcv, SameSent
<1>8. AtRest(b, d)
  BY <1>1, <1>2, <1>3, <1>4, <1>5, <1>6, <1>7 DEF AtRest, LocalOK
<1>9. After(b, d, b)
  BY <1>7, <1>8, OutOnlySelf, QuietAfter
<1>10. After(c, d, b)
  <2>1. b.snd_max = c.snd_max /\ c.end <= b.end
    BY <1>1, <1>2 DEF SameSent, Connections
  <2> QED  BY <1>1, <1>2, <1>9, <2>1, AfterFrom
<1> QED  BY <1>2, <1>10 DEF b, Synchronized

\* CLOSE with nothing to be sent: the FIN goes out at once.
LEMMA CloseAtOnce ==
  ASSUME NEW c, NEW d, AtRest(c, d), ~c.send_fin,
         c.state \in {"ESTABLISHED", "CLOSE_WAIT"}, c.snd_max = c.end
  PROVE  LET b == [c EXCEPT !.send_fin = TRUE, !.snd_fin_seq = c.end]
             g == startRexmitTimer(sendFin([b EXCEPT !.snd_nxt = c.snd_max]))
             r == performStateTransition(g, "CLOSE")
         IN  /\ After(c, d, r) /\ SameRcv(c, r) /\ r.state \in Synchronized
             /\ r.end = c.end /\ r.iss = c.iss
<1> DEFINE b == [c EXCEPT !.send_fin = TRUE, !.snd_fin_seq = c.end]
           n == [b EXCEPT !.snd_nxt = c.snd_max]
           f == sendFin(n)
           g == startRexmitTimer(f)
           r == performStateTransition(g, "CLOSE")
<1>1. /\ c \in Connections /\ d \in Connections /\ SendOrder(c) /\ AfterHandshake(c)
      /\ IsFiniteSet(c.rcvQueue) /\ SendOrder(d)
      /\ TimersOK(c) /\ ~c.failed /\ c.out = {} /\ Received(d, c) /\ Delivered(d, c)
      /\ Acked(c, d) /\ (c.state \in AfterFin => FinTaken(d, c))
  BY DEF AtRest, LocalOK
<1>2. c.iss < c.snd_una /\ c.begin = Min2(c.snd_una, c.end) /\ c.rcv_nxt # 0
  BY <1>1 DEF AfterHandshake, Synchronized
<1>3. /\ b \in Connections /\ b.send_fin /\ b.snd_fin_seq = c.end
      /\ b.state = c.state /\ b.active = c.active /\ b.iss = c.iss
      /\ b.end = c.end /\ b.timers = c.timers
      /\ b.syn_rexmit_count = c.syn_rexmit_count
      /\ SameAcked(c, b) /\ SameRcv(c, b) /\ SameSent(c, b)
  BY FinQueued
<1> HIDE DEF b
<1>4. n = [b EXCEPT !.snd_nxt = c.snd_max] /\ c.snd_max \in Nat
  BY <1>1 DEF Connections
<1> HIDE DEF n
<1>5. /\ n \in Connections /\ SameEnd(b, n) /\ SameAcked(b, n) /\ SameRcv(b, n)
      /\ n.snd_nxt = c.end /\ n.snd_max = c.end /\ n.timers = b.timers
      /\ n.failed = b.failed /\ n.out = b.out
  <2>1. n \in Connections
    BY <1>3, <1>4 DEF Connections
  <2>2. /\ SameEnd(b, n) /\ SameAcked(b, n) /\ SameRcv(b, n)
        /\ n.snd_nxt = c.snd_max /\ n.snd_max = b.snd_max /\ n.timers = b.timers
        /\ n.failed = b.failed /\ n.out = b.out
    BY <1>3, <1>4 DEF Connections, SameEnd, SameAcked, SameRcv
  <2> QED  BY <1>3, <2>1, <2>2 DEF SameSent
<1>6. /\ f \in Connections /\ SameEnd(n, f) /\ SameAcked(n, f) /\ SameRcv(n, f)
      /\ f.snd_nxt = n.snd_nxt + 1 /\ f.snd_max = n.snd_nxt + 1
      /\ f.timers = n.timers /\ f.failed = n.failed
      /\ f.out = n.out \cup {Segment({"FIN", "ACK"}, n.snd_nxt, n.rcv_nxt, 0)}
  BY <1>5, SendFinOK
<1> HIDE DEF f
<1>7. TimersOnly(f, g) /\ g.timers = f.timers \cup {"REXMIT"}
  BY <1>6, StartRexmit
<1> HIDE DEF g
<1>8. /\ g \in Connections /\ SameEnd(b, g) /\ SameAcked(b, g) /\ SameRcv(b, g)
      /\ g.snd_nxt = c.end + 1 /\ g.snd_max = c.end + 1
      /\ g.timers = c.timers \cup {"REXMIT"} /\ ~g.failed
  BY <1>1, <1>3, <1>5, <1>6, <1>7
     DEF TimersOnly, SameEnd, SameAcked, SameRcv, SameSent
<1>9. g.out = {Segment({"FIN", "ACK"}, g.end, g.rcv_nxt, 0)}
  <2>1. n.out = {} /\ g.out = f.out /\ n.snd_nxt = g.end /\ n.rcv_nxt = g.rcv_nxt
    BY <1>1, <1>3, <1>5, <1>6, <1>7 DEF TimersOnly, SameEnd, SameRcv, SameSent
  <2> QED  BY <1>6, <2>1
<1>10. /\ g.iss = c.iss /\ g.snd_una = c.snd_una /\ g.begin = c.begin /\ g.end = c.end
       /\ g.send_fin /\ g.snd_fin_seq = c.end /\ g.fin_ack_rcvd = c.fin_ack_rcvd
       /\ g.state = c.state /\ g.active = c.active
       /\ g.rcv_nxt = c.rcv_nxt /\ b.rcv_nxt = c.rcv_nxt /\ b.snd_max = c.end
       /\ g.irs = b.irs /\ g.rcvQueue = c.rcvQueue
  BY <1>3, <1>8 DEF SameEnd, SameAcked, SameRcv, SameSent
<1>11. SendReady(g)
  <2>1. SendOrder(g)
    BY <1>1, <1>2, <1>8, <1>10 DEF SendOrder, Connections
  <2> QED  BY <1>2, <1>8, <1>10, <2>1 DEF SendReady
<1>12. AllSaid(g, b.rcv_nxt)
  <2>1. b.rcv_nxt <= g.rcv_nxt
    BY <1>1, <1>10 DEF Connections
  <2>2. Says(g, b.rcv_nxt, Segment({"FIN", "ACK"}, g.end, g.rcv_nxt, 0))
    BY <1>8, <1>10, <2>1, SaysFin
  <2> QED  BY <1>9, <2>1, <2>2 DEF AllSaid
<1>13. /\ Received(d, b) /\ Delivered(d, b) /\ Received(d, g) /\ Delivered(d, g)
  BY <1>1, <1>3, <1>8, ReceivedSame
<1>14. Mid(b, d, g)
  <2>1. b.snd_max <= g.snd_max /\ g.snd_una <= d.rcv_nxt
    BY <1>1, <1>2, <1>8, <1>10 DEF Acked, Connections
  <2>2. g.timers \ {"REXMIT", "2MSL"} = b.timers \ {"REXMIT", "2MSL"}
    BY <1>3, <1>8
  <2>3. IsFiniteSet(g.rcvQueue)
    BY <1>1, <1>10
  <2> QED  BY <1>8, <1>10, <1>11, <1>12, <1>13, <2>1, <2>2, <2>3 DEF Mid
<1>15. RexmitOK(g)
  BY <1>1, <1>8, <1>10 DEF RexmitOK, SendOrder, Connections
<1>16. Fits(d, g, "CLOSE")
  <2>1. "2MSL" \notin g.timers
    BY <1>1, <1>8 DEF TimersOK
  <2>2. CASE c.state = "ESTABLISHED"
    <3>1. Goto(g.state, "CLOSE", g.active) = "FIN_WAIT_1"
      BY <1>10, <2>2 DEF Goto, OnAbort
    <3> QED  BY <2>1, <3>1 DEF Fits, Synchronized, AfterFin
  <2>3. CASE c.state = "CLOSE_WAIT"
    <3>1. Goto(g.state, "CLOSE", g.active) = "LAST_ACK"
      BY <1>10, <2>3 DEF Goto, OnAbort
    <3>2. FinTaken(d, g)
      BY <1>1, <1>10, <2>3 DEF FinTaken, AfterFin
    <3> QED  BY <2>1, <3>1, <3>2 DEF Fits, Synchronized
  <2> QED  BY <2>2, <2>3
<1>17. MidBase(b, d)
  <2>1. TimersOK(b)
    BY <1>1, <1>3 DEF TimersOK, SameAcked, SameSent
  <2> QED
    BY <1>1, <1>2, <1>3, <1>10, <1>13, <2>1 DEF MidBase, Synchronized, Opening
<1>18. /\ After(b, d, r) /\ r.state \in Synchronized /\ r.iss = b.iss /\ r.end = b.end
  BY <1>14, <1>15, <1>16, <1>17, MidAfter
<1>19. SameRcv(c, r)
  <2>1. SameRcv(g, r)
    BY <1>8, TransitionOK
  <2> HIDE DEF r
  <2> QED  BY <1>3, <1>8, <2>1 DEF SameRcv
<1> HIDE DEF r
<1>20. After(c, d, r)
  <2>1. b.snd_max = c.snd_max /\ c.end <= b.end
    BY <1>1, <1>3, <1>10 DEF Connections
  <2> QED  BY <1>1, <1>3, <1>10, <1>18, <2>1, AfterFrom
<1> QED  BY <1>3, <1>18, <1>20, <1>19 DEF r, g, f, n, b

LEMMA CloseStep ==
  ASSUME IndInv, NEW e \in Ends, process_CLOSE(e)
  PROVE  IndInv' /\ Advances(e) /\ SameRcv(conn[e], conn[e]')
<1> DEFINE c == conn[e]
           d == conn[Peer(e)]
           p == CloseNow(c)
           r == performStateTransition(p.c, p.ev)
           b == [c EXCEPT !.send_fin = TRUE, !.snd_fin_seq = c.end]
           g == startRexmitTimer(sendFin([b EXCEPT !.snd_nxt = c.snd_max]))
<1>1. AtRest(c, d) /\ c \in Connections /\ AppOK(e) /\ SendOpening(c)
  BY RestBetweenEvents DEF IndInv, AtRest, LocalOK
<1>2. /\ toSend[e] = 0 /\ e \notin closing /\ Finish(e, p, net)
      /\ closing' = closing \cup {e}
      /\ plan' = plan /\ toSend' = toSend /\ faults' = faults
  BY DEF process_CLOSE, MayClose
<1>3. toSend \in [Ends -> Nat] /\ closing \subseteq Ends /\ plan \in Plans
  BY DEF IndInv, TypeOK
<1>4. c.state \in {"LISTEN", "SYN_SENT", "ESTABLISHED", "CLOSE_WAIT"} /\ ~c.send_fin
  BY <1>1, <1>2 DEF process_CLOSE, MayClose, CommandStates, AppOK
<1>5. c.state \in {"ESTABLISHED", "CLOSE_WAIT"} =>
        c.end + toSend[e] = c.iss + 1 + plan[e].sends
  BY <1>1 DEF AppOK, Synchronized
<1>6. Peer(e) # e
  BY PeerFacts
<1> HIDE DEF c, d
<1>7. /\ After(c, d, r) /\ SameRcv(c, r)
      /\ \/ r.state = "CLOSED" /\ ~r.send_fin /\ r.end = c.end /\ r.iss = c.iss
         \/ /\ r.state \in Synchronized /\ r.end = c.end /\ r.iss = c.iss
            /\ c.state \in {"ESTABLISHED", "CLOSE_WAIT"}
  <2>1. CASE c.state \in {"LISTEN", "SYN_SENT"}
    <3>1. p = Outcome(c, "CLOSE")
      BY <2>1 DEF CloseNow
    <3>2. r = performStateTransition(c, "CLOSE")
      BY <3>1 DEF Outcome
    <3>3. Goto(c.state, "CLOSE", c.active) = "CLOSED" /\ c.state # "CLOSED"
      BY <2>1 DEF Goto, OnAbort
    <3> HIDE DEF r, p
    <3>4. After(c, d, r) /\ SameApp(c, r)
      BY <1>1, <3>2, <3>3, OutOnlySelf, EndsAsItIs
    <3>5. /\ r.state = "CLOSED" /\ SameRcv(c, r)
          /\ r.end = c.end /\ r.iss = c.iss /\ r.send_fin = c.send_fin
      BY <1>1, <3>2, <3>3, TransitionOK
    <3> QED  BY <1>4, <3>4, <3>5
  <2>2. CASE c.state \in {"ESTABLISHED", "CLOSE_WAIT"} /\ c.snd_max = c.end
    <3>1. p = Outcome(g, "CLOSE")
      BY <2>2 DEF CloseNow
    <3>2. r = performStateTransition(g, "CLOSE")
      BY <3>1 DEF Outcome
    <3> HIDE DEF r, p
    <3> QED  BY <1>1, <1>4, <2>2, <3>2, CloseAtOnce
  <2>3. CASE c.state \in {"ESTABLISHED", "CLOSE_WAIT"} /\ c.snd_max # c.end
    <3>1. p = Outcome(b, "IGNORE")
      BY <2>3 DEF CloseNow
    <3>2. r = b
      BY <3>1, IgnoreOK DEF Outcome
    <3> HIDE DEF r, p
    <3> QED  BY <1>1, <1>4, <2>3, <3>2, CloseLater
  <2> QED  BY <1>4, <2>1, <2>2, <2>3
<1> HIDE DEF p, r
<1>8. r.state \notin Opening
  BY <1>7 DEF Opening, Synchronized
<1>9. r.state \in Handshake \cup Synchronized \/ r.send_fin =>
        r.end + toSend[e] = r.iss + 1 + plan[e].sends
  BY <1>5, <1>7 DEF Handshake, Synchronized
<1>10. r.end + toSend[e] <= r.iss + 1 + plan[e].sends /\ toSend[e] <= plan[e].sends
  BY <1>1, <1>7 DEF AppOK, c
<1> QED
  BY <1>2, <1>3, <1>6, <1>7, <1>8, <1>9, <1>10, CommandStep DEF c, d, r

-----------------------------------------------------------------------------
(* The theorems *)

LEMMA InitOK ==
  ASSUME Patient, Init
  PROVE  IndInv
<1>1. /\ conn \in [Ends -> Connections]
      /\ \A e \in Ends : conn[e] = NewConnection
  <2>1. NewConnection \in Connections
    BY DEF NewConnection, Connections, States, Timers, Segments
  <2> QED  BY <2>1 DEF Init
<1>2. plan \in Plans /\ \A e \in Ends : plan[e] \in Plan /\ plan[e].sends \in Nat
  BY TCPAssumption DEF Init, Plan
<1>3. TypeOK
  <2>1. toSend \in [Ends -> Nat] /\ net = {} /\ closing = {} /\ faults = 0
    BY <1>2 DEF Init
  <2>2. MaxFaults[plan] \in Nat
    BY <1>2, TCPAssumption
  <2> QED  BY <1>1, <1>2, <2>1, <2>2 DEF TypeOK, Connections
<1>4. LocalOK(NewConnection) /\ TimersOK(NewConnection)
  <2>1. IsFiniteSet({})
    BY FS_EmptySet
  <2> QED
    BY <2>1 DEF LocalOK, TimersOK, NewConnection, SendOrder, SendOpening, RcvOpening,
                AfterHandshake, Opening, Handshake, Synchronized
<1>5. /\ Received(NewConnection, NewConnection) /\ Delivered(NewConnection, NewConnection)
      /\ Acked(NewConnection, NewConnection)
      /\ ~NewConnection.failed /\ NewConnection.out = {}
      /\ NewConnection.state \notin AfterFin
  BY DEF NewConnection, Received, Delivered, Acked, AfterFin
<1>6. ASSUME NEW e \in Ends
      PROVE  AppOK(e)
  <2>1. /\ conn[e].state = "INIT" /\ ~conn[e].send_fin
        /\ conn[e].end = 0 /\ conn[e].iss = 0
    BY <1>1 DEF NewConnection
  <2>2. ~plan[e].early /\ toSend[e] = plan[e].sends /\ closing = {}
    BY <1>2 DEF Patient, Init
  <2> QED  BY <1>2, <2>1, <2>2 DEF AppOK, Handshake, Synchronized
<1>7. \A e \in Ends : Peer(e) \in Ends
  BY PeerFacts
<1>8. net = {}
  BY DEF Init
<1> QED  BY <1>1, <1>3, <1>4, <1>5, <1>6, <1>7, <1>8 DEF IndInv

LEMMA StutterOK ==
  ASSUME IndInv, UNCHANGED vars
  PROVE  IndInv'
<1>1. \A e \in Ends : AppOK(e)'
  BY DEF vars, IndInv, AppOK
<1> QED  BY <1>1 DEF vars, IndInv, TypeOK

LEMMA NextOK ==
  ASSUME IndInv, [Next]_vars
  PROVE  IndInv'
<1>1. ASSUME NEW m \in net, Receive(m) \/ ReceiveCopy(m)
      PROVE  IndInv'
  BY <1>1, ReceiveStep
<1>2. ASSUME NEW m \in net, Lose(m)
      PROVE  IndInv'
  BY <1>2, LoseStep
<1>3. ASSUME NEW e \in Ends, process_OPEN_ACTIVE(e)
      PROVE  IndInv'
  BY <1>3, OpenActiveStep
<1>4. ASSUME NEW e \in Ends, process_OPEN_PASSIVE(e)
      PROVE  IndInv'
  BY <1>4, OpenPassiveStep
<1>5. ASSUME NEW e \in Ends, process_SEND(e)
      PROVE  IndInv'
  BY <1>5, SendStep
<1>6. ASSUME NEW e \in Ends, process_CLOSE(e)
      PROVE  IndInv'
  BY <1>6, CloseStep
<1>7. ASSUME NEW e \in Ends, process_ABORT(e) \/ RexmitGivesUp(e)
      PROVE  IndInv'
  BY <1>7, AbortStep
<1>8. ASSUME NEW e \in Ends, process_TIMEOUT_SYN_REXMIT(e)
      PROVE  IndInv'
  BY <1>8, SynRexmitStep
<1>9. ASSUME NEW e \in Ends, process_TIMEOUT_CONN_ESTAB(e)
      PROVE  IndInv'
  BY <1>9, ConnEstabStep
<1>10. ASSUME NEW e \in Ends, process_TIMEOUT_2MSL(e)
       PROVE  IndInv'
  BY <1>10, TwoMSLStep
<1>11. ASSUME NEW e \in Ends, processRexmitTimer(e)
       PROVE  IndInv'
  BY <1>11, RexmitStep
<1>12. CASE UNCHANGED vars
  BY <1>12, StutterOK
<1> QED
  BY <1>1, <1>2, <1>3, <1>4, <1>5, <1>6, <1>7, <1>8, <1>9, <1>10, <1>11, <1>12 DEF Next

\* The invariant of the whole connection: both ends, what each has of the other
\* and the segments in flight.
THEOREM Inductive ==
  ASSUME Patient
  PROVE  Spec => []IndInv
<1>1. Init => IndInv
  BY InitOK
<1>2. IndInv /\ [Next]_vars => IndInv'
  BY NextOK
<1> QED  BY <1>1, <1>2, PTL DEF Spec

\* The TCBs (TCPStateVariables) and the network are always well typed; above all,
\* the differences of sequence numbers the handlers compute are never negative.
THEOREM TypeCorrect ==
  ASSUME Patient
  PROVE  Spec => []TypeOK
<1>1. IndInv => TypeOK
  BY DEF IndInv
<1> QED  BY <1>1, Inductive, PTL

\* No ASSERT of TCPSendQueue and retransmitOneSegment() fails and no timer expires
\* in a state whose handler throws, whatever is lost, duplicated or reordered.
THEOREM NeverFails ==
  ASSUME Patient
  PROVE  Spec => []NoInternalError
<1>1. IndInv => NoInternalError
  BY DEF IndInv, NoInternalError
<1> QED  BY <1>1, Inductive, PTL

\* snd_una of one end, rcv_nxt of the other and snd_max of the first are in order
\* as soon as both ends are synchronized.
THEOREM NothingAckedUnreceived ==
  ASSUME Patient
  PROVE  Spec => []AckedIsReceived
<1>1. ASSUME IndInv PROVE AckedIsReceived
  <2>1. ASSUME NEW e \in Ends, conn[e].state \in Synchronized
        PROVE  /\ conn[e].snd_una <= conn[Peer(e)].rcv_nxt
               /\ conn[Peer(e)].rcv_nxt <= conn[e].snd_max
    <3>1. conn[e].iss < conn[e].snd_una
      BY <1>1, <2>1 DEF IndInv, LocalOK, AfterHandshake
    <3> QED  BY <1>1, <3>1 DEF IndInv, Acked, Received
  <2> QED  BY <2>1 DEF AckedIsReceived
<1> QED  BY <1>1, Inductive, PTL

\* When an end learns that its FIN is acknowledged, the other application has been
\* given all it sent.
THEOREM NothingLostByClose ==
  ASSUME Patient
  PROVE  Spec => []CloseLosesNothing
<1>1. ASSUME IndInv PROVE CloseLosesNothing
  <2>1. ASSUME NEW e \in Ends, conn[e].fin_ack_rcvd
        PROVE  conn[Peer(e)].delivered = plan[e].sends
    <3> DEFINE c == conn[e]
               d == conn[Peer(e)]
    <3>1. /\ c \in Connections /\ d \in Connections
          /\ SendOrder(c) /\ Acked(c, d) /\ Received(c, d) /\ Delivered(c, d) /\ AppOK(e)
      BY <1>1, RestBetweenEvents DEF IndInv, AtRest, LocalOK
    <3>2. c.send_fin /\ c.snd_una = c.end + 1 /\ c.iss < c.end /\ c.snd_max = c.end + 1
      BY <2>1, <3>1 DEF SendOrder, Connections
    <3>3. toSend[e] = 0 /\ c.end = c.iss + 1 + plan[e].sends /\ plan[e].sends \in Nat
      <4>1. c.end + 0 = c.iss + 1 + plan[e].sends /\ toSend[e] = 0
        BY <3>1, <3>2 DEF AppOK
      <4>2. plan[e].sends \in Nat
        BY <1>1, TCPAssumption DEF IndInv, TypeOK, Plan
      <4> QED  BY <3>1, <4>1, <4>2 DEF Connections
    <3> HIDE DEF c, d
    <3>4. d.rcv_nxt = c.end + 1 /\ d.rcv_nxt > c.iss /\ d.rcv_nxt # 0
      BY <3>1, <3>2 DEF Acked, Received, Connections
    <3>5. d.irs = c.iss
      BY <3>1, <3>4 DEF Received, Connections
    <3>6. d.irs + 1 + d.delivered = c.end
      BY <3>1, <3>2, <3>4 DEF Delivered, FinTaken
    <3> QED  BY <3>1, <3>3, <3>5, <3>6 DEF Connections, c, d
  <2> QED  BY <2>1 DEF CloseLosesNothing
<1> QED  BY <1>1, Inductive, PTL

\* An end that waits for the network always has the timer that ends its wait.
THEOREM NeverWithoutTimer ==
  ASSUME Patient
  PROVE  Spec => []AlwaysATimer
<1>1. ASSUME IndInv PROVE AlwaysATimer
  <2>1. \A e \in Ends : TimersOK(conn[e])
    BY <1>1 DEF IndInv
  <2> QED  BY <2>1 DEF AlwaysATimer, TimersOK, Handshake
<1> QED  BY <1>1, Inductive, PTL

-----------------------------------------------------------------------------
(* The byte streams *)

\* e's peer has seen the end of e's stream.
Ended(e) ==
  conn[Peer(e)].rcv_nxt > conn[Peer(e)].irs + 1 + conn[Peer(e)].delivered

\* What has been given to the reader is a part of what was written, and all of
\* it once the FIN is taken.
StreamOK(e) ==
  /\ conn[Peer(e)].delivered \in Nat
  /\ plan[e].sends \in Nat /\ toSend[e] \in Nat
  /\ conn[Peer(e)].delivered <= plan[e].sends - toSend[e]
  /\ Ended(e) => /\ e \in closing
                 /\ conn[Peer(e)].delivered = plan[e].sends - toSend[e]

StreamInv == IndInv /\ \A e \in Ends : StreamOK(e)

LEMMA StreamFacts ==
  ASSUME IndInv, NEW e \in Ends
  PROVE  StreamOK(e)
<1> DEFINE c == conn[e]
           d == conn[Peer(e)]
<1>1. /\ c \in Connections /\ d \in Connections /\ SendOrder(c)
      /\ Received(c, d) /\ Delivered(c, d) /\ AppOK(e)
  BY RestBetweenEvents DEF IndInv, AtRest, LocalOK
<1>2. plan[e].sends \in Nat /\ toSend[e] \in Nat
  BY TCPAssumption DEF IndInv, TypeOK, Plan
<1>3. /\ c.send_fin => e \in closing /\ toSend[e] = 0
      /\ toSend[e] <= plan[e].sends
      /\ c.end + toSend[e] <= c.iss + 1 + plan[e].sends
      /\ c.send_fin => c.end + toSend[e] = c.iss + 1 + plan[e].sends
  BY <1>1 DEF AppOK
<1>4. d.rcv_nxt > d.irs + 1 + d.delivered <=> Ended(e)
  BY DEF Ended
<1> HIDE DEF c, d
<1>5. /\ d.delivered \in Nat /\ d.irs \in Nat /\ d.rcv_nxt \in Nat
      /\ c.iss \in Nat /\ c.end \in Nat
  BY <1>1 DEF Connections
<1>6. CASE d.rcv_nxt = 0
  BY <1>1, <1>2, <1>3, <1>4, <1>5, <1>6 DEF Received, StreamOK, d
<1>7. CASE d.rcv_nxt # 0 /\ d.rcv_nxt < c.iss
  <2>1. ~FinTaken(c, d)
    BY <1>1, <1>5, <1>7 DEF FinTaken, SendOrder
  <2>2. d.delivered = 0 /\ ~Ended(e)
    BY <1>1, <1>4, <1>5, <1>7, <2>1 DEF Delivered, Received
  <2> QED  BY <1>2, <1>3, <1>5, <2>2 DEF StreamOK, d
<1>8. CASE d.rcv_nxt > c.iss /\ d.irs = c.iss
  <2>1. CASE FinTaken(c, d)
    BY <1>1, <1>2, <1>3, <1>5, <1>8, <2>1 DEF Delivered, FinTaken, StreamOK, d
  <2>2. CASE ~FinTaken(c, d)
    <3>1. d.irs + 1 + d.delivered = d.rcv_nxt
      BY <1>1, <1>5, <1>8, <2>2 DEF Delivered
    <3>2. d.rcv_nxt <= c.end
      BY <1>1, <1>5, <2>2 DEF Received, SendOrder, FinTaken, Connections
    <3> QED  BY <1>2, <1>3, <1>4, <1>5, <1>8, <3>1, <3>2 DEF StreamOK, d
  <2> QED  BY <2>1, <2>2
<1> QED  BY <1>1, <1>6, <1>7, <1>8 DEF Received

\* An event at the reader c of w's stream takes nothing back.
LEMMA ReaderAdvances ==
  ASSUME NEW c \in Connections, NEW r \in Connections, NEW w \in Connections,
         SendOrder(w), Received(w, c), Delivered(w, c), Received(w, r), Delivered(w, r),
         RcvOpening(c), AfterHandshake(c), Grows(c, r)
  PROVE  /\ c.delivered <= r.delivered
         /\ c.rcv_nxt > c.irs + 1 + c.delivered =>
              r.rcv_nxt > r.irs + 1 + r.delivered
<1>1. /\ c.delivered \in Nat /\ c.irs \in Nat /\ c.rcv_nxt \in Nat
      /\ r.delivered \in Nat /\ r.irs \in Nat /\ r.rcv_nxt \in Nat
      /\ w.end \in Nat /\ w.snd_max \in Nat /\ c.state \in States
  BY DEF Connections
<1>2. CASE c.state \in Opening
  BY <1>1, <1>2 DEF RcvOpening
<1>3. CASE c.state = "CLOSED"
  BY <1>1, <1>3 DEF Grows, SameRcv
<1>4. CASE c.state \in Synchronized
  <2>1. c.rcv_nxt # 0 /\ c.rcv_nxt <= r.rcv_nxt /\ r.irs = c.irs
    BY <1>4 DEF AfterHandshake, Grows, Opening, Synchronized
  <2>2. r.rcv_nxt # 0
    BY <1>1, <2>1
  <2>3. /\ c.irs + 1 + c.delivered = IF FinTaken(w, c) THEN w.end ELSE c.rcv_nxt
        /\ r.irs + 1 + r.delivered = IF FinTaken(w, r) THEN w.end ELSE r.rcv_nxt
    BY <2>1, <2>2 DEF Delivered
  <2>4. FinTaken(w, c) => FinTaken(w, r)
    BY <1>1, <2>1 DEF FinTaken, Received, SendOrder
  <2> QED  BY <1>1, <2>1, <2>3, <2>4 DEF FinTaken
<1> QED  BY <1>1, <1>2, <1>3, <1>4 DEF States, Opening, Synchronized

\* An event at e in which no application gives a command lets e read.
LEMMA ReadStep ==
  ASSUME StreamInv, StreamInv', NEW e \in Ends, Advances(e), AppUnchanged
  PROVE  Streams!Next
<1> DEFINE s == Peer(e)
<1>1. s \in Ends /\ s # e /\ Peer(s) = e /\ \A x \in Ends : x = e \/ x = s
  BY PeerFacts
<1>2. PICK c, r, w : c = conn[e] /\ r = conn'[e] /\ w = conn[s]
  OBVIOUS
<1>3. /\ c \in Connections /\ w \in Connections /\ SendOrder(w)
      /\ Received(w, c) /\ Delivered(w, c) /\ RcvOpening(c) /\ AfterHandshake(c)
  BY <1>2, RestBetweenEvents DEF AtRest, LocalOK, StreamInv
<1>4. w = conn'[s] /\ Grows(c, r)
  BY <1>2 DEF Advances
<1>5. r \in Connections /\ Received(w, r) /\ Delivered(w, r)
  BY <1>1, <1>2, <1>4 DEF StreamInv, IndInv, TypeOK, Connections
<1>6. /\ c.delivered <= r.delivered
      /\ c.rcv_nxt > c.irs + 1 + c.delivered => r.rcv_nxt > r.irs + 1 + r.delivered
  BY <1>3, <1>4, <1>5, ReaderAdvances
<1>7. plan' = plan /\ toSend' = toSend /\ closing' = closing
  BY DEF AppUnchanged
<1>8. /\ r.delivered \in Nat /\ c.delivered \in Nat
      /\ plan[s].sends \in Nat /\ toSend[s] \in Nat
      /\ r.delivered <= plan[s].sends - toSend[s]
      /\ r.rcv_nxt > r.irs + 1 + r.delivered =>
           s \in closing /\ r.delivered = plan[s].sends - toSend[s]
  <2>1. StreamOK(s) /\ StreamOK(s)'
    BY <1>1 DEF StreamInv
  <2> QED  BY <1>1, <1>2, <1>7, <2>1 DEF StreamOK, Ended
<1> DEFINE read == [x \in Ends |-> conn[Peer(x)].delivered]
           ended == {x \in Ends : conn[Peer(x)].rcv_nxt
                                    > conn[Peer(x)].irs + 1 + conn[Peer(x)].delivered}
<1>9. read' = [read EXCEPT ![s] = r.delivered] /\ read[s] = c.delivered
  BY <1>1, <1>2, <1>4
<1>10. ended' = ended \/ (ended' = ended \cup {s} /\ r.rcv_nxt > r.irs + 1 + r.delivered)
  BY <1>1, <1>2, <1>4, <1>6
<1>11. Streams!Read(s)
  <2> SUFFICES
        /\ \E n \in read[s] .. [x \in Ends |-> plan[x].sends - toSend[x]][s] :
             read' = [read EXCEPT ![s] = n]
        /\ \/ ended' = ended
           \/ /\ s \in closing
              /\ read'[s] = [x \in Ends |-> plan[x].sends - toSend[x]][s]
              /\ ended' = ended \cup {s}
        /\ [x \in Ends |-> plan[x].sends - toSend[x]]'
             = [x \in Ends |-> plan[x].sends - toSend[x]]
        /\ closing' = closing
    BY DEF Streams!Read
  <2> HIDE DEF read, ended
  <2>1. [x \in Ends |-> plan[x].sends - toSend[x]][s] = plan[s].sends - toSend[s]
    BY <1>1
  <2>2. r.delivered \in c.delivered .. (plan[s].sends - toSend[s])
    BY <1>6, <1>8
  <2>3. read'[s] = r.delivered
    BY <1>1, <1>2 DEF read
  <2> QED  BY <1>7, <1>8, <1>9, <1>10, <2>1, <2>2, <2>3
<1> QED  BY <1>1, <1>11 DEF Streams!Next

\* SEND hands over one unit.
LEMMA WriteStep ==
  ASSUME StreamInv, NEW e \in Ends, process_SEND(e)
  PROVE  Streams!Next
<1>1. Advances(e) /\ SameRcv(conn[e], conn[e]')
  BY SendStep DEF StreamInv
<1>2. /\ Peer(e) \in Ends /\ Peer(e) # e /\ Peer(Peer(e)) = e
      /\ \A x \in Ends : x = e \/ x = Peer(e)
  BY PeerFacts
<1>3. /\ e \notin closing /\ toSend' = [toSend EXCEPT ![e] = @ - 1]
      /\ plan' = plan /\ closing' = closing
  BY DEF process_SEND, MaySend
<1>4. /\ toSend \in [Ends -> Nat]
      /\ \A x \in Ends : plan[x].sends \in Nat /\ toSend[x] \in Nat
  BY DEF StreamInv, StreamOK, IndInv, TypeOK
<1>5. \A x \in Ends : /\ conn[Peer(x)]'.delivered = conn[Peer(x)].delivered
                      /\ conn[Peer(x)]'.rcv_nxt = conn[Peer(x)].rcv_nxt
                      /\ conn[Peer(x)]'.irs = conn[Peer(x)].irs
  BY <1>1, <1>2 DEF Advances, SameRcv
<1> DEFINE written == [x \in Ends |-> plan[x].sends - toSend[x]]
<1>6. written' = [written EXCEPT ![e] = @ + 1]
  <2>1. written' = [x \in Ends |-> plan[x].sends - toSend'[x]]
    BY <1>3
  <2>2. \A x \in Ends : toSend'[x] = IF x = e THEN toSend[x] - 1 ELSE toSend[x]
    BY <1>3, <1>4
  <2>3. \A x \in Ends : plan[x].sends - toSend'[x]
                          = IF x = e THEN plan[x].sends - toSend[x] + 1
                            ELSE plan[x].sends - toSend[x]
    BY <1>4, <2>2
  <2> QED  BY <2>1, <2>3
<1>7. Streams!Write(e)
  BY <1>3, <1>5, <1>6 DEF Streams!Write
<1> QED  BY <1>7 DEF Streams!Next

\* CLOSE closes the stream.
LEMMA ShutStep ==
  ASSUME StreamInv, NEW e \in Ends, process_CLOSE(e)
  PROVE  Streams!Next
<1>1. Advances(e) /\ SameRcv(conn[e], conn[e]')
  BY CloseStep DEF StreamInv
<1>2. /\ Peer(e) \in Ends /\ Peer(Peer(e)) = e
      /\ \A x \in Ends : x = e \/ x = Peer(e)
  BY PeerFacts
<1>3. /\ e \notin closing /\ closing' = closing \cup {e}
      /\ plan' = plan /\ toSend' = toSend
  BY DEF process_CLOSE, MayClose
<1>4. \A x \in Ends : /\ conn[Peer(x)]'.delivered = conn[Peer(x)].delivered
                      /\ conn[Peer(x)]'.rcv_nxt = conn[Peer(x)].rcv_nxt
                      /\ conn[Peer(x)]'.irs = conn[Peer(x)].irs
  BY <1>1, <1>2 DEF Advances, SameRcv
<1>5. Streams!Close(e)
  BY <1>3, <1>4 DEF Streams!Close
<1> QED  BY <1>5 DEF Streams!Next

LEMMA StreamsStep ==
  ASSUME StreamInv, StreamInv', [Next]_vars
  PROVE  [Streams!Next]_(Streams!vars)
<1>1. ASSUME NEW e \in Ends, process_SEND(e)
      PROVE  Streams!Next
  BY <1>1, WriteStep
<1>2. ASSUME NEW e \in Ends, process_CLOSE(e)
      PROVE  Streams!Next
  BY <1>2, ShutStep
<1>3. CASE UNCHANGED vars \/ \E m \in net : Lose(m)
  <2>1. conn' = conn /\ plan' = plan /\ toSend' = toSend /\ closing' = closing
    BY <1>3 DEF vars, Lose, AppUnchanged
  <2> QED  BY <2>1 DEF Streams!vars
<1>4. ASSUME NEW m \in net, Receive(m) \/ ReceiveCopy(m)
      PROVE  Streams!Next
  <2>1. m.to \in Ends /\ IndInv
    BY DEF StreamInv, IndInv, TypeOK
  <2>2. Advances(m.to)
    BY <1>4, <2>1, ReceiveStep
  <2>3. AppUnchanged
    BY <1>4 DEF Receive, ReceiveCopy
  <2> QED  BY <2>1, <2>2, <2>3, ReadStep
<1>5. ASSUME NEW e \in Ends,
             \/ process_OPEN_ACTIVE(e) \/ process_OPEN_PASSIVE(e) \/ process_ABORT(e)
             \/ process_TIMEOUT_SYN_REXMIT(e) \/ process_TIMEOUT_CONN_ESTAB(e)
             \/ process_TIMEOUT_2MSL(e)
             \/ processRexmitTimer(e) \/ RexmitGivesUp(e)
      PROVE  Streams!Next
  <2>1. Advances(e)
    BY <1>5, OpenActiveStep, OpenPassiveStep, AbortStep, SynRexmitStep, ConnEstabStep,
       TwoMSLStep, RexmitStep DEF StreamInv
  <2>2. AppUnchanged
    BY <1>5 DEF process_OPEN_ACTIVE, process_OPEN_PASSIVE, process_ABORT,
                process_TIMEOUT_SYN_REXMIT, process_TIMEOUT_CONN_ESTAB,
                process_TIMEOUT_2MSL, processRexmitTimer, RexmitGivesUp
  <2> QED  BY <2>1, <2>2, ReadStep
<1> QED  BY <1>1, <1>2, <1>3, <1>4, <1>5 DEF Next

\* The two ends implement a pair of byte streams: no step of the handshake, of the
\* transfer or of either way to end the connection gives an application a unit
\* twice, one that was not sent, or the end of the stream before the last unit.
THEOREM ImplementsByteStreams ==
  ASSUME Patient
  PROVE  Spec => ByteStreams
<1>1. Init => Streams!Init
  <2> SUFFICES ASSUME Init PROVE Streams!Init
    OBVIOUS
  <2>1. \A e \in Ends : conn[Peer(e)] = NewConnection /\ plan[e].sends \in Nat
    BY PeerFacts, TCPAssumption DEF Init, Plan
  <2>2. \A e \in Ends : /\ conn[Peer(e)].delivered = 0
                        /\ ~(conn[Peer(e)].rcv_nxt
                               > conn[Peer(e)].irs + 1 + conn[Peer(e)].delivered)
    BY <2>1 DEF NewConnection
  <2>3. \A e \in Ends : plan[e].sends - toSend[e] = 0
    BY <2>1 DEF Init
  <2> QED  BY <2>2, <2>3 DEF Streams!Init, Init
<1>2. IndInv => StreamInv
  BY StreamFacts DEF StreamInv
<1>3. StreamInv /\ StreamInv' /\ [Next]_vars => [Streams!Next]_(Streams!vars)
  BY StreamsStep
<1>4. Spec => Streams!Init /\ [][Streams!Next]_(Streams!vars)
  BY <1>1, <1>2, <1>3, Inductive, PTL DEF Spec
<1> QED  BY <1>4 DEF ByteStreams, Streams!Spec

=============================================================================
