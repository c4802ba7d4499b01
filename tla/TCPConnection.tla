--------------------------- MODULE TCPConnection ---------------------------
(***************************************************************************)
(* The two ends of one TCP connection (TCPConnection.h and its .cc files), *)
(* run with the TCPNoCongestionControl flavour, over a network that may    *)
(* lose, duplicate and reorder segments.                                   *)
(*                                                                         *)
(* A unit of data is one full segment (SMSS bytes), so a segment carries 0 *)
(* or 1 unit.  Sequence numbers are natural numbers: wrap-around at 2^32   *)
(* is not modelled.  Header options (SACK, TS, WS), delayed ACKs and       *)
(* limited transmit are off, as they are by default; the advertised window *)
(* RcvWnd never fills up, so the PERSIST timer is never started.  The      *)
(* FIN-WAIT-2 timer exists in the code but nothing schedules it.           *)
(*                                                                         *)
(* Each function of the code that changes the connection is an operator    *)
(* from a connection record to a connection record; the segments it hands  *)
(* to IP are collected in the field "out" until the event is over.         *)
(***************************************************************************)
EXTENDS Naturals, FiniteSets

CONSTANTS
  Ends,          \* the two ends of the connection
  Plans,         \* what the applications may do: a set of functions on Ends
  InitialWindow, \* RFC 3390 initial window, in segments (increasedIWEnabled)
  RcvWnd,        \* advertised window, in segments
  IssStep,       \* distance between initial sequence numbers of an end
  MaxRexmit,     \* MAX_REXMIT_COUNT
  MaxSynRexmit,  \* SYN retransmissions that fit before CONN-ESTAB expires
  MaxFaults      \* for each plan, the bound on lost segments, duplicated
                 \* segments and early retransmission timeouts together

(***************************************************************************)
(* An application's plan: how it opens, the units it sends, whether it     *)
(* closes when it likes or only after its peer has closed, whether it may  *)
(* abort, and whether it gives commands in SYN_RCVD, before TCP has told   *)
(* it that the connection is established.                                  *)
(***************************************************************************)
Plan == [open : {"ACTIVE", "PASSIVE"}, sends : Nat, atWill : BOOLEAN,
         aborts : BOOLEAN, early : BOOLEAN]

ASSUME TCPAssumption ==
  /\ IsFiniteSet(Ends) /\ Cardinality(Ends) = 2
  /\ Plans \subseteq [Ends -> Plan]
  /\ InitialWindow \in Nat \ {0}
  /\ RcvWnd \in Nat /\ IssStep \in Nat
  /\ \A p \in Plans, e \in Ends : p[e].sends + 2 <= RcvWnd
  /\ 2 * RcvWnd < IssStep
  /\ MaxRexmit \in Nat /\ MaxSynRexmit \in Nat
  /\ MaxFaults \in [Plans -> Nat]

VARIABLES
  conn,     \* the TCPConnection object of each end
  net,      \* the segments in flight, a set: two equal segments are one, which
            \* may arrive twice (ReceiveCopy, a fault)
  plan,     \* the applications' plan
  toSend,   \* units each application has still to SEND
  closing,  \* the ends whose application has issued CLOSE
  faults    \* losses, duplicates and early timeouts so far, counted together

vars == <<conn, net, plan, toSend, closing, faults>>

Peer(e) == CHOOSE p \in Ends : p # e

States == {"INIT", "CLOSED", "LISTEN", "SYN_SENT", "SYN_RCVD", "ESTABLISHED",
           "CLOSE_WAIT", "LAST_ACK", "FIN_WAIT_1", "FIN_WAIT_2", "CLOSING",
           "TIME_WAIT"}

Timers == {"2MSL", "CONN-ESTAB", "SYN-REXMIT", "REXMIT"}

\* A segment; ackNo is 0 where the code leaves the field unset.
Segment(flags, seq, ackNo, len) ==
  [flags |-> flags, seq |-> seq, ackNo |-> ackNo, len |-> len]

Segments == [flags : SUBSET {"SYN", "ACK", "FIN", "RST"},
             seq : Nat, ackNo : Nat, len : {0, 1}]

\* The constructor: a connection in state INIT with no timer scheduled.
NewConnection ==
  [state |-> "INIT", active |-> FALSE, iss |-> 0, irs |-> 0,
   snd_una |-> 0, snd_nxt |-> 0, snd_max |-> 0, snd_cwnd |-> 1,
   begin |-> 0, end |-> 0,
   rcv_nxt |-> 0, rcvQueue |-> {}, delivered |-> 0,
   send_fin |-> FALSE, snd_fin_seq |-> 0, fin_ack_rcvd |-> FALSE,
   fin_rcvd |-> FALSE, rcv_fin_seq |-> 0,
   timers |-> {}, syn_rexmit_count |-> 0, rexmit_count |-> 0,
   failed |-> FALSE, out |-> {}]

---------------------------------------------------------------------------
(* Timers, queues and assertions                                           *)

schedule(c, t) == [c EXCEPT !.timers = @ \cup {t}]

cancel(c, ts) == [c EXCEPT !.timers = @ \ ts]

\* ASSERT(cond), or a cRuntimeError thrown unless cond: the run stops.
Assert(c, cond) == [c EXCEPT !.failed = @ \/ ~cond]

Min2(a, b) == IF a <= b THEN a ELSE b

getBytesAvailable(c, from) == IF from < c.end THEN c.end - from ELSE 0

discardUpTo(c, seq) ==
  [Assert(c, c.begin <= seq /\ seq <= c.end) EXCEPT !.begin = seq]

---------------------------------------------------------------------------
(* Sending                                                                 *)

sendToIP(c, s) == [c EXCEPT !.out = @ \cup {s}]

selectInitialSeqNum(c) ==
  LET iss == c.iss + IssStep
  IN  [c EXCEPT !.iss = iss, !.snd_una = iss, !.snd_nxt = iss,
                !.snd_max = iss, !.begin = iss + 1, !.end = iss + 1]

sendSyn(c) ==
  [sendToIP(c, Segment({"SYN"}, c.iss, 0, 0))
     EXCEPT !.snd_nxt = c.iss + 1, !.snd_max = c.iss + 1]

sendSynAck(c) ==
  [sendToIP(c, Segment({"SYN", "ACK"}, c.iss, c.rcv_nxt, 0))
     EXCEPT !.snd_nxt = c.iss + 1, !.snd_max = c.iss + 1]

sendRst(c, seq) == sendToIP(c, Segment({"RST"}, seq, 0, 0))

sendAck(c) == sendToIP(c, Segment({"ACK"}, c.snd_nxt, c.rcv_nxt, 0))

\* Mutant: the FIN is not counted in snd_max.
sendFinUncounted(c) ==
  [sendToIP(c, Segment({"FIN", "ACK"}, c.snd_nxt, c.rcv_nxt, 0))
     EXCEPT !.snd_nxt = @ + 1]

\* A FIN on its own, after which the callers advance snd_nxt over it.
sendFin(c) ==
  [sendToIP(c, Segment({"FIN", "ACK"}, c.snd_nxt, c.rcv_nxt, 0))
     EXCEPT !.snd_nxt = @ + 1, !.snd_max = c.snd_nxt + 1]

\* TCPBaseAlg::startRexmitTimer, and dataSent, which leaves a running timer.
startRexmitTimer(c) == [schedule(c, "REXMIT") EXCEPT !.rexmit_count = 0]

\* Mutant: sending data does not start the timer.
dataSentUntimed(c) == c

dataSent(c) == IF "REXMIT" \in c.timers THEN c ELSE startRexmitTimer(c)

\* sendSegment() for the n units from "from": the last unit before the FIN
\* carries the FIN too, and createSegmentWithBytes() asserts its range.
sendSegments(c, from, n) ==
  LET withFin == c.send_fin /\ from + n = c.snd_fin_seq
      flags(q) == IF withFin /\ q + 1 = c.snd_fin_seq
                  THEN {"ACK", "FIN"} ELSE {"ACK"}
  IN  [Assert(c, c.begin <= from /\ from + n <= c.end)
         EXCEPT !.out = @ \cup {Segment(flags(q), q, c.rcv_nxt, 1) :
                                  q \in from .. (from + n - 1)},
                !.snd_nxt = IF withFin THEN from + n + 1 ELSE from + n]

\* What the congestion window lets sendData() send, in units.
Sendable(c) ==
  Min2(getBytesAvailable(c, c.snd_max),
       IF c.snd_max - c.snd_una < c.snd_cwnd
       THEN c.snd_cwnd - (c.snd_max - c.snd_una) ELSE 0)

sendData(c) ==
  IF Sendable(c) = 0
  THEN [c EXCEPT !.snd_nxt = c.snd_max]
  ELSE LET d == sendSegments(c, c.snd_max, Sendable(c))
       IN  dataSent([d EXCEPT !.snd_max = d.snd_nxt])

retransmitOneSegment(c) ==
  LET bytes == Min2(Min2(1, c.snd_max - c.snd_una),
                    getBytesAvailable(c, c.snd_una))
  IN  IF bytes = 0 /\ c.send_fin /\ c.snd_fin_seq = c.end
      THEN sendFin([c EXCEPT !.snd_nxt = c.end])
      ELSE sendSegments(Assert(c, bytes # 0), c.snd_una, bytes)

---------------------------------------------------------------------------
(* The TCP algorithm's reactions (TCPBaseAlg, TCPNoCongestionControl)      *)

\* Mutant: after a lost SYN the window is rounded down to nothing.
establishedShrunk(c, active) ==
  LET d == [c EXCEPT !.snd_cwnd = InitialWindow \div (1 + 2 * c.syn_rexmit_count)]
  IN  IF active THEN sendAck(sendData(d)) ELSE d

\* established() overwrites the "practically infinite" congestion window.
established(c, active) ==
  LET d == [c EXCEPT !.snd_cwnd =
                  IF c.syn_rexmit_count = 0 THEN InitialWindow ELSE 1]
  IN  IF ~active THEN d
      ELSE IF Sendable(d) = 0 THEN sendAck(sendData(d)) ELSE sendData(d)

\* Mutant: the timer is restarted although everything is acknowledged.
receivedDataAckRestarting(c) == sendData(startRexmitTimer(c))

receivedDataAck(c) ==
  sendData(IF c.snd_una = c.snd_max THEN cancel(c, {"REXMIT"})
                                    ELSE startRexmitTimer(c))

\* No second ACK when the new rcv_nxt went out with data in this event.
receiveSeqChanged(c) ==
  IF \E s \in c.out : s.ackNo = c.rcv_nxt THEN c ELSE sendAck(c)

---------------------------------------------------------------------------
(* The state machine: performStateTransition() and stateEntered()          *)

OnAbort == {"ABORT", "RCV_UNEXP_SYN"}

\* The successor of state st on event ev; st itself where the code has no
\* transition.
Goto(st, ev, active) ==
  CASE st = "INIT" /\ ev = "OPEN_PASSIVE" -> "LISTEN"
    [] st = "INIT" /\ ev = "OPEN_ACTIVE" -> "SYN_SENT"
    [] st = "LISTEN" /\ ev \in {"CLOSE", "ABORT"} -> "CLOSED"
    [] st = "LISTEN" /\ ev = "RCV_SYN" -> "SYN_RCVD"
    [] st = "SYN_RCVD" /\ ev \in OnAbort -> "CLOSED"
    [] st = "SYN_RCVD" /\ ev \in {"TIMEOUT_CONN_ESTAB", "RCV_RST"} ->
         IF active THEN "CLOSED" ELSE "LISTEN"
    [] st = "SYN_RCVD" /\ ev = "RCV_ACK" -> "ESTABLISHED"
    [] st \in {"SYN_RCVD", "ESTABLISHED"} /\ ev = "CLOSE" -> "FIN_WAIT_1"
    [] st \in {"SYN_RCVD", "ESTABLISHED"} /\ ev = "RCV_FIN" -> "CLOSE_WAIT"
    [] st = "SYN_SENT" /\ ev \in {"CLOSE", "ABORT", "TIMEOUT_CONN_ESTAB",
                                  "RCV_RST"} -> "CLOSED"
    [] st = "SYN_SENT" /\ ev = "RCV_SYN_ACK" -> "ESTABLISHED"
    [] st = "SYN_SENT" /\ ev = "RCV_SYN" -> "SYN_RCVD"
    [] st = "CLOSE_WAIT" /\ ev = "CLOSE" -> "LAST_ACK"
    [] st = "LAST_ACK" /\ ev = "RCV_ACK" -> "CLOSED"
    [] st = "FIN_WAIT_1" /\ ev = "RCV_FIN" -> "CLOSING"
    [] st = "FIN_WAIT_1" /\ ev = "RCV_ACK" -> "FIN_WAIT_2"
    [] st = "FIN_WAIT_1" /\ ev = "RCV_FIN_ACK" -> "TIME_WAIT"
    [] st = "FIN_WAIT_2" /\ ev = "RCV_FIN" -> "TIME_WAIT"
    [] st = "CLOSING" /\ ev = "RCV_ACK" -> "TIME_WAIT"
    [] st = "TIME_WAIT" /\ ev = "TIMEOUT_2MSL" -> "CLOSED"
    [] st \in {"ESTABLISHED", "CLOSE_WAIT", "LAST_ACK", "FIN_WAIT_1",
               "FIN_WAIT_2", "CLOSING", "TIME_WAIT"}
         /\ ev \in OnAbort \cup {"RCV_RST"} -> "CLOSED"
    [] OTHER -> st

\* The timers that entering state st cancels.
Cancelled(st) ==
  CASE st \in {"LISTEN", "ESTABLISHED", "CLOSE_WAIT", "LAST_ACK",
               "FIN_WAIT_1", "FIN_WAIT_2", "CLOSING"} ->
         {"CONN-ESTAB", "SYN-REXMIT"}
    [] st = "CLOSED" -> Timers
    [] OTHER -> {}

performStateTransition(c, ev) ==
  LET st == Goto(c.state, ev, c.active)
  IN  IF st = c.state THEN c
      ELSE [cancel(c, Cancelled(st)) EXCEPT !.state = st]

---------------------------------------------------------------------------
(* Segment arrival.  A handler returns the connection and the event code   *)
(* that performStateTransition() is then given.                            *)

Outcome(c, ev) == [c |-> c, ev |-> ev]

isSegmentAcceptable(c, s) ==
  \/ /\ s.len = 0
     /\ \/ c.rcv_nxt <= s.seq /\ s.seq <= c.rcv_nxt + RcvWnd
        \/ c.snd_una < s.ackNo /\ s.ackNo <= c.snd_nxt
  \/ /\ s.len > 0
     /\ \/ c.rcv_nxt <= s.seq /\ s.seq < c.rcv_nxt + RcvWnd
        \/ c.rcv_nxt < s.seq + s.len /\ s.seq + s.len <= c.rcv_nxt + RcvWnd

\* A segment for a connection that does not exist (any more).
segmentArrivalWhileClosed(c, s) ==
  LET segLen == s.len + Cardinality(s.flags \cap {"SYN", "FIN"})
  IN  CASE "RST" \in s.flags -> c
        [] "RST" \notin s.flags /\ "ACK" \notin s.flags ->
             sendToIP(c, Segment({"RST", "ACK"}, 0, s.seq + segLen, 0))
        [] OTHER -> sendRst(c, s.ackNo)

startSynRexmitTimer(c) ==
  [schedule(c, "SYN-REXMIT") EXCEPT !.syn_rexmit_count = 0]

\* The peer's SYN fixes irs and rcv_nxt and empties the receive queue.
Synchronize(c, s) ==
  [c EXCEPT !.irs = s.seq, !.rcv_nxt = s.seq + 1, !.rcvQueue = {}]

processSegmentInListen(c, s) ==
  CASE "RST" \in s.flags -> Outcome(c, "IGNORE")
    [] "RST" \notin s.flags /\ "ACK" \in s.flags ->
         Outcome(sendRst(c, s.ackNo), "IGNORE")
    [] s.flags \cap {"RST", "ACK", "SYN"} = {"SYN"} ->
         Outcome(schedule(startSynRexmitTimer(
                   sendSynAck(selectInitialSeqNum(Synchronize(c, s)))),
                   "CONN-ESTAB"), "RCV_SYN")
    [] OTHER -> Outcome(c, "IGNORE")

processSegmentInSynSent(c, s) ==
  LET acks == "ACK" \in s.flags
      badAck == acks /\ (s.ackNo <= c.iss \/ s.ackNo > c.snd_nxt)
      synced == Synchronize(c, s)
  IN  CASE badAck ->
             Outcome(IF "RST" \in s.flags THEN c ELSE sendRst(c, s.ackNo),
                     "IGNORE")
        [] ~badAck /\ "RST" \in s.flags ->
             Outcome(c, IF acks THEN "RCV_RST" ELSE "IGNORE")
        [] ~badAck /\ s.flags = {"SYN", "ACK"} ->
             Outcome(established(discardUpTo(
                       [synced EXCEPT !.snd_una = s.ackNo], s.ackNo), TRUE),
                     "RCV_SYN_ACK")
        [] ~badAck /\ s.flags = {"SYN"} ->
             Outcome(startSynRexmitTimer(sendSynAck(synced)), "RCV_SYN")
        [] OTHER -> Outcome(c, "IGNORE")

\* An ACK that acks nothing new is at most counted as a duplicate, on which
\* this flavour does not act; the caller has dropped one that acks too much.
processAckInEstabEtc(c, s) ==
  LET finAcked == c.send_fin /\ s.ackNo = c.snd_fin_seq + 1
      d == discardUpTo(
             [c EXCEPT !.snd_una = s.ackNo,
                       !.snd_nxt = IF @ < s.ackNo THEN s.ackNo ELSE @,
                       !.fin_ack_rcvd = @ \/ finAcked],
             IF finAcked THEN s.ackNo - 1 ELSE s.ackNo)
  IN  CASE s.ackNo <= c.snd_una -> c
        [] s.ackNo > c.snd_una /\ s.len = 0 /\ c.state # "SYN_RCVD" ->
             receivedDataAck(d)
        [] OTHER -> d

\* Fifth step, the ACK field.
CheckAck(c, s) ==
  LET d == IF c.state = "SYN_RCVD" THEN established(c, FALSE) ELSE c
      a == processAckInEstabEtc(d, s)
  IN  CASE c.state = "TIME_WAIT" ->
             Outcome(schedule(sendAck(c), "2MSL"), "IGNORE")
        [] c.state # "TIME_WAIT" /\ s.ackNo > c.snd_max ->
             Outcome(sendAck(d), "DROP")
        [] c.state = "CLOSING" /\ s.ackNo <= c.snd_max /\ a.fin_ack_rcvd ->
             Outcome(schedule(a, "2MSL"), "RCV_ACK")
        [] /\ s.ackNo <= c.snd_max
           /\ \/ c.state = "SYN_RCVD"
              \/ c.state = "FIN_WAIT_1" /\ a.fin_ack_rcvd ->
             Outcome(a, "RCV_ACK")
        [] OTHER -> Outcome(a, "IGNORE")

\* The FIN that is next in sequence: rcv_nxt moves over it.
FinArrived(d) ==
  LET c == [d EXCEPT !.rcv_nxt = @ + 1]
  IN  CASE c.state = "FIN_WAIT_1" /\ c.fin_ack_rcvd ->
             Outcome(schedule(c, "2MSL"), "RCV_FIN_ACK")
        [] c.state \in {"FIN_WAIT_2", "TIME_WAIT"} ->
             Outcome(schedule(c, "2MSL"), "RCV_FIN")
        [] OTHER -> Outcome(c, "RCV_FIN")

\* The receive queue takes the unit and returns the first one it lacks.
insertBytesFromSegment(c, s) ==
  LET q == c.rcvQueue \cup {s.seq}
      missing == (c.rcv_nxt .. (c.rcv_nxt + Cardinality(q))) \ q
  IN  [c EXCEPT !.rcvQueue = q,
                !.rcv_nxt = CHOOSE n \in missing : \A m \in missing : n <= m]

\* Seventh step, the segment text: what is in sequence goes to the
\* application, and may reach a FIN that came before it.
ProcessText(p, s, old_snd_una) ==
  LET c == insertBytesFromSegment(p.c, s)
      d == IF c.snd_una > old_snd_una THEN receivedDataAck(c) ELSE c
      f == [d EXCEPT !.rcvQueue = {q \in @ : q >= d.rcv_nxt},
                     !.delivered = @ + (d.rcv_nxt - p.c.rcv_nxt)]
  IN  IF \/ s.len = 0
         \/ p.c.state \notin {"SYN_RCVD", "ESTABLISHED", "FIN_WAIT_1",
                              "FIN_WAIT_2"}
      THEN p
      ELSE IF d.rcv_nxt = p.c.rcv_nxt THEN Outcome(sendAck(d), p.ev)
      ELSE IF f.fin_rcvd /\ f.rcv_nxt = f.rcv_fin_seq THEN FinArrived(f)
      ELSE Outcome(f, p.ev)

\* Mutant: a FIN is taken whether it is next in sequence or not.
CheckFinAnyOrder(p, s) ==
  IF "FIN" \in s.flags THEN FinArrived([p.c EXCEPT !.rcv_nxt = s.seq + s.len])
                       ELSE p

\* Eighth step, the FIN bit: a FIN above sequence is remembered.
CheckFin(p, s) ==
  CASE "FIN" \notin s.flags -> p
    [] "FIN" \in s.flags /\ p.c.rcv_nxt = s.seq + s.len -> FinArrived(p.c)
    [] OTHER -> Outcome([p.c EXCEPT !.fin_rcvd = TRUE,
                                    !.rcv_fin_seq = s.seq + s.len], p.ev)

\* A CLOSE that had to wait for data happens once the FIN has been sent.
DeferredClose(p, old_snd_nxt) ==
  LET c == p.c
  IN  IF /\ c.send_fin /\ c.snd_nxt = c.snd_fin_seq + 1
         /\ \/ c.state \in {"ESTABLISHED", "SYN_RCVD"}
            \/ c.state = "CLOSE_WAIT" /\ old_snd_nxt # c.snd_nxt
      THEN Outcome(c, "CLOSE")
      ELSE p

\* Steps five to eight for a segment that passed the first four.
ProcessAckTextFin(c, s) ==
  LET ack == CheckAck(c, s)
      fin == CheckFin(ProcessText(ack, s, c.snd_una), s)
      acked == IF fin.c.rcv_nxt = c.rcv_nxt THEN fin
               ELSE Outcome(receiveSeqChanged(fin.c), fin.ev)
  IN  CASE ack.ev = "DROP" -> Outcome(ack.c, "IGNORE")
        [] /\ c.state = "LAST_ACK" /\ ack.ev # "DROP"
           /\ c.send_fin /\ s.ackNo = c.snd_fin_seq + 1 ->
             Outcome(ack.c, "RCV_ACK")
        [] OTHER -> DeferredClose(acked, c.snd_nxt)

processSegment1stThru8th(c, s) ==
  CASE ~isSegmentAcceptable(c, s) ->
         Outcome(IF "RST" \in s.flags THEN c ELSE sendAck(c), "IGNORE")
    [] isSegmentAcceptable(c, s) /\ "RST" \in s.flags ->
         Outcome(IF c.state = "SYN_RCVD" THEN discardUpTo(c, c.end) ELSE c,
                 "RCV_RST")
    [] isSegmentAcceptable(c, s) /\ s.flags \cap {"RST", "SYN"} = {"SYN"} ->
         Outcome(c, "RCV_UNEXP_SYN")
    [] /\ isSegmentAcceptable(c, s)
       /\ s.flags \cap {"RST", "SYN", "ACK"} = {"ACK"} ->
         IF /\ c.state = "SYN_RCVD"
            /\ ~(c.snd_una <= s.ackNo /\ s.ackNo <= c.snd_nxt)
         THEN Outcome(sendRst(c, s.ackNo), "IGNORE")
         ELSE ProcessAckTextFin(c, s)
    [] OTHER -> Outcome(c, "IGNORE")

process_RCV_SEGMENT(c, s) ==
  CASE c.state \in {"INIT", "CLOSED"} ->
         Outcome(segmentArrivalWhileClosed(c, s), "IGNORE")
    [] c.state = "LISTEN" -> processSegmentInListen(c, s)
    [] c.state = "SYN_SENT" -> processSegmentInSynSent(c, s)
    [] OTHER -> processSegment1stThru8th(c, s)

---------------------------------------------------------------------------
(* Actions                                                                 *)

\* The end of an event at e: the state transition, and its segments leave.
\* "kept" is what remains of the network besides.
Finish(e, p, kept) ==
  LET c == performStateTransition(p.c, p.ev)
  IN  /\ conn' = [conn EXCEPT ![e] = [c EXCEPT !.out = {}]]
      /\ net' = kept \cup {[to |-> Peer(e), seg |-> s] : s \in c.out}

AppUnchanged == UNCHANGED <<plan, toSend, closing>>

Fault == faults < MaxFaults[plan] /\ faults' = faults + 1

\* The segment m reaches its destination.
Receive(m) ==
  /\ Finish(m.to, process_RCV_SEGMENT(conn[m.to], m.seg), net \ {m})
  /\ AppUnchanged /\ UNCHANGED faults

\* A copy of m reaches its destination and m is still in flight.
ReceiveCopy(m) ==
  /\ Fault
  /\ Finish(m.to, process_RCV_SEGMENT(conn[m.to], m.seg), net)
  /\ AppUnchanged

Lose(m) ==
  /\ Fault
  /\ net' = net \ {m}
  /\ UNCHANGED conn /\ AppUnchanged

MayOpen(e) == conn[e].state = "INIT"

process_OPEN_ACTIVE(e) ==
  /\ MayOpen(e) /\ plan[e].open = "ACTIVE"
  /\ LET c == [conn[e] EXCEPT !.active = TRUE]
     IN  Finish(e, Outcome(schedule(startSynRexmitTimer(
                             sendSyn(selectInitialSeqNum(c))), "CONN-ESTAB"),
                           "OPEN_ACTIVE"), net)
  /\ AppUnchanged /\ UNCHANGED faults

process_OPEN_PASSIVE(e) ==
  /\ MayOpen(e) /\ plan[e].open = "PASSIVE"
  /\ Finish(e, Outcome(conn[e], "OPEN_PASSIVE"), net)
  /\ AppUnchanged /\ UNCHANGED faults

\* States in which e's application knows that it may give a command.
CommandStates(e) ==
  {"SYN_SENT", "ESTABLISHED", "CLOSE_WAIT"}
    \cup (IF plan[e].early THEN {"SYN_RCVD"} ELSE {})

MaySend(e) ==
  /\ toSend[e] > 0 /\ e \notin closing
  /\ conn[e].state \in CommandStates(e)

MayClose(e) ==
  /\ toSend[e] = 0 /\ e \notin closing
  /\ conn[e].state \in CommandStates(e) \cup {"LISTEN"}
  /\ plan[e].atWill \/ conn[e].state = "CLOSE_WAIT"

\* SEND of one unit: queued until the connection is established.
process_SEND(e) ==
  /\ MaySend(e)
  /\ toSend' = [toSend EXCEPT ![e] = @ - 1]
  /\ LET c == [conn[e] EXCEPT !.end = @ + 1]
     IN  Finish(e, Outcome(IF c.state \in {"ESTABLISHED", "CLOSE_WAIT"}
                           THEN sendData(c) ELSE c, "SEND"), net)
  /\ UNCHANGED <<plan, closing, faults>>

\* Mutant: the FIN that goes out at once is not retransmitted.
CloseNowUntimed(c) ==
  LET d == [c EXCEPT !.send_fin = TRUE, !.snd_fin_seq = c.end]
  IN  CASE c.state \in {"LISTEN", "SYN_SENT"} -> Outcome(c, "CLOSE")
        [] c.state \notin {"LISTEN", "SYN_SENT"} /\ c.snd_max = c.end ->
             Outcome(sendFin([d EXCEPT !.snd_nxt = c.snd_max]), "CLOSE")
        [] OTHER -> Outcome(d, "IGNORE")

\* Mutant: the FIN does not wait for the data that the window holds back.
CloseNowHasty(c) ==
  LET d == [c EXCEPT !.send_fin = TRUE, !.snd_fin_seq = c.snd_max]
  IN  IF c.state \in {"LISTEN", "SYN_SENT"} THEN Outcome(c, "CLOSE")
      ELSE Outcome(startRexmitTimer(sendFin([d EXCEPT !.snd_nxt = c.snd_max])),
                   "CLOSE")

\* The FIN goes out at once, or is left to the segment with the last data.
CloseNow(c) ==
  LET d == [c EXCEPT !.send_fin = TRUE, !.snd_fin_seq = c.end]
  IN  CASE c.state \in {"LISTEN", "SYN_SENT"} -> Outcome(c, "CLOSE")
        [] c.state \notin {"LISTEN", "SYN_SENT"} /\ c.snd_max = c.end ->
             Outcome(startRexmitTimer(
                       sendFin([d EXCEPT !.snd_nxt = c.snd_max])), "CLOSE")
        [] OTHER -> Outcome(d, "IGNORE")

process_CLOSE(e) ==
  /\ MayClose(e)
  /\ closing' = closing \cup {e}
  /\ Finish(e, CloseNow(conn[e]), net)
  /\ UNCHANGED <<plan, toSend, faults>>

process_ABORT(e) ==
  /\ plan[e].aborts
  /\ conn[e].state \notin {"INIT", "CLOSED"}
  /\ Finish(e, Outcome(IF conn[e].state \in {"SYN_RCVD", "ESTABLISHED",
                              "FIN_WAIT_1", "FIN_WAIT_2", "CLOSE_WAIT"}
                       THEN sendRst(conn[e], conn[e].snd_nxt)
                       ELSE conn[e], "ABORT"), net)
  /\ AppUnchanged /\ UNCHANGED faults

\* A retransmission timer is longer than the round trip: it expires when
\* nothing is in flight, or else it is a fault.
Overdue == IF net = {} THEN UNCHANGED faults ELSE Fault

process_TIMEOUT_SYN_REXMIT(e) ==
  /\ "SYN-REXMIT" \in conn[e].timers
  /\ conn[e].syn_rexmit_count < MaxSynRexmit
  /\ Overdue
  /\ LET c == [Assert(conn[e], conn[e].state \in {"SYN_SENT", "SYN_RCVD"})
                 EXCEPT !.syn_rexmit_count = @ + 1]
     IN  Finish(e, Outcome(IF c.state = "SYN_SENT" THEN sendSyn(c)
                                                   ELSE sendSynAck(c),
                           "IGNORE"), net)
  /\ AppUnchanged

process_TIMEOUT_CONN_ESTAB(e) ==
  /\ "CONN-ESTAB" \in conn[e].timers
  /\ net = {}
  /\ Finish(e, Outcome(Assert(cancel(conn[e], {"CONN-ESTAB"}),
                         conn[e].state \in {"SYN_SENT", "SYN_RCVD"}),
                       "TIMEOUT_CONN_ESTAB"), net)
  /\ AppUnchanged /\ UNCHANGED faults

\* Segments live for at most one MSL.
process_TIMEOUT_2MSL(e) ==
  /\ "2MSL" \in conn[e].timers
  /\ net = {}
  /\ Finish(e, Outcome(Assert(cancel(conn[e], {"2MSL"}),
                              conn[e].state = "TIME_WAIT"),
                       "TIMEOUT_2MSL"), net)
  /\ AppUnchanged /\ UNCHANGED faults

processRexmitTimer(e) ==
  /\ "REXMIT" \in conn[e].timers
  /\ conn[e].rexmit_count < MaxRexmit
  /\ Overdue
  /\ Finish(e, Outcome(retransmitOneSegment(
                         [conn[e] EXCEPT !.rexmit_count = @ + 1]),
                       "IGNORE"), net)
  /\ AppUnchanged

\* One retransmission too many: the connection is aborted, without a RST.
RexmitGivesUp(e) ==
  /\ "REXMIT" \in conn[e].timers
  /\ conn[e].rexmit_count = MaxRexmit
  /\ Overdue
  /\ Finish(e, Outcome(conn[e], "ABORT"), net)
  /\ AppUnchanged

Init ==
  /\ plan \in Plans
  /\ conn = [e \in Ends |-> NewConnection]
  /\ net = {}
  /\ toSend = [e \in Ends |-> plan[e].sends]
  /\ closing = {}
  /\ faults = 0

Next ==
  \/ \E m \in net : Receive(m) \/ ReceiveCopy(m) \/ Lose(m)
  \/ \E e \in Ends :
       \/ process_OPEN_ACTIVE(e) \/ process_OPEN_PASSIVE(e)
       \/ process_SEND(e) \/ process_CLOSE(e) \/ process_ABORT(e)
       \/ process_TIMEOUT_SYN_REXMIT(e) \/ process_TIMEOUT_CONN_ESTAB(e)
       \/ process_TIMEOUT_2MSL(e)
       \/ processRexmitTimer(e) \/ RexmitGivesUp(e)

Spec == Init /\ [][Next]_vars

\* The simulator's event list is not empty: a segment is in flight, a timer
\* is scheduled, or an application has a command to give.
EventPending ==
  \/ net # {}
  \/ \E e \in Ends : \/ conn[e].timers # {}
                    \/ MayOpen(e) \/ MaySend(e) \/ MayClose(e)

\* The simulation does not stop while an event is pending.  No event is
\* preferred to another, and no application has to abort.
Fairness == []<>~EventPending \/ []<><<TRUE>>_vars

FairSpec == Spec /\ Fairness

---------------------------------------------------------------------------
(* Properties                                                              *)

Synchronized == {"ESTABLISHED", "CLOSE_WAIT", "LAST_ACK", "FIN_WAIT_1",
                 "FIN_WAIT_2", "CLOSING", "TIME_WAIT"}

\* The TCB of each connection (TCPStateVariables) and the network are well
\* typed between events.
TypeOK ==
  /\ conn \in [Ends -> [state : States, active : BOOLEAN, iss : Nat,
                        irs : Nat, snd_una : Nat, snd_nxt : Nat,
                        snd_max : Nat, snd_cwnd : Nat \ {0}, begin : Nat,
                        end : Nat, rcv_nxt : Nat, rcvQueue : SUBSET Nat,
                        delivered : Nat, send_fin : BOOLEAN,
                        snd_fin_seq : Nat, fin_ack_rcvd : BOOLEAN,
                        fin_rcvd : BOOLEAN, rcv_fin_seq : Nat,
                        timers : SUBSET Timers, syn_rexmit_count : Nat,
                        rexmit_count : Nat, failed : BOOLEAN,
                        out : SUBSET Segments]]
  /\ net \subseteq [to : Ends, seg : Segments]
  /\ plan \in Plans /\ toSend \in [Ends -> Nat]
  /\ closing \subseteq Ends
  /\ faults \in 0 .. MaxFaults[plan]

\* No ASSERT of the send queue and of retransmitOneSegment() fails and no
\* timer expires in a state whose handler throws "Internal error".
NoInternalError == \A e \in Ends : ~conn[e].failed

\* What one end takes for acknowledged the other has received, and what it
\* has received was sent: snd_una, rcv_nxt and snd_max never cross.
AckedIsReceived ==
  \A e \in Ends :
    LET c == conn[e]
        d == conn[Peer(e)]
    IN  c.state \in Synchronized /\ d.state \in Synchronized
          => c.snd_una <= d.rcv_nxt /\ d.rcv_nxt <= c.snd_max

\* Once a FIN is acknowledged, the application at the other end has been
\* given every unit that was sent before the CLOSE, exactly once.
CloseLosesNothing ==
  \A e \in Ends :
    conn[e].fin_ack_rcvd => conn[Peer(e)].delivered = plan[e].sends

\* The stream that e writes is the one its peer reads.  The reader has seen
\* the end when rcv_nxt has moved past what was given to the application.
Streams ==
  INSTANCE ByteStream WITH
    Stream <- Ends,
    written <- [e \in Ends |-> plan[e].sends - toSend[e]],
    read <- [e \in Ends |-> conn[Peer(e)].delivered],
    closed <- closing,
    ended <- {e \in Ends : conn[Peer(e)].rcv_nxt
                             > conn[Peer(e)].irs + 1 + conn[Peer(e)].delivered}

\* The connection carries two byte streams: whatever is lost, duplicated,
\* reordered, aborted or retransmitted too early, each application is given a
\* growing part of what the other has sent, and a FIN is taken (FinArrived)
\* only after a CLOSE and after everything sent before it.
ByteStreams == Streams!Spec

\* A connection that waits for the network has a timer to fall back on:
\* CONN-ESTAB in the handshake, REXMIT while data or a FIN is unacknowledged,
\* 2MSL in TIME_WAIT.
AlwaysATimer ==
  \A e \in Ends :
    LET c == conn[e]
    IN  /\ c.state \in {"SYN_SENT", "SYN_RCVD"} => "CONN-ESTAB" \in c.timers
        /\ c.state \in Synchronized /\ c.snd_una < c.snd_max
             => "REXMIT" \in c.timers
        /\ c.state = "TIME_WAIT" => "2MSL" \in c.timers

\* FIN-WAIT-2 against a peer that is gone and whose FIN never came: nothing
\* ends it, because the FIN-WAIT-2 timer is never scheduled.
Orphaned(e) ==
  /\ conn[e].state = "FIN_WAIT_2"
  /\ conn[Peer(e)].state = "CLOSED"
  /\ conn[e].rcv_nxt <= conn[Peer(e)].end

\* After a simultaneous close both ends are in TIME_WAIT, where every ACK is
\* answered with an ACK and restarts 2MSL: one stray segment, such as a
\* retransmitted FIN, sets off an exchange that has no end.
BothInTimeWait == \A e \in Ends : conn[e].state = "TIME_WAIT"

\* An application's CLOSE ends the connection, whatever is lost on the way,
\* with the two exceptions above.
CloseCompletes ==
  \A e \in Ends :
    e \in closing ~> conn[e].state = "CLOSED" \/ Orphaned(e) \/ BothInTimeWait

\* TCPConnection.h on FIN-WAIT-1 and FIN-WAIT-2: the peer's FIN is still to
\* come.  It has not been received in ESTABLISHED either.
WaitsForFin ==
  \A e \in Ends :
    LET d == conn[Peer(e)]
    IN  /\ conn[e].state \in {"ESTABLISHED", "FIN_WAIT_1", "FIN_WAIT_2"}
        /\ d.send_fin /\ conn[e].irs = d.iss
        => conn[e].rcv_nxt <= d.snd_fin_seq
===========================================================================
