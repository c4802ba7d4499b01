------------------------ MODULE AODVDelivery_proofs ------------------------
(***************************************************************************)
(* Proofs about what AODVRouting does with the datagrams and with the      *)
(* sequence numbers it carries from node to node: no datagram is ever in   *)
(* two places, whatever fails, and in a network without failures no route  *)
(* is fresher than its destination and no datagram in transit meets a      *)
(* missing route.                                                          *)
(***************************************************************************)
EXTENDS AODVRouting_proofs, FiniteSetTheorems

-----------------------------------------------------------------------------
(* Where a datagram of the applications is.  It starts at AppSend, moves    *)
(* between the air and the delayed packets of a node, and ends delivered or *)
(* dropped.  What AODV hands to IPv4 itself is never such a datagram.       *)

IsData(p) == p.body.type = "DATA"

Carries(p, fl) == IsData(p) /\ p.body.flow = fl

OnAir(fl) == {f \in air : Carries(f.dgram, fl)}

Waiting(fl) ==
    {w \in Node \X Datagram : w[2] \in delayedPackets[w[1]] /\ Carries(w[2], fl)}

InOnePlace(fl) ==
    /\ \A x, y \in OnAir(fl) : x = y
    /\ \A x, y \in Waiting(fl) : x = y
    /\ OnAir(fl) = {} \/ Waiting(fl) = {}
    /\ fl \in delivered => OnAir(fl) = {} /\ Waiting(fl) = {}
    /\ fl \notin sent => OnAir(fl) = {} /\ Waiting(fl) = {} /\ fl \notin delivered

ControlOnly == \A p \in ipOut : ~IsData(p)

PlaceInv == ControlOnly /\ \A fl \in Flow : InOnePlace(fl)

(* A step that moves no datagram: it may drop some and send control packets.*)
NoDataMoves ==
    /\ \A f \in air' : IsData(f.dgram) => f \in air
    /\ \A n \in Node : \A p \in delayedPackets'[n] : IsData(p) => p \in delayedPackets[n]
    /\ UNCHANGED appVars

LEMMA NoDataMovesKeeps ==
    ASSUME PlaceInv, NoDataMoves, ControlOnly' PROVE PlaceInv'
<1>1. ASSUME NEW fl \in Flow PROVE InOnePlace(fl)'
  <2>1. OnAir(fl)' \subseteq OnAir(fl)
      BY DEF NoDataMoves, OnAir, Carries
  <2>2. Waiting(fl)' \subseteq Waiting(fl)
      BY DEF NoDataMoves, Waiting, Carries
  <2>3. delivered' = delivered /\ sent' = sent
      BY DEF NoDataMoves, appVars
  <2> QED
      BY <2>1, <2>2, <2>3 DEF PlaceInv, InOnePlace
<1> QED
    BY <1>1 DEF PlaceInv

LEMMA BroadcastCarries ==
    ASSUME NEW n, NEW ttl, NEW x
    PROVE  \A f \in BroadcastFrames(n, ttl, x) : f.dgram.body = x
<1> SUFFICES ASSUME NEW f \in BroadcastFrames(n, ttl, x) PROVE f.dgram.body = x
    OBVIOUS
<1> DEFINE p == NewDatagram(n, Broadcast, ttl, x)
<1>1. p.body = x
    BY DEF NewDatagram
<1>2. PICK m \in Node : f = [from |-> n, to |-> m, dgram |-> p]
    BY DEF BroadcastFrames
<1> HIDE DEF p
<1>3. f.dgram = p
    BY <1>2
<1> QED
    BY <1>1, <1>3

LEMMA UnicastCarries ==
    ASSUME NEW n, NEW nh, NEW p, NEW f \in UnicastFrame(n, nh, p)
    PROVE  f.dgram = p /\ f.from = n /\ f.to = nh
BY DEF UnicastFrame

LEMMA OriginateNoData ==
    ASSUME NEW n \in Node, NEW d \in Node, NEW timers, NEW rest,
           OriginateRREQ(n, d, timers, rest)
    PROVE  \A f \in air' : IsData(f.dgram) => f \in rest
<1> DEFINE q == createRREQ(n, d)
           ttl == NextTTL(timers[d])
<1>1. q.type = "RREQ"
    BY DEF createRREQ
<1>2. air' = rest \/ air' = rest \cup BroadcastFrames(n, ttl, q)
    BY DEF OriginateRREQ
<1> HIDE DEF q, ttl
<1>3. \A f \in BroadcastFrames(n, ttl, q) : ~IsData(f.dgram)
    BY <1>1, BroadcastCarries DEF IsData
<1> QED
    BY <1>2, <1>3

LEMMA delayDatagramPlaces ==
    ASSUME IndInv, NEW n \in Node, NEW p, p.dst \in Node, NEW rest, delayDatagram(n, p, rest)
    PROVE  /\ \A f \in air' : IsData(f.dgram) => f \in rest
           /\ \A m \in Node : delayedPackets'[m] = IF m = n THEN delayedPackets[n] \cup {p}
                                                   ELSE delayedPackets[m]
<1>1. \A f \in air' : IsData(f.dgram) => f \in rest
    BY OriginateNoData DEF delayDatagram
<1>2. delayedPackets' = [delayedPackets EXCEPT ![n] = @ \cup {p}]
    BY DEF delayDatagram
<1> QED
    BY <1>1, <1>2 DEF IndInv, DelayedOK

LEMMA AppSendPlaces == ASSUME IndInv, PlaceInv, NEW s \in Flow, AppSend(s) PROVE PlaceInv'
<1> DEFINE x == [type |-> "DATA", flow |-> s]
           p == NewDatagram(s.src, s.dst, UnicastTtl, x)
<1>1. x.type = "DATA" /\ x.flow = s
    OBVIOUS
<1>2. p.dst = s.dst /\ p.src = s.src /\ p.body = x
    BY DEF NewDatagram
<1>3. /\ s \notin sent /\ sent' = sent \cup {s} /\ UNCHANGED <<ipOut, delivered>>
      /\ ensureRouteForDatagram(s.src, p, air)
    BY DEF AppSend
<1> HIDE DEF x, p
<1>4. s.src \in Node /\ p.dst \in Node /\ Carries(p, s)
    BY <1>1, <1>2, FlowAssumption DEF Carries, IsData
<1>5. \A fl \in Flow : Carries(p, fl) => fl = s
    BY <1>1, <1>2 DEF Carries
<1>6. ControlOnly'
    BY <1>3 DEF PlaceInv, ControlOnly
<1>7. CASE RouteOut(s.src, p, air)
  <2> DEFINE nh == routes[s.src][p.dst].nextHop
  <2>1. air' = air \cup UnicastFrame(s.src, nh, p) /\ UNCHANGED delayedPackets
      BY <1>7 DEF RouteOut, discovery
  <2>2. ASSUME NEW fl \in Flow PROVE InOnePlace(fl)'
    <3>1. Waiting(fl)' = Waiting(fl)
        BY <2>1 DEF Waiting
    <3>2. CASE fl = s
      <4>1. OnAir(fl) = {} /\ Waiting(fl) = {} /\ fl \notin delivered
          BY <1>3, <3>2 DEF PlaceInv, InOnePlace
      <4>2. OnAir(fl)' \subseteq UnicastFrame(s.src, nh, p)
          BY <2>1, <4>1 DEF OnAir
      <4>3. \A f, g \in UnicastFrame(s.src, nh, p) : f = g
          BY DEF UnicastFrame
      <4> QED
          BY <1>3, <3>1, <3>2, <4>1, <4>2, <4>3 DEF InOnePlace
    <3>3. CASE fl # s
      <4>1. OnAir(fl)' \subseteq OnAir(fl)
          BY <1>5, <2>1, <3>3, UnicastCarries DEF OnAir
      <4> QED
          BY <1>3, <3>1, <3>3, <4>1 DEF PlaceInv, InOnePlace
    <3> QED
        BY <3>2, <3>3
  <2> QED
      BY <1>6, <2>2 DEF PlaceInv
<1>8. CASE delayDatagram(s.src, p, air)
  <2>1. /\ \A f \in air' : IsData(f.dgram) => f \in air
        /\ \A m \in Node : delayedPackets'[m] = IF m = s.src THEN delayedPackets[m] \cup {p}
                                                ELSE delayedPackets[m]
      BY <1>4, <1>8, delayDatagramPlaces
  <2>2. ASSUME NEW fl \in Flow PROVE InOnePlace(fl)'
    <3>1. OnAir(fl)' \subseteq OnAir(fl)
        BY <2>1 DEF OnAir, Carries
    <3>2. CASE fl = s
      <4>1. OnAir(fl) = {} /\ Waiting(fl) = {} /\ fl \notin delivered
          BY <1>3, <3>2 DEF PlaceInv, InOnePlace
      <4>2. ASSUME NEW w \in Waiting(fl)' PROVE w = <<s.src, p>>
        <5>1. /\ w \in Node \X Datagram /\ w[1] \in Node /\ w = <<w[1], w[2]>>
              /\ w[2] \in delayedPackets'[w[1]] /\ Carries(w[2], fl)
            BY <4>2 DEF Waiting
        <5>2. w[2] \notin delayedPackets[w[1]]
            BY <4>1, <5>1 DEF Waiting
        <5> QED
            BY <2>1, <5>1, <5>2
      <4> QED
          BY <1>3, <3>1, <3>2, <4>1, <4>2 DEF InOnePlace
    <3>3. CASE fl # s
      <4>1. Waiting(fl)' \subseteq Waiting(fl)
        <5> SUFFICES ASSUME NEW w \in Waiting(fl)' PROVE w \in Waiting(fl)
            OBVIOUS
        <5>1. /\ w \in Node \X Datagram /\ w[1] \in Node
              /\ w[2] \in delayedPackets'[w[1]] /\ Carries(w[2], fl)
            BY DEF Waiting
        <5>2. w[2] # p
            BY <1>5, <3>3, <5>1
        <5> QED
            BY <2>1, <5>1, <5>2 DEF Waiting
      <4> QED
          BY <1>3, <3>1, <3>3, <4>1 DEF PlaceInv, InOnePlace
    <3> QED
        BY <3>2, <3>3
  <2> QED
      BY <1>6, <2>2 DEF PlaceInv
<1> QED
    BY <1>3, <1>7, <1>8 DEF ensureRouteForDatagram

LEMMA IPLocalOutPlaces ==
    ASSUME IndInv, PlaceInv, NEW p \in ipOut, IPLocalOut(p) PROVE PlaceInv'
<1>1. p.src \in Node /\ p.dst \in Node /\ ~IsData(p)
    BY DEF IndInv, TrafficOK, GoodPackets, Datagram, PlaceInv, ControlOnly
<1>2. ControlOnly' /\ UNCHANGED appVars
    BY DEF IPLocalOut, PlaceInv, ControlOnly
<1>3. CASE RouteOut(p.src, p, air)
  <2>1. /\ air' = air \cup UnicastFrame(p.src, routes[p.src][p.dst].nextHop, p)
        /\ UNCHANGED delayedPackets
      BY <1>3 DEF RouteOut, discovery
  <2>2. NoDataMoves
      BY <1>1, <1>2, <2>1, UnicastCarries DEF NoDataMoves
  <2> QED
      BY <1>2, <2>2, NoDataMovesKeeps
<1>4. CASE delayDatagram(p.src, p, air)
  <2>1. /\ \A f \in air' : IsData(f.dgram) => f \in air
        /\ \A m \in Node : delayedPackets'[m] = IF m = p.src THEN delayedPackets[m] \cup {p}
                                                ELSE delayedPackets[m]
      BY <1>1, <1>4, delayDatagramPlaces
  <2>2. NoDataMoves
      BY <1>1, <1>2, <2>1 DEF NoDataMoves
  <2> QED
      BY <1>2, <2>2, NoDataMovesKeeps
<1> QED
    BY <1>3, <1>4 DEF IPLocalOut, ensureRouteForDatagram

(* The handlers of control packets.                                         *)
LEMMA ControlIsControl ==
    ASSUME NEW n, NEW dst, NEW x, x.type # "DATA" PROVE ~IsData(UnicastControl(n, dst, x))
BY DEF UnicastControl, NewDatagram, IsData

LEMMA sendRREPPlaces ==
    ASSUME PlaceInv, NEW n, NEW t, NEW reply, reply.type = "RREP", NEW others,
           \A p \in others : ~IsData(p), sendRREP(n, t, reply, others)
    PROVE  ControlOnly'
<1> DEFINE isNeighbour == t[reply.orig].metric = 1
           x == [reply EXCEPT !.ack = isNeighbour]
           p == UnicastControl(n, t[reply.orig].nextHop, x)
<1>1. x.type = "RREP"
    OBVIOUS
<1>2. ipOut' = ipOut \cup others \cup {p}
    BY DEF sendRREP
<1> HIDE DEF x
<1>3. ~IsData(p)
    BY <1>1, ControlIsControl
<1> HIDE DEF p
<1> QED
    BY <1>2, <1>3 DEF PlaceInv, ControlOnly

LEMMA handleRREQPlaces ==
    ASSUME PlaceInv, NEW n \in Node, NEW f \in air, handleRREQ(n, f) PROVE PlaceInv'
<1> DEFINE q == f.dgram.body
           t == TableAfterRREQ(n, f)
<1>1. UNCHANGED <<delayedPackets, sent, delivered>>
    BY DEF handleRREQ, RREQIgnored, RREQDuplicate, RREQReplyAsDestination,
           RREQReplyAsIntermediate, RREQWouldLoop, RREQForward, FreshRREQ, discovery, appVars
<1>2. CASE RREQIgnored(n, f) \/ RREQDuplicate(n, f) \/ RREQWouldLoop(n, f)
  <2>1. air' = air \ {f} /\ UNCHANGED ipOut
      BY <1>2 DEF RREQIgnored, RREQDuplicate, RREQWouldLoop
  <2> QED
      BY <1>1, <2>1, NoDataMovesKeeps DEF NoDataMoves, appVars, PlaceInv, ControlOnly
<1>3. CASE RREQReplyAsDestination(n, f)
  <2>1. PICK seq : sendRREP(n, t, createRREP(q, 0, seq), {}) /\ air' = air \ {f}
      BY <1>3 DEF RREQReplyAsDestination
  <2>2. createRREP(q, 0, seq).type = "RREP"
      BY DEF createRREP
  <2> HIDE DEF q, t
  <2>3. ControlOnly'
      BY <2>1, <2>2, sendRREPPlaces
  <2> QED
      BY <1>1, <2>1, <2>3, NoDataMovesKeeps DEF NoDataMoves, appVars
<1>4. CASE RREQReplyAsIntermediate(n, f)
  <2> DEFINE r == t[q.dest]
             x == createGratuitousRREP(q, t[q.orig].metric)
             gratuitous == UnicastControl(n, r.nextHop, x)
             reply == createRREP(q, r.metric, r.destSeqNum)
             others == IF AskGratuitousRREP THEN {gratuitous} ELSE {}
  <2>1. sendRREP(n, AddPrecursor(t, q.dest), reply, others) /\ air' = air \ {f}
      BY <1>4 DEF RREQReplyAsIntermediate
  <2>2. x.type = "RREP" /\ reply.type = "RREP"
      BY DEF createRREP, createGratuitousRREP
  <2> HIDE DEF reply, x
  <2>3. \A p \in others : ~IsData(p)
      BY <2>2, ControlIsControl
  <2> HIDE DEF others, t, q
  <2>4. ControlOnly'
      BY <2>1, <2>2, <2>3, sendRREPPlaces
  <2> QED
      BY <1>1, <2>1, <2>4, NoDataMovesKeeps DEF NoDataMoves, appVars
<1>5. CASE RREQForward(n, f)
  <2>1. PICK seq : air' = (air \ {f}) \cup
               (IF f.dgram.ttl > 1 /\ ~rebooting[n]
                THEN BroadcastFrames(n, f.dgram.ttl - 1, forwardRREQ(q, seq)) ELSE {})
      BY <1>5 DEF RREQForward
  <2>2. UNCHANGED ipOut /\ q.type = "RREQ"
      BY <1>5 DEF RREQForward, FreshRREQ, Arrives
  <2> DEFINE x == forwardRREQ(q, seq)
             ttl == f.dgram.ttl - 1
  <2>3. x.type = "RREQ"
      BY <2>2 DEF forwardRREQ
  <2> HIDE DEF x, q, ttl
  <2>4. \A g \in BroadcastFrames(n, ttl, x) : ~IsData(g.dgram)
      BY <2>3, BroadcastCarries DEF IsData
  <2>5. \A g \in air' : IsData(g.dgram) => g \in air
    <3>1. air' \subseteq air \cup BroadcastFrames(n, ttl, x)
        BY <2>1 DEF x, ttl, q
    <3> QED
        BY <2>4, <3>1
  <2> QED
      BY <1>1, <2>2, <2>5, NoDataMovesKeeps DEF NoDataMoves, appVars, PlaceInv, ControlOnly
<1> QED
    BY <1>2, <1>3, <1>4, <1>5 DEF handleRREQ

(* A reply completes a discovery: what waited for its destination goes on   *)
(* the air, and nothing of it stays behind.                                 *)
LEMMA RREPCompletesPlaces ==
    ASSUME IndInv, PlaceInv, NEW n \in Node, NEW f \in air, RREPCompletes(n, f) PROVE PlaceInv'
<1> DEFINE d == f.dgram.body.dest
           nh == f.dgram.src
           waiting == {p \in delayedPackets[n] : p.dst = d}
           released == UNION {UnicastFrame(n, nh, p) : p \in waiting}
<1>1. /\ air' = (air \ {f}) \cup released
      /\ delayedPackets' = [delayedPackets EXCEPT ![n] = @ \ waiting]
      /\ UNCHANGED <<ipOut, sent, delivered>>
    BY DEF RREPCompletes, completeRouteDiscovery, appVars
<1>2. delayedPackets \in [Node -> SUBSET Datagram]
    BY DEF IndInv, DelayedOK
<1>3. \A g \in released : \E p \in waiting : g \in UnicastFrame(n, nh, p)
    OBVIOUS
<1>4. \A p \in waiting : p \in Datagram /\ p \in delayedPackets[n]
    BY <1>2
<1>5. \A m \in Node : delayedPackets'[m] = IF m = n THEN delayedPackets[n] \ waiting
                                           ELSE delayedPackets[m]
    BY <1>1, <1>2
<1> HIDE DEF waiting, released, d, nh
<1>6. ASSUME NEW fl \in Flow PROVE InOnePlace(fl)'
  <2>0. InOnePlace(fl)
      BY DEF PlaceInv
  <2>1. Waiting(fl)' \subseteq Waiting(fl)
      BY <1>5 DEF Waiting
  <2>2. ASSUME NEW g \in OnAir(fl)', g \notin OnAir(fl)
        PROVE  \E p \in waiting : <<n, p>> \in Waiting(fl) /\ g \in UnicastFrame(n, nh, p)
    <3>1. g \in released /\ Carries(g.dgram, fl)
        BY <1>1, <2>2 DEF OnAir
    <3>2. PICK p \in waiting : g \in UnicastFrame(n, nh, p)
        BY <1>3, <3>1
    <3>3. Carries(p, fl)
        BY <3>1, <3>2, UnicastCarries
    <3> QED
        BY <1>4, <3>2, <3>3 DEF Waiting
  <2>3. CASE \A p \in waiting : <<n, p>> \notin Waiting(fl)
    <3>1. OnAir(fl)' \subseteq OnAir(fl)
        BY <2>2, <2>3
    <3> QED
        BY <1>1, <2>0, <2>1, <3>1 DEF InOnePlace
  <2>4. CASE \E p \in waiting : <<n, p>> \in Waiting(fl)
    <3>1. PICK p \in waiting : <<n, p>> \in Waiting(fl)
        BY <2>4
    <3>2. OnAir(fl) = {} /\ fl \notin delivered /\ fl \in sent
        BY <2>0, <3>1 DEF InOnePlace
    <3>3. \A w \in Waiting(fl) : w = <<n, p>>
        BY <2>0, <3>1 DEF InOnePlace
    <3>4. Waiting(fl)' = {}
      <4> SUFFICES ASSUME NEW w \in Waiting(fl)' PROVE FALSE
          OBVIOUS
      <4>1. w = <<n, p>>
          BY <2>1, <3>3
      <4>2. w[2] \in delayedPackets'[w[1]]
          BY DEF Waiting
      <4> QED
          BY <1>5, <4>1, <4>2
    <3>5. \A g \in OnAir(fl)' : g \in UnicastFrame(n, nh, p)
        BY <2>2, <3>2, <3>3
    <3>6. \A x, y \in UnicastFrame(n, nh, p) : x = y
        BY DEF UnicastFrame
    <3> QED
        BY <1>1, <3>2, <3>4, <3>5, <3>6 DEF InOnePlace
  <2> QED
      BY <2>3, <2>4
<1> QED
    BY <1>1, <1>6 DEF PlaceInv, ControlOnly

LEMMA handleRREPPlaces ==
    ASSUME IndInv, PlaceInv, NEW n \in Node, NEW f \in air, handleRREP(n, f) PROVE PlaceInv'
<1>1. CASE RREPHello(n, f) \/ RREPStops(n, f)
  <2>1. air' = air \ {f} /\ UNCHANGED <<ipOut, delayedPackets, appVars>>
      BY <1>1 DEF RREPHello, RREPStops, discovery
  <2> QED
      BY <2>1, NoDataMovesKeeps DEF NoDataMoves, PlaceInv, ControlOnly
<1>2. CASE RREPForward(n, f)
  <2> DEFINE p == f.dgram.body
             x == forwardRREP(p)
             ack == [type |-> "RREPACK"]
             out == UnicastControl(n, TableAfterRREP(n, f)[p.orig].nextHop, x)
             acks == {UnicastControl(n, src, ack) : src \in {y \in {f.dgram.src} : p.ack}}
  <2>1. /\ air' = air \ {f} /\ UNCHANGED <<delayedPackets, appVars>>
        /\ ipOut' = ipOut \cup acks \cup {out} /\ p.type = "RREP"
      BY <1>2 DEF RREPForward, discovery, Arrives
  <2>2. x.type = "RREP" /\ ack.type = "RREPACK"
      BY <2>1 DEF forwardRREP
  <2> HIDE DEF x, ack
  <2>3. ~IsData(out) /\ \A y \in acks : ~IsData(y)
      BY <2>2, ControlIsControl
  <2> HIDE DEF out, acks
  <2>4. ControlOnly'
      BY <2>1, <2>3 DEF PlaceInv, ControlOnly
  <2> QED
      BY <2>1, <2>4, NoDataMovesKeeps DEF NoDataMoves
<1> QED
    BY <1>1, <1>2, RREPCompletesPlaces DEF handleRREP

LEMMA broadcastRERRPlaces ==
    ASSUME NEW n, NEW dests, NEW seqNum, NEW rest, broadcastRERR(n, dests, seqNum, rest)
    PROVE  \A f \in air' : IsData(f.dgram) => f \in rest
<1> DEFINE x == [type |-> "RERR", dests |-> dests,
                 seqNum |-> [d \in Node |-> IF d \in dests THEN seqNum[d] ELSE 0]]
<1>1. x.type = "RERR"
    OBVIOUS
<1>2. air' = rest \/ air' = rest \cup BroadcastFrames(n, 1, x)
    BY DEF broadcastRERR
<1> HIDE DEF x
<1>3. \A f \in BroadcastFrames(n, 1, x) : ~IsData(f.dgram)
    BY <1>1, BroadcastCarries DEF IsData
<1> QED
    BY <1>2, <1>3

LEMMA ErrorsPlaces ==
    ASSUME PlaceInv, NEW f \in air, (f.to \in Node /\ handleRERR(f.to, f)) \/ LinkBreak(f) \/ FrameLost(f)
    PROVE  PlaceInv'
<1>1. UNCHANGED <<ipOut, delayedPackets, appVars>>
    BY DEF handleRERR, LinkBreak, FrameLost, discovery
<1>2. \A g \in air' : IsData(g.dgram) => g \in air \ {f}
  <2>1. CASE handleRERR(f.to, f)
      BY <2>1, broadcastRERRPlaces DEF handleRERR
  <2>2. CASE LinkBreak(f)
      BY <2>2, broadcastRERRPlaces DEF LinkBreak, handleLinkBreakSendRERR
  <2>3. CASE FrameLost(f)
      BY <2>3 DEF FrameLost
  <2> QED
      BY <2>1, <2>2, <2>3
<1> QED
    BY <1>1, <1>2, NoDataMovesKeeps DEF NoDataMoves, PlaceInv, ControlOnly

LEMMA HopKeepsBody == ASSUME NEW p \in Datagram PROVE Hop(p).body = p.body /\ Hop(p).dst = p.dst
BY DEF Hop, Datagram

(* A frame leaves the air; what it carried goes to at most one place.       *)
LEMMA MovesToAir ==
    ASSUME PlaceInv, NEW f \in air, NEW n, NEW nh, NEW p, p.body = f.dgram.body,
           \A g \in air' : IsData(g.dgram) => g \in (air \ {f}) \cup UnicastFrame(n, nh, p),
           UNCHANGED <<ipOut, delayedPackets, sent, delivered>>
    PROVE  PlaceInv'
<1>1. ASSUME NEW fl \in Flow PROVE InOnePlace(fl)'
  <2>0. InOnePlace(fl) /\ Waiting(fl)' = Waiting(fl)
      BY DEF PlaceInv, Waiting
  <2>1. \A g \in OnAir(fl)' : g \in OnAir(fl) \ {f} \/ g \in UnicastFrame(n, nh, p)
      BY DEF OnAir, Carries
  <2>2. CASE f \in OnAir(fl)
    <3>1. \A g \in OnAir(fl)' : g \in UnicastFrame(n, nh, p)
        BY <2>0, <2>1, <2>2 DEF InOnePlace
    <3>2. \A x, y \in UnicastFrame(n, nh, p) : x = y
        BY DEF UnicastFrame
    <3> QED
        BY <2>0, <2>2, <3>1, <3>2 DEF InOnePlace
  <2>3. CASE f \notin OnAir(fl)
    <3>1. ~Carries(p, fl)
        BY <2>3 DEF OnAir, Carries, IsData
    <3>2. \A g \in UnicastFrame(n, nh, p) : g \notin OnAir(fl)'
        BY <3>1, UnicastCarries DEF OnAir
    <3>3. OnAir(fl)' \subseteq OnAir(fl)
        BY <2>1, <3>2
    <3> QED
        BY <2>0, <3>3 DEF InOnePlace
  <2> QED
      BY <2>2, <2>3
<1> QED
    BY <1>1 DEF PlaceInv, ControlOnly

LEMMA datagramForwardHookPlaces ==
    ASSUME IndInv, PlaceInv, NEW n \in Node, NEW f \in air, datagramForwardHook(n, f)
    PROVE  PlaceInv'
<1>1. PICK nh, seqNum :
        LET rest == (air \ {f}) \cup UnicastFrame(n, nh, Hop(f.dgram))
        IN  air' = rest \/ broadcastRERR(n, {f.dgram.dst}, seqNum, rest)
    BY DEF datagramForwardHook
<1>2. UNCHANGED <<ipOut, delayedPackets, sent, delivered>>
    BY DEF datagramForwardHook, discovery, appVars
<1> DEFINE p == Hop(f.dgram)
           rest == (air \ {f}) \cup UnicastFrame(n, nh, p)
<1>3. p.body = f.dgram.body
    BY AirFrame, FrameFields, HopKeepsBody
<1>4. \A g \in air' : IsData(g.dgram) => g \in rest
  <2>1. air' = rest \/ broadcastRERR(n, {f.dgram.dst}, seqNum, rest)
      BY <1>1
  <2> HIDE DEF rest
  <2> QED
      BY <2>1, broadcastRERRPlaces
<1> HIDE DEF p
<1> QED
    BY <1>2, <1>3, <1>4, MovesToAir

LEMMA DelayReturnedPlaces ==
    ASSUME IndInv, PlaceInv, NEW n \in Node, NEW f \in air, DelayReturned(n, f)
    PROVE  PlaceInv'
<1> DEFINE p == Hop(f.dgram)
<1>1. p.body = f.dgram.body /\ p.dst \in Node
    BY AirFrame, FrameFields, HopKeepsBody DEF DelayReturned, Transit
<1>2. delayDatagram(n, p, air \ {f}) /\ UNCHANGED <<ipOut, sent, delivered>>
    BY DEF DelayReturned, appVars
<1> HIDE DEF p
<1>3. /\ \A g \in air' : IsData(g.dgram) => g \in air \ {f}
      /\ \A m \in Node : delayedPackets'[m] = IF m = n THEN delayedPackets[n] \cup {p}
                                              ELSE delayedPackets[m]
    BY <1>1, <1>2, delayDatagramPlaces
<1>4. ASSUME NEW fl \in Flow PROVE InOnePlace(fl)'
  <2>0. InOnePlace(fl)
      BY DEF PlaceInv
  <2>1. OnAir(fl)' \subseteq OnAir(fl) \ {f}
      BY <1>3 DEF OnAir, Carries
  <2>2. ASSUME NEW w \in Waiting(fl)'
        PROVE  w \in Waiting(fl) \/ (w = <<n, p>> /\ f \in OnAir(fl))
    <3>1. /\ w \in Node \X Datagram /\ w[1] \in Node /\ w = <<w[1], w[2]>>
          /\ w[2] \in delayedPackets'[w[1]] /\ Carries(w[2], fl)
        BY <2>2 DEF Waiting
    <3>2. CASE w[2] \in delayedPackets[w[1]]
        BY <3>1, <3>2 DEF Waiting
    <3>3. CASE w[2] \notin delayedPackets[w[1]]
      <4>1. w = <<n, p>> /\ Carries(p, fl)
          BY <1>3, <3>1, <3>3
      <4>2. Carries(f.dgram, fl)
          BY <1>1, <4>1 DEF Carries, IsData
      <4> QED
          BY <4>1, <4>2 DEF OnAir
    <3> QED
        BY <3>2, <3>3
  <2>3. CASE f \in OnAir(fl)
    <3>1. Waiting(fl) = {} /\ OnAir(fl)' = {}
        BY <2>0, <2>1, <2>3 DEF InOnePlace
    <3>2. \A x, y \in Waiting(fl)' : x = y
        BY <2>2, <3>1
    <3> QED
        BY <1>2, <2>0, <2>3, <3>1, <3>2 DEF InOnePlace
  <2>4. CASE f \notin OnAir(fl)
    <3>1. Waiting(fl)' \subseteq Waiting(fl)
        BY <2>2, <2>4
    <3> QED
        BY <1>2, <2>0, <2>1, <3>1 DEF InOnePlace
  <2> QED
      BY <2>3, <2>4
<1> QED
    BY <1>2, <1>4 DEF PlaceInv, ControlOnly

LEMMA DeliverDataPlaces ==
    ASSUME PlaceInv, NEW n \in Node, NEW f \in air, DeliverData(n, f) PROVE PlaceInv'
<1>1. /\ delivered' = delivered \cup {f.dgram.body.flow} /\ air' = air \ {f}
      /\ UNCHANGED <<ipOut, delayedPackets, sent>> /\ f.dgram.body.type = "DATA"
    BY DEF DeliverData, discovery, Arrives
<1>2. ASSUME NEW fl \in Flow PROVE InOnePlace(fl)'
  <2>0. InOnePlace(fl) /\ Waiting(fl)' = Waiting(fl) /\ OnAir(fl)' = OnAir(fl) \ {f}
      BY <1>1 DEF PlaceInv, Waiting, OnAir
  <2>1. CASE f \in OnAir(fl)
      BY <1>1, <2>0, <2>1 DEF InOnePlace
  <2>2. CASE f \notin OnAir(fl)
    <3>1. fl # f.dgram.body.flow
        BY <1>1, <2>2 DEF OnAir, Carries, IsData
    <3> QED
        BY <1>1, <2>0, <3>1 DEF InOnePlace
  <2> QED
      BY <2>1, <2>2
<1> QED
    BY <1>1, <1>2 DEF PlaceInv, ControlOnly

LEMMA SelfMessagePlaces ==
    ASSUME IndInv, PlaceInv, NEW n \in Node, SelfMessage(n) PROVE PlaceInv'
<1>0. ASSUME UNCHANGED <<ipOut, appVars>>, \A f \in air' : IsData(f.dgram) => f \in air,
             \A m \in Node : delayedPackets'[m] \subseteq delayedPackets[m]
      PROVE  PlaceInv'
    BY <1>0, NoDataMovesKeeps DEF NoDataMoves, PlaceInv, ControlOnly
<1>1. ASSUME NEW d \in Node, handleWaitForRREP(n, d) PROVE PlaceInv'
  <2>1. CASE RetryRREQ(n, d)
    <3>1. \A f \in air' : IsData(f.dgram) => f \in air
        BY <2>1, OriginateNoData DEF RetryRREQ
    <3> QED
        BY <1>0, <1>1, <2>1, <3>1 DEF RetryRREQ, handleWaitForRREP
  <2>2. CASE cancelRouteDiscovery(n, d)
      BY <1>0, <1>1, <2>2 DEF cancelRouteDiscovery, handleWaitForRREP, IndInv, DelayedOK
  <2> QED
      BY <1>1, <2>1, <2>2 DEF handleWaitForRREP
<1>2. CASE CounterTimer(n) \/ handleRREPACKTimer(n) \/ handleBlackListTimer(n)
    BY <1>0, <1>2 DEF CounterTimer, handleRREPACKTimer, handleBlackListTimer, discovery
<1>3. ASSUME NEW d \in Node, expungeRoutes(n, d) PROVE PlaceInv'
    BY <1>0, <1>3 DEF expungeRoutes, discovery
<1>4. ASSUME NEW k \in rreqsArrivalTime[n], ForgetRREQ(n, k) PROVE PlaceInv'
    BY <1>0, <1>4 DEF ForgetRREQ
<1>5. CASE sendHelloMessagesIfNeeded(n)
  <2> DEFINE x == [type |-> "RREP", ack |-> FALSE, hopCount |-> 0, dest |-> n,
                   destSeqNum |-> sequenceNum[n], orig |-> Unspecified, origSeqNum |-> 0]
  <2>1. x.type = "RREP"
      OBVIOUS
  <2>2. air' = air \cup BroadcastFrames(n, 1, x) /\ UNCHANGED <<ipOut, appVars, delayedPackets>>
      BY <1>5 DEF sendHelloMessagesIfNeeded, discovery
  <2> HIDE DEF x
  <2>3. \A f \in BroadcastFrames(n, 1, x) : ~IsData(f.dgram)
      BY <2>1, BroadcastCarries DEF IsData
  <2> QED
      BY <1>0, <2>2, <2>3
<1> QED
    BY <1>1, <1>2, <1>3, <1>4, <1>5 DEF SelfMessage

LEMMA LifecyclePlaces ==
    ASSUME IndInv, PlaceInv, NEW n \in Node, Stop(n) \/ Start(n) \/ RebootCompleted(n)
    PROVE  PlaceInv'
<1>1. UNCHANGED <<ipOut, air, appVars>>
    BY DEF Stop, Start, RebootCompleted
<1>2. \A m \in Node : delayedPackets'[m] \subseteq delayedPackets[m]
    BY DEF Stop, Start, RebootCompleted, clearState, discovery, IndInv, DelayedOK
<1> QED
    BY <1>1, <1>2, NoDataMovesKeeps DEF NoDataMoves, PlaceInv, ControlOnly

LEMMA PlaceNext == IndInv /\ PlaceInv /\ [Next]_vars => PlaceInv'
<1> SUFFICES ASSUME IndInv, PlaceInv, [Next]_vars PROVE PlaceInv'
    OBVIOUS
<1>1. ASSUME NEW fl \in Flow, AppSend(fl) PROVE PlaceInv'
    BY <1>1, AppSendPlaces
<1>2. ASSUME NEW p \in ipOut, IPLocalOut(p) PROVE PlaceInv'
    BY <1>2, IPLocalOutPlaces
<1>3. ASSUME NEW p \in ipOut, DropWhenDown(p) PROVE PlaceInv'
    BY <1>3, NoDataMovesKeeps DEF DropWhenDown, discovery, NoDataMoves, PlaceInv, ControlOnly
<1>4. ASSUME NEW f \in air, Receive(f.to, f) PROVE PlaceInv'
    BY <1>4, AirFrame, FrameFields, handleRREQPlaces, handleRREPPlaces, ErrorsPlaces,
       DelayReturnedPlaces, datagramForwardHookPlaces, DeliverDataPlaces DEF Receive
<1>5. ASSUME NEW f \in air, LinkBreak(f) \/ FrameLost(f) PROVE PlaceInv'
    BY <1>5, ErrorsPlaces
<1>6. ASSUME NEW n \in Node, SelfMessage(n) PROVE PlaceInv'
    BY <1>6, SelfMessagePlaces
<1>7. ASSUME NEW n \in Node, Stop(n) \/ Start(n) \/ RebootCompleted(n) PROVE PlaceInv'
    BY <1>7, LifecyclePlaces
<1>8. CASE UNCHANGED vars
    BY <1>8, NoDataMovesKeeps DEF vars, discovery, NoDataMoves, PlaceInv, ControlOnly
<1> QED
    BY <1>1, <1>2, <1>3, <1>4, <1>5, <1>6, <1>7, <1>8 DEF Next

LEMMA AtMostOneElement ==
    ASSUME NEW S, \A x, y \in S : x = y
    PROVE  (Cardinality(S) = 0 /\ S = {}) \/ (Cardinality(S) = 1 /\ S # {})
<1>1. CASE S = {}
    BY <1>1, FS_EmptySet
<1>2. CASE S # {}
  <2>1. PICK x : S = {x}
      BY <1>2
  <2> QED
      BY <2>1, FS_Singleton
<1> QED
    BY <1>1, <1>2

LEMMA PlaceImplies == IndInv /\ PlaceInv => DatagramNotDuplicated
<1> SUFFICES ASSUME IndInv, PlaceInv, NEW fl \in Flow
             PROVE  LET OfFlow(p) == p.body.type = "DATA" /\ p.body.flow = fl
                        copies == {f \in air : OfFlow(f.dgram)}
                        held   == {n \in Node : \E p \in delayedPackets[n] : OfFlow(p)}
                    IN  Cardinality(copies) + Cardinality(held)
                          + (IF fl \in delivered THEN 1 ELSE 0) <= 1
    BY DEF DatagramNotDuplicated
<1> DEFINE holders == {n \in Node : \E p \in delayedPackets[n] :
                           p.body.type = "DATA" /\ p.body.flow = fl}
           copies == {f \in air : f.dgram.body.type = "DATA" /\ f.dgram.body.flow = fl}
<1>1. InOnePlace(fl)
    BY DEF PlaceInv
<1>2. copies = OnAir(fl)
    BY DEF OnAir, Carries, IsData
<1>3. ASSUME NEW n \in holders PROVE \E p : <<n, p>> \in Waiting(fl)
  <2>1. PICK p \in delayedPackets[n] : Carries(p, fl)
      BY <1>3 DEF Carries, IsData
  <2>2. n \in Node /\ p \in Datagram
      BY <1>3, <2>1 DEF IndInv, DelayedOK
  <2>3. <<n, p>> \in Waiting(fl)
      BY <2>1, <2>2 DEF Waiting
  <2> QED
      BY <2>3
<1> HIDE DEF holders, copies
<1>4. \A n, m \in holders : n = m
  <2> SUFFICES ASSUME NEW n \in holders, NEW m \in holders PROVE n = m
      OBVIOUS
  <2>1. PICK p : <<n, p>> \in Waiting(fl)
      BY <1>3
  <2>2. PICK q : <<m, q>> \in Waiting(fl)
      BY <1>3
  <2>3. <<n, p>> = <<m, q>>
      BY <1>1, <2>1, <2>2 DEF InOnePlace
  <2> QED
      BY <2>3
<1>5. (Cardinality(copies) = 0 /\ copies = {}) \/ (Cardinality(copies) = 1 /\ copies # {})
    BY <1>1, <1>2, AtMostOneElement DEF InOnePlace
<1>6. (Cardinality(holders) = 0 /\ holders = {}) \/ (Cardinality(holders) = 1 /\ holders # {})
    BY <1>4, AtMostOneElement
<1>7. copies = {} \/ holders = {}
    BY <1>1, <1>2, <1>3 DEF InOnePlace
<1>8. fl \in delivered => copies = {} /\ holders = {}
    BY <1>1, <1>2, <1>3 DEF InOnePlace
<1>9. Cardinality(copies) + Cardinality(holders) + (IF fl \in delivered THEN 1 ELSE 0) <= 1
    BY <1>5, <1>6, <1>7, <1>8
<1> QED
    BY <1>9 DEF copies, holders

(* For every network and every pattern of losses, expiries and crashes: an  *)
(* application's datagram is never in two places, neither after a discovery *)
(* has been retried nor when it has come back in a loop.                    *)
THEOREM DatagramsAreNotDuplicated == Spec => []DatagramNotDuplicated
<1>1. Init => IndInv /\ PlaceInv
  <2>1. Init => PlaceInv
      BY DEF Init, PlaceInv, ControlOnly, InOnePlace, OnAir, Waiting
  <2> QED
      BY <2>1, InitIndInv
<1>2. IndInv /\ PlaceInv /\ [Next]_vars => (IndInv /\ PlaceInv)'
    BY NextIndInv, PlaceNext
<1>3. IndInv /\ PlaceInv => DatagramNotDuplicated
    BY PlaceImplies
<1> QED
    BY <1>1, <1>2, <1>3, PTL DEF Spec

-----------------------------------------------------------------------------
(* Networks without failures: links work both ways, nothing is lost, no     *)
(* route expires and no node stops.  Then no route is ever fresher than its *)
(* destination, and the next hop of a route is its destination or has a     *)
(* route to it, so that no datagram is stranded and no RERR is ever sent.   *)

FaultFree ==
    /\ MaxLoss = 0 /\ MaxExpunge = 0 /\ MaxCrash = 0
    /\ \A m, n \in Node : <<m, n>> \in Link => <<n, m>> \in Link

Untroubled ==
    /\ \A n \in Node : isOperational[n]
    /\ budget["loss"] = 0 /\ budget["expunge"] = 0 /\ budget["crash"] = 0

Leads(n, d) == n = d \/ HasRoute(routes[n], d)

Fresh(n, d, r) ==
    /\ r.active
    /\ <<n, r.nextHop>> \in Link
    /\ Leads(r.nextHop, d)
    /\ r.validDestNum => r.destSeqNum <= sequenceNum[d]

FreshTable(n, t) == \A d \in Node : HasRoute(t, d) => Fresh(n, d, t[d])

(* Unicast control packets go to a neighbour.  A request or reply was sent  *)
(* by the node it leads to or by one with a route to it, and carries a      *)
(* number that node has issued.  Only the originator sets the U flag, and   *)
(* only a hello message has no originator.                                  *)
FreshRequest(p) ==
    /\ Leads(p.src, p.body.orig)
    /\ p.body.origSeqNum <= sequenceNum[p.body.orig]
    /\ p.body.unknownSeqNum => p.src = p.body.orig

FreshReply(p) ==
    /\ Leads(p.src, p.body.dest)
    /\ p.body.destSeqNum <= sequenceNum[p.body.dest]
    /\ p.body.orig = Unspecified => p.src = p.body.dest

FreshPacket(p) ==
    /\ p.body.type # "RERR"
    /\ ~IsData(p) /\ p.dst # Broadcast => <<p.src, p.dst>> \in Link
    /\ p.body.type = "RREQ" => FreshRequest(p)
    /\ p.body.type = "RREP" => FreshReply(p)

FreshFrame(f) ==
    /\ FreshPacket(f.dgram)
    /\ <<f.from, f.to>> \in Link
    /\ f.dgram.dst = Broadcast => f.dgram.src = f.from
    /\ f.dgram.dst # Broadcast => Leads(f.to, f.dgram.dst)

FreshInv ==
    /\ Untroubled
    /\ \A n \in Node : FreshTable(n, routes[n])
    /\ \A p \in ipOut : FreshPacket(p)
    /\ \A n \in Node : \A p \in delayedPackets[n] : FreshPacket(p)
    /\ \A f \in air : FreshFrame(f)

(* Steps only add routes and raise sequence numbers, so what was fresh      *)
(* stays fresh.                                                             *)
Covers(t, u) == \A d \in Node : HasRoute(t, d) => HasRoute(u, d)

Grows ==
    /\ \A d \in Node : sequenceNum[d] <= sequenceNum'[d]
    /\ \A n \in Node : Covers(routes[n], routes'[n])

LEMMA LeadsGrows == ASSUME Grows, NEW n \in Node, NEW d \in Node, Leads(n, d) PROVE Leads(n, d)'
BY DEF Grows, Covers, Leads

LEMMA PacketGrows ==
    ASSUME IndInv, IndInv', Grows, NEW p \in Datagram, FreshPacket(p) PROVE FreshPacket(p)'
<1>0. sequenceNum \in [Node -> Nat] /\ sequenceNum' \in [Node -> Nat]
    BY DEF IndInv, CountersOK
<1>1. p.src \in Node /\ p.body \in Body
    BY DEF Datagram
<1>2. ASSUME p.body.type = "RREQ" PROVE FreshRequest(p)'
  <2>1. p.body.orig \in Node /\ p.body.origSeqNum \in Nat
      BY <1>1, <1>2, BodyByType DEF RREQ
  <2>2. FreshRequest(p)
      BY <1>2 DEF FreshPacket
  <2> QED
      BY <1>0, <1>1, <2>1, <2>2, LeadsGrows DEF FreshRequest, Grows
<1>3. ASSUME p.body.type = "RREP" PROVE FreshReply(p)'
  <2>1. p.body.dest \in Node /\ p.body.destSeqNum \in Nat
      BY <1>1, <1>3, BodyByType DEF RREP
  <2>2. FreshReply(p)
      BY <1>3 DEF FreshPacket
  <2> QED
      BY <1>0, <1>1, <2>1, <2>2, LeadsGrows DEF FreshReply, Grows
<1> QED
    BY <1>2, <1>3 DEF FreshPacket

LEMMA FrameGrows ==
    ASSUME IndInv, IndInv', Grows, NEW f \in Frame, FreshFrame(f) PROVE FreshFrame(f)'
<1>1. f.dgram \in Datagram /\ f.to \in Node /\ f.dgram.dst \in Node \cup {Broadcast}
    BY FrameFields
<1>2. FreshPacket(f.dgram)'
    BY <1>1, PacketGrows DEF FreshFrame
<1>3. f.dgram.dst # Broadcast => Leads(f.to, f.dgram.dst)'
    BY <1>1, LeadsGrows DEF FreshFrame
<1> QED
    BY <1>2, <1>3 DEF FreshFrame

(* What a step has to show.                                                 *)
LEMMA StepFresh ==
    ASSUME IndInv, IndInv', FreshInv, Grows, Untroubled',
           \A n \in Node : FreshTable(n, routes[n])',
           \A p \in ipOut' : p \in ipOut \/ FreshPacket(p)',
           \A n \in Node : \A p \in delayedPackets'[n] :
               p \in delayedPackets[n] \/ p \in ipOut \/ FreshPacket(p)',
           \A f \in air' : f \in air \/ FreshFrame(f)'
    PROVE  FreshInv'
<1>1. \A p \in ipOut : p \in Datagram /\ FreshPacket(p)
    BY DEF IndInv, TrafficOK, GoodPackets, FreshInv
<1>2. \A p \in ipOut : FreshPacket(p)'
    BY <1>1, PacketGrows
<1>3. ASSUME NEW n \in Node, NEW p \in delayedPackets[n] PROVE FreshPacket(p)'
  <2>1. p \in Datagram /\ FreshPacket(p)
      BY DEF IndInv, DelayedOK, FreshInv
  <2> QED
      BY <2>1, PacketGrows
<1>4. ASSUME NEW f \in air PROVE FreshFrame(f)'
  <2>1. f \in Frame /\ FreshFrame(f)
      BY AirFrame DEF FreshInv
  <2> QED
      BY <2>1, FrameGrows
<1> QED
    BY <1>2, <1>3, <1>4 DEF FreshInv

-----------------------------------------------------------------------------
(* Tables on the way through a handler: nothing is forgotten, and every     *)
(* route is fresh by what is known when the handler starts.                 *)
GoodTable(n, t) == t \in RouteTable /\ FreshTable(n, t) /\ Covers(routes[n], t)

LEMMA OwnTableGood == ASSUME IndInv, FreshInv, NEW n \in Node PROVE GoodTable(n, routes[n])
BY TableOfNode DEF IndInv, FreshInv, GoodTable, Covers

LEMMA UpdateRouteGood ==
    ASSUME NEW n \in Node, NEW t, GoodTable(n, t), NEW d \in Node, NEW nh \in Node, NEW h \in Nat,
           NEW v \in BOOLEAN, NEW s \in Nat, <<n, nh>> \in Link, Leads(nh, d),
           v => s <= sequenceNum[d]
    PROVE  /\ GoodTable(n, UpdateRoute(t, d, nh, h, v, s))
           /\ HasRoute(UpdateRoute(t, d, nh, h, v, s), d)
<1> DEFINE u == UpdateRoute(t, d, nh, h, v, s)
<1>0. t \in RouteTable
    BY DEF GoodTable
<1>1. u \in RouteTable /\ HasRoute(u, d)
    BY <1>0, UpdateRouteType
<1>2. u[d].active /\ u[d].nextHop = nh /\ u[d].validDestNum = v /\ u[d].destSeqNum = s
    BY <1>0 DEF UpdateRoute, RouteTable
<1>3. \A e \in Node : e # d => u[e] = t[e]
    BY <1>0 DEF UpdateRoute, RouteTable
<1> HIDE DEF u
<1>4. Fresh(n, d, u[d])
    BY <1>2 DEF Fresh
<1>5. FreshTable(n, u)
    BY <1>3, <1>4 DEF GoodTable, FreshTable, HasRoute
<1>6. Covers(routes[n], u)
    BY <1>1, <1>3 DEF GoodTable, Covers, HasRoute
<1> QED
    BY <1>1, <1>5, <1>6 DEF GoodTable, u

LEMMA AddPrecursorGood ==
    ASSUME NEW n \in Node, NEW t, GoodTable(n, t), NEW d \in Node
    PROVE  GoodTable(n, AddPrecursor(t, d)) /\ Covers(t, AddPrecursor(t, d))
<1> DEFINE u == AddPrecursor(t, d)
<1>0. t \in RouteTable
    BY DEF GoodTable
<1>1. u \in RouteTable /\ Covers(t, u)
    BY <1>0, AddPrecursorSound DEF Covers
<1>2. CASE ~HasRoute(t, d)
    BY <1>1, <1>2 DEF AddPrecursor
<1>3. CASE HasRoute(t, d)
  <2> DEFINE r == [t[d] EXCEPT !.hasPrecursor = TRUE]
  <2>1. t[d] \in Route
      BY <1>0, <1>3 DEF RouteTable, HasRoute
  <2>2. /\ r.active = t[d].active /\ r.nextHop = t[d].nextHop
        /\ r.validDestNum = t[d].validDestNum /\ r.destSeqNum = t[d].destSeqNum
      BY <2>1 DEF Route
  <2>3. u = [t EXCEPT ![d] = r]
      BY <1>3 DEF AddPrecursor
  <2> HIDE DEF r, u
  <2>4. u[d] = r /\ \A e \in Node : e # d => u[e] = t[e]
      BY <1>0, <2>3 DEF RouteTable
  <2>5. Fresh(n, d, u[d])
      BY <1>3, <2>2, <2>4 DEF GoodTable, FreshTable, Fresh
  <2>6. FreshTable(n, u)
      BY <2>4, <2>5 DEF GoodTable, FreshTable, HasRoute
  <2> QED
      BY <1>1, <2>6 DEF GoodTable, Covers, u
<1> QED
    BY <1>2, <1>3

(* The sender of a control packet is a neighbour of whoever it arrives at.  *)
LEMMA SenderIsNeighbour ==
    ASSUME FaultFree, IndInv, FreshInv, NEW n \in Node, NEW f \in air, NEW type, type # "DATA",
           Arrives(n, f, type)
    PROVE  f.dgram.src \in Node /\ <<n, f.dgram.src>> \in Link /\ FreshPacket(f.dgram)
<1>1. /\ FreshFrame(f) /\ f.dgram.src \in Node /\ f.from \in Node
      /\ f.to = n /\ f.dgram.dst \in {n, Broadcast} /\ ~IsData(f.dgram)
    BY AirFrame DEF FreshInv, Arrives, IsData
<1>2. <<f.dgram.src, n>> \in Link
  <2>1. CASE f.dgram.dst = Broadcast
      BY <1>1, <2>1 DEF FreshFrame
  <2>2. CASE f.dgram.dst # Broadcast
      BY <1>1, <2>2 DEF FreshFrame, FreshPacket
  <2> QED
      BY <2>1, <2>2
<1> QED
    BY <1>1, <1>2 DEF FaultFree, FreshFrame

LEMMA PreviousHopGood ==
    ASSUME FaultFree, IndInv, FreshInv, NEW n \in Node, NEW f \in air, NEW type,
           type # "DATA", Arrives(n, f, type), f.dgram.body.origSeqNum \in Nat
    PROVE  /\ GoodTable(n, TableAfterPreviousHop(n, f))
           /\ HasRoute(TableAfterPreviousHop(n, f), f.dgram.src)
<1> DEFINE src == f.dgram.src
           s == f.dgram.body.origSeqNum
<1>1. src \in Node /\ <<n, src>> \in Link /\ s \in Nat
    BY SenderIsNeighbour
<1>2. GoodTable(n, routes[n]) /\ 1 \in Nat /\ FALSE \in BOOLEAN
    BY OwnTableGood
<1>3. Leads(src, src)
    BY DEF Leads
<1>4. TableAfterPreviousHop(n, f) = UpdateRoute(routes[n], src, src, 1, FALSE, s)
    BY DEF TableAfterPreviousHop, PreviousHopRoute
<1> HIDE DEF src, s
<1>5. /\ GoodTable(n, UpdateRoute(routes[n], src, src, 1, FALSE, s))
      /\ HasRoute(UpdateRoute(routes[n], src, src, 1, FALSE, s), src)
    BY <1>1, <1>2, <1>3, UpdateRouteGood
<1> QED
    BY <1>4, <1>5 DEF src

(* The reverse route takes its sequence number from the request: when the U *)
(* flag forces an update, the sender is the originator itself, and the      *)
(* number just stored for the previous hop is the request's own.            *)
LEMMA ReverseGood ==
    ASSUME FaultFree, IndInv, FreshInv, NEW n \in Node, NEW f \in air, Arrives(n, f, "RREQ")
    PROVE  /\ GoodTable(n, TableAfterPreviousHop(n, f))
           /\ GoodTable(n, TableAfterRREQ(n, f))
           /\ HasRoute(TableAfterRREQ(n, f), f.dgram.body.orig)
<1> DEFINE q == f.dgram.body
           src == f.dgram.src
           t == TableAfterPreviousHop(n, f)
           old == t[q.orig]
           h == q.hopCount + 1
<1>1. /\ q.orig \in Node /\ q.origSeqNum \in Nat /\ h \in Nat /\ q.unknownSeqNum \in BOOLEAN
      /\ q.type = "RREQ"
    BY RREQFrame DEF RREQ
<1>2. src \in Node /\ <<n, src>> \in Link /\ FreshPacket(f.dgram)
    BY SenderIsNeighbour
<1>3. /\ Leads(src, q.orig) /\ q.origSeqNum <= sequenceNum[q.orig]
      /\ q.unknownSeqNum => src = q.orig
    BY <1>1, <1>2 DEF FreshPacket, FreshRequest
<1>4. GoodTable(n, t)
    BY <1>1, PreviousHopGood
<1>5. src = q.orig => old.destSeqNum = q.origSeqNum
  <2>1. t = UpdateRoute(routes[n], src, src, 1, FALSE, q.origSeqNum)
      BY DEF TableAfterPreviousHop, PreviousHopRoute
  <2>2. routes[n] \in RouteTable
      BY TableOfNode DEF IndInv
  <2> HIDE DEF q, src, t
  <2> QED
      BY <1>1, <1>2, <2>1, <2>2 DEF UpdateRoute, RouteTable, old
<1>6. HasRoute(t, q.orig) => old.destSeqNum \in Nat
    BY <1>1, <1>4 DEF GoodTable, RouteTable, Route, HasRoute
<1>7. \/ TableAfterRREQ(n, f) = t /\ HasRoute(t, q.orig)
      \/ TableAfterRREQ(n, f) = UpdateRoute(t, q.orig, src, h, TRUE, q.origSeqNum)
  <2>1. TableAfterRREQ(n, f) = ReverseRoute(t, src, q)
      BY DEF TableAfterRREQ
  <2> HIDE DEF q, src, t
  <2>2. CASE ~HasRoute(t, q.orig)
      BY <2>1, <2>2 DEF ReverseRoute, NewHopCount, h
  <2>3. CASE /\ HasRoute(t, q.orig)
             /\ \/ q.origSeqNum > old.destSeqNum
                \/ q.origSeqNum = old.destSeqNum /\ h < old.metric
                \/ q.unknownSeqNum
    <3>1. Larger(old.destSeqNum, q.origSeqNum) = q.origSeqNum
        BY <1>1, <1>3, <1>5, <1>6, <2>3 DEF Larger
    <3>2. ReverseRoute(t, src, q) =
            UpdateRoute(t, q.orig, src, h, TRUE, Larger(old.destSeqNum, q.origSeqNum))
        BY <2>3 DEF ReverseRoute, NewHopCount, h, old
    <3> QED
        BY <2>1, <3>1, <3>2
  <2>4. CASE /\ HasRoute(t, q.orig)
             /\ ~ \/ q.origSeqNum > old.destSeqNum
                  \/ q.origSeqNum = old.destSeqNum /\ h < old.metric
                  \/ q.unknownSeqNum
      BY <2>1, <2>4 DEF ReverseRoute, NewHopCount, h, old
  <2> QED
      BY <2>2, <2>3, <2>4
<1>8. TRUE \in BOOLEAN
    OBVIOUS
<1> HIDE DEF q, src, t, h, old
<1>9. /\ GoodTable(n, UpdateRoute(t, q.orig, src, h, TRUE, q.origSeqNum))
      /\ HasRoute(UpdateRoute(t, q.orig, src, h, TRUE, q.origSeqNum), q.orig)
    BY <1>1, <1>2, <1>3, <1>4, <1>8, UpdateRouteGood
<1> QED
    BY <1>4, <1>7, <1>9 DEF t, q

LEMMA ForwardGood ==
    ASSUME FaultFree, IndInv, FreshInv, NEW n \in Node, NEW f \in air, Arrives(n, f, "RREP")
    PROVE  /\ GoodTable(n, TableAfterRREP(n, f))
           /\ HasRoute(TableAfterRREP(n, f), f.dgram.body.dest)
<1> DEFINE p == f.dgram.body
           src == f.dgram.src
           t == TableAfterPreviousHop(n, f)
           h == p.hopCount + 1
<1>1. /\ p.dest \in Node /\ p.destSeqNum \in Nat /\ p.origSeqNum \in Nat /\ h \in Nat
      /\ p.type = "RREP"
    BY RREPFrame DEF RREP
<1>2. src \in Node /\ <<n, src>> \in Link /\ FreshPacket(f.dgram)
    BY SenderIsNeighbour
<1>3. Leads(src, p.dest) /\ p.destSeqNum <= sequenceNum[p.dest]
    BY <1>1, <1>2 DEF FreshPacket, FreshReply
<1>4. GoodTable(n, t)
    BY <1>1, PreviousHopGood
<1>5. \/ TableAfterRREP(n, f) = UpdateRoute(t, p.dest, src, h, TRUE, p.destSeqNum)
      \/ TableAfterRREP(n, f) = t /\ HasRoute(t, p.dest)
    BY DEF TableAfterRREP, ForwardRoute, NewHopCount
<1>6. TRUE \in BOOLEAN
    OBVIOUS
<1> HIDE DEF p, src, t, h
<1>7. /\ GoodTable(n, UpdateRoute(t, p.dest, src, h, TRUE, p.destSeqNum))
      /\ HasRoute(UpdateRoute(t, p.dest, src, h, TRUE, p.destSeqNum), p.dest)
    BY <1>1, <1>2, <1>3, <1>4, <1>6, UpdateRouteGood
<1> QED
    BY <1>4, <1>5, <1>7 DEF p

(* A handler installs such a table.                                         *)
LEMMA InstallGood ==
    ASSUME IndInv, IndInv', FreshInv, NEW n \in Node, NEW t, GoodTable(n, t), SetRoutes(n, t),
           \A d \in Node : sequenceNum[d] <= sequenceNum'[d]
    PROVE  Grows /\ (\A m \in Node : FreshTable(m, routes[m])') /\ routes'[n] = t
<1>1. \A m \in Node : routes'[m] = IF m = n THEN t ELSE routes[m]
    BY DEF SetRoutes, IndInv, TablesOK
<1>2. Grows
    BY <1>1 DEF Grows, GoodTable, Covers
<1>3. ASSUME NEW m \in Node, NEW d \in Node, HasRoute(routes'[m], d)
      PROVE  Fresh(m, d, routes[m][d])'
  <2>0. PICK r : r = routes'[m][d]
      OBVIOUS
  <2>1. Fresh(m, d, r)
      BY <1>1, <1>3, <2>0 DEF FreshInv, GoodTable, FreshTable
  <2>2. r \in Route
      BY <1>3, <2>0 DEF IndInv, TablesOK, RouteTable, HasRoute
  <2>3. r.nextHop \in Node /\ r.destSeqNum \in Nat
      BY <2>2 DEF Route
  <2>4. sequenceNum[d] \in Nat /\ sequenceNum'[d] \in Nat
      BY DEF IndInv, CountersOK
  <2>5. Leads(r.nextHop, d)'
      BY <1>2, <2>1, <2>3, LeadsGrows DEF Fresh
  <2>6. r.validDestNum => r.destSeqNum <= sequenceNum'[d]
      BY <2>1, <2>3, <2>4 DEF Fresh
  <2>7. Fresh(m, d, r)'
      BY <2>1, <2>5, <2>6 DEF Fresh
  <2> QED
      BY <2>0, <2>7
<1>4. \A m \in Node : FreshTable(m, routes[m])'
    BY <1>3 DEF FreshTable
<1> QED
    BY <1>1, <1>2, <1>4

-----------------------------------------------------------------------------
(* What a step sends.                                                       *)

LEMMA UnicastFresh ==
    ASSUME NEW n \in Node, NEW nh \in Node, NEW p, FreshPacket(p)', p.dst \in Node,
           <<n, nh>> \in Link, Leads(nh, p.dst)'
    PROVE  \A f \in UnicastFrame(n, nh, p) : FreshFrame(f)'
<1>1. \A f \in UnicastFrame(n, nh, p) : f.dgram = p /\ f.from = n /\ f.to = nh
    BY UnicastCarries
<1>2. p.dst # Broadcast
    BY AddressAssumption
<1> QED
    BY <1>1, <1>2 DEF FreshFrame

LEMMA BroadcastFresh ==
    ASSUME NEW n \in Node, NEW ttl, NEW x, FreshPacket(NewDatagram(n, Broadcast, ttl, x))'
    PROVE  \A f \in BroadcastFrames(n, ttl, x) : FreshFrame(f)'
<1> SUFFICES ASSUME NEW f \in BroadcastFrames(n, ttl, x) PROVE FreshFrame(f)'
    OBVIOUS
<1>0. PICK p : p = NewDatagram(n, Broadcast, ttl, x)
    OBVIOUS
<1>1. p.src = n /\ p.dst = Broadcast /\ FreshPacket(p)'
    BY <1>0 DEF NewDatagram
<1>2. PICK m \in Node : <<n, m>> \in Link /\ f = [from |-> n, to |-> m, dgram |-> p]
    BY <1>0 DEF BroadcastFrames
<1>3. f.from = n /\ f.to = m /\ f.dgram = p
    BY <1>2
<1> QED
    BY <1>1, <1>2, <1>3 DEF FreshFrame

LEMMA RequestFresh ==
    ASSUME NEW n \in Node, NEW ttl, NEW q, q.type = "RREQ", Leads(n, q.orig)',
           q.origSeqNum <= sequenceNum'[q.orig], q.unknownSeqNum => n = q.orig
    PROVE  \A f \in BroadcastFrames(n, ttl, q) : FreshFrame(f)'
<1>0. PICK p : p = NewDatagram(n, Broadcast, ttl, q)
    OBVIOUS
<1>1. p.src = n /\ p.dst = Broadcast /\ p.body = q
    BY <1>0 DEF NewDatagram
<1>2. FreshPacket(p)'
    BY <1>1 DEF FreshPacket, FreshRequest
<1> QED
    BY <1>0, <1>2, BroadcastFresh

LEMMA ReplyFresh ==
    ASSUME NEW n \in Node, NEW dst \in Node, NEW x, x.type = "RREP", <<n, dst>> \in Link,
           Leads(n, x.dest)', x.destSeqNum <= sequenceNum'[x.dest], x.orig \in Node
    PROVE  FreshPacket(UnicastControl(n, dst, x))'
<1>0. PICK p : p = UnicastControl(n, dst, x)
    OBVIOUS
<1>1. p.src = n /\ p.dst = dst /\ p.body = x
    BY <1>0 DEF UnicastControl, NewDatagram
<1>2. x.orig # Unspecified
    BY AddressAssumption
<1>3. FreshPacket(p)'
    BY <1>1, <1>2 DEF FreshPacket, FreshReply
<1> QED
    BY <1>0, <1>3

LEMMA OriginateFresh ==
    ASSUME IndInv, NEW n \in Node, NEW d \in Node, NEW timers, NEW rest,
           OriginateRREQ(n, d, timers, rest)
    PROVE  /\ \A x \in Node : sequenceNum[x] <= sequenceNum'[x]
           /\ \A f \in air' : f \in rest \/ FreshFrame(f)'
<1>1. PICK q, ttl : q = createRREQ(n, d) /\ ttl = NextTTL(timers[d])
    OBVIOUS
<1>2. sequenceNum \in [Node -> Nat]
    BY DEF IndInv, CountersOK
<1>3. sequenceNum' = [sequenceNum EXCEPT ![n] = @ + 1]
    BY DEF OriginateRREQ
<1>4. \A x \in Node : sequenceNum[x] <= sequenceNum'[x]
    BY <1>2, <1>3
<1>5. q.type = "RREQ" /\ q.orig = n /\ q.origSeqNum = sequenceNum[n] + 1
    BY <1>1 DEF createRREQ
<1>6. Leads(n, q.orig)' /\ q.origSeqNum <= sequenceNum'[q.orig]
    BY <1>2, <1>3, <1>5 DEF Leads
<1>7. \A f \in BroadcastFrames(n, ttl, q) : FreshFrame(f)'
    BY <1>5, <1>6, RequestFresh
<1>8. air' = rest \/ air' = rest \cup BroadcastFrames(n, ttl, q)
    BY <1>1 DEF OriginateRREQ
<1> QED
    BY <1>4, <1>7, <1>8

(* A step that leaves the routes alone.                                     *)
LEMMA SameRoutes ==
    ASSUME IndInv, IndInv', FreshInv, UNCHANGED routes,
           \A d \in Node : sequenceNum[d] <= sequenceNum'[d]
    PROVE  Grows /\ \A n \in Node : FreshTable(n, routes[n])'
<1>1. Grows
    BY DEF Grows, Covers
<1>2. ASSUME NEW m \in Node PROVE FreshTable(m, routes[m])'
  <2>1. routes' = [routes EXCEPT ![m] = routes[m]]
      BY DEF IndInv, TablesOK
  <2> QED
      BY <2>1, InstallGood, OwnTableGood DEF SetRoutes
<1> QED
    BY <1>1, <1>2

LEMMA ensureRouteFresh ==
    ASSUME IndInv, IndInv', FreshInv, NEW n \in Node, NEW p \in Datagram, FreshPacket(p),
           p.dst \in Node, ensureRouteForDatagram(n, p, air), ipOut' \subseteq ipOut
    PROVE  FreshInv'
<1>0. /\ delayedPackets \in [Node -> SUBSET Datagram] /\ sequenceNum \in [Node -> Nat]
      /\ UNCHANGED <<isOperational, budget, routes>>
    BY DEF IndInv, DelayedOK, CountersOK, ensureRouteForDatagram, RouteOut, delayDatagram, lifecycle
<1>1. Untroubled'
    BY <1>0 DEF FreshInv, Untroubled
<1>2. CASE RouteOut(n, p, air)
  <2>1. PICK nh : nh = routes[n][p.dst].nextHop
      OBVIOUS
  <2>2. /\ air' = air \cup UnicastFrame(n, nh, p) /\ HasRoute(routes[n], p.dst)
        /\ UNCHANGED <<sequenceNum, delayedPackets>>
      BY <1>2, <2>1 DEF RouteOut, counters, discovery, IsActive
  <2>3. \A d \in Node : sequenceNum[d] <= sequenceNum'[d]
      BY <1>0, <2>2
  <2>4. Grows /\ \A m \in Node : FreshTable(m, routes[m])'
      BY <1>0, <2>3, SameRoutes
  <2>5. nh \in Node /\ <<n, nh>> \in Link /\ Leads(nh, p.dst)
    <3>1. routes[n][p.dst] \in Route
        BY <2>2, TableOfNode DEF IndInv
    <3> QED
        BY <2>1, <2>2, <3>1 DEF Route, FreshInv, FreshTable, Fresh
  <2>6. \A f \in UnicastFrame(n, nh, p) : FreshFrame(f)'
    <3>1. FreshPacket(p)' /\ Leads(nh, p.dst)'
        BY <2>4, <2>5, PacketGrows, LeadsGrows
    <3> QED
        BY <2>5, <3>1, UnicastFresh
  <2> QED
      BY <1>1, <2>2, <2>4, <2>6, StepFresh
<1>3. CASE delayDatagram(n, p, air)
  <2>1. /\ \A d \in Node : sequenceNum[d] <= sequenceNum'[d]
        /\ \A f \in air' : f \in air \/ FreshFrame(f)'
    <3>1. CASE hasOngoingRouteDiscovery(n, p.dst)
        BY <1>0, <1>3, <3>1 DEF delayDatagram
    <3>2. CASE ~hasOngoingRouteDiscovery(n, p.dst)
        BY <1>3, <3>2, OriginateFresh DEF delayDatagram
    <3> QED
        BY <3>1, <3>2
  <2>2. Grows /\ \A m \in Node : FreshTable(m, routes[m])'
      BY <1>0, <2>1, SameRoutes
  <2>3. FreshPacket(p)'
      BY <2>2, PacketGrows
  <2>4. \A m \in Node : \A x \in delayedPackets'[m] : x \in delayedPackets[m] \/ x = p
      BY <1>0, <1>3 DEF delayDatagram
  <2> QED
      BY <1>1, <2>1, <2>2, <2>3, <2>4, StepFresh
<1> QED
    BY <1>2, <1>3 DEF ensureRouteForDatagram

-----------------------------------------------------------------------------
(* The handlers.                                                            *)

LEMMA SameSeqNum ==
    ASSUME IndInv, UNCHANGED sequenceNum PROVE \A d \in Node : sequenceNum[d] <= sequenceNum'[d]
BY DEF IndInv, CountersOK

LEMMA sendRREPFresh ==
    ASSUME IndInv, IndInv', FreshInv, NEW n \in Node, NEW t, GoodTable(n, t), NEW reply,
           reply.type = "RREP", reply.orig \in Node, reply.dest \in Node,
           HasRoute(t, reply.orig), n = reply.dest \/ HasRoute(t, reply.dest),
           \A d \in Node : sequenceNum[d] <= sequenceNum'[d],
           reply.destSeqNum <= sequenceNum'[reply.dest],
           NEW others, sendRREP(n, t, reply, others)
    PROVE  /\ Grows /\ \A m \in Node : FreshTable(m, routes[m])'
           /\ Covers(t, routes'[n])
           /\ \A p \in ipOut' : p \in ipOut \/ p \in others \/ FreshPacket(p)'
<1> DEFINE u == AddPrecursor(t, reply.orig)
           r == t[reply.orig]
<1>1. GoodTable(n, u) /\ Covers(t, u) /\ SetRoutes(n, u)
    BY AddPrecursorGood DEF sendRREP
<1> HIDE DEF u
<1>2. Grows /\ (\A m \in Node : FreshTable(m, routes[m])') /\ routes'[n] = u
    BY <1>1, InstallGood
<1>3. PICK ack, x : /\ x = [reply EXCEPT !.ack = ack]
                    /\ ipOut' = ipOut \cup others \cup {UnicastControl(n, r.nextHop, x)}
    BY DEF sendRREP
<1>4. x.type = "RREP" /\ x.orig = reply.orig /\ x.dest = reply.dest /\ x.destSeqNum = reply.destSeqNum
    BY <1>3
<1>5. r \in Route /\ r.nextHop \in Node /\ <<n, r.nextHop>> \in Link
    BY DEF GoodTable, FreshTable, Fresh, RouteTable, HasRoute, Route
<1>6. Leads(n, x.dest)'
    BY <1>1, <1>2, <1>4 DEF Leads, Covers
<1>7. PICK nh : nh = r.nextHop
    OBVIOUS
<1>8. FreshPacket(UnicastControl(n, nh, x))'
    BY <1>4, <1>5, <1>6, <1>7, ReplyFresh
<1> QED
    BY <1>1, <1>2, <1>3, <1>7, <1>8

LEMMA RREQReplyAsDestinationFresh ==
    ASSUME FaultFree, IndInv, IndInv', FreshInv, NEW n \in Node, NEW f \in air,
           RREQReplyAsDestination(n, f)
    PROVE  FreshInv'
<1> DEFINE q == f.dgram.body
           t == TableAfterRREQ(n, f)
<1>1. PICK seq : /\ seq = sequenceNum[n] + 1 \/ seq = sequenceNum[n]
                 /\ sequenceNum' = [sequenceNum EXCEPT ![n] = seq]
                 /\ sendRREP(n, t, createRREP(q, 0, seq), {})
    BY DEF RREQReplyAsDestination
<1>2. /\ Arrives(n, f, "RREQ") /\ q.dest = n /\ air' = air \ {f}
      /\ UNCHANGED <<isOperational, budget, delayedPackets>>
    BY DEF RREQReplyAsDestination, FreshRREQ, lifecycle
<1>3. GoodTable(n, t) /\ HasRoute(t, q.orig) /\ q.orig \in Node
    BY <1>2, ReverseGood, RREQFrame DEF RREQ
<1>4. /\ \A d \in Node : sequenceNum[d] <= sequenceNum'[d]
      /\ seq <= sequenceNum'[n]
    BY <1>1 DEF IndInv, CountersOK
<1> DEFINE reply == createRREP(q, 0, seq)
<1>5. reply.type = "RREP" /\ reply.orig = q.orig /\ reply.dest = n /\ reply.destSeqNum = seq
    BY <1>2 DEF createRREP
<1> HIDE DEF q, t, reply
<1>6. /\ Grows /\ \A m \in Node : FreshTable(m, routes[m])'
      /\ \A p \in ipOut' : p \in ipOut \/ FreshPacket(p)'
  <2>1. sendRREP(n, t, reply, {})
      BY <1>1 DEF reply
  <2> QED
      BY <1>3, <1>4, <1>5, <2>1, sendRREPFresh
<1>7. Untroubled'
    BY <1>2 DEF FreshInv, Untroubled
<1> QED
    BY <1>2, <1>6, <1>7, StepFresh

LEMMA RREQReplyAsIntermediateFresh ==
    ASSUME FaultFree, IndInv, IndInv', FreshInv, NEW n \in Node, NEW f \in air,
           RREQReplyAsIntermediate(n, f)
    PROVE  FreshInv'
<1> DEFINE q == f.dgram.body
           t == TableAfterRREQ(n, f)
           r == t[q.dest]
           u == AddPrecursor(t, q.dest)
           reply == createRREP(q, r.metric, r.destSeqNum)
           x == createGratuitousRREP(q, t[q.orig].metric)
           gratuitous == UnicastControl(n, r.nextHop, x)
           others == IF AskGratuitousRREP THEN {gratuitous} ELSE {}
<1>1. /\ Arrives(n, f, "RREQ") /\ air' = air \ {f} /\ CanReply(t, q)
      /\ UNCHANGED <<isOperational, budget, delayedPackets, sequenceNum>>
      /\ sendRREP(n, u, reply, others)
    BY DEF RREQReplyAsIntermediate, FreshRREQ, lifecycle, counters
<1>2. /\ GoodTable(n, t) /\ HasRoute(t, q.orig) /\ q.orig \in Node /\ q.dest \in Node
      /\ q.origSeqNum \in Nat /\ q.type = "RREQ"
    BY <1>1, ReverseGood, RREQFrame DEF RREQ
<1>3. \A d \in Node : sequenceNum[d] <= sequenceNum'[d]
    BY <1>1, SameSeqNum
<1>4. /\ HasRoute(t, q.dest) /\ r \in Route /\ r.nextHop \in Node /\ <<n, r.nextHop>> \in Link
      /\ r.destSeqNum <= sequenceNum[q.dest]
  <2>1. HasRoute(t, q.dest) /\ r.validDestNum
      BY <1>1 DEF CanReply, IsActive
  <2>2. t \in RouteTable /\ Fresh(n, q.dest, r)
      BY <1>2, <2>1 DEF GoodTable, FreshTable
  <2> HIDE DEF t, q
  <2>3. r \in Route
      BY <1>2, <2>1, <2>2 DEF RouteTable, HasRoute
  <2> QED
      BY <2>1, <2>2, <2>3 DEF Fresh, Route
<1>5. q.origSeqNum <= sequenceNum[q.orig]
    BY <1>1, <1>2, SenderIsNeighbour DEF FreshPacket, FreshRequest
<1>6. /\ reply.type = "RREP" /\ reply.orig = q.orig /\ reply.dest = q.dest
      /\ reply.destSeqNum = r.destSeqNum
    BY DEF createRREP
<1>7. x.type = "RREP" /\ x.orig = q.dest /\ x.dest = q.orig /\ x.destSeqNum = q.origSeqNum
    BY DEF createGratuitousRREP
<1> HIDE DEF q, t, reply, x, r
<1>8. GoodTable(n, u) /\ Covers(t, u)
    BY <1>2, AddPrecursorGood
<1>9. HasRoute(u, q.orig) /\ HasRoute(u, q.dest)
    BY <1>2, <1>4, <1>8 DEF Covers
<1>10. reply.destSeqNum <= sequenceNum'[reply.dest] /\ x.destSeqNum <= sequenceNum'[x.dest]
    BY <1>1, <1>4, <1>5, <1>6, <1>7
<1> HIDE DEF u, others
<1>11. /\ Grows /\ \A m \in Node : FreshTable(m, routes[m])'
       /\ Covers(u, routes'[n])
       /\ \A p \in ipOut' : p \in ipOut \/ p \in others \/ FreshPacket(p)'
    BY <1>1, <1>2, <1>3, <1>6, <1>8, <1>9, <1>10, sendRREPFresh
<1>12. \A p \in others : FreshPacket(p)'
  <2>1. PICK nh, y : nh = r.nextHop /\ y = x
      OBVIOUS
  <2>2. Leads(n, y.dest)'
      BY <1>2, <1>7, <1>9, <1>11, <2>1 DEF Covers, Leads
  <2>3. FreshPacket(UnicastControl(n, nh, y))'
      BY <1>2, <1>4, <1>7, <1>10, <2>1, <2>2, ReplyFresh
  <2>4. \A p \in others : p = UnicastControl(n, nh, y)
      BY <2>1 DEF others
  <2> QED
      BY <2>3, <2>4
<1>13. Untroubled'
    BY <1>1 DEF FreshInv, Untroubled
<1> QED
    BY <1>1, <1>11, <1>12, <1>13, StepFresh

LEMMA RREQForwardFresh ==
    ASSUME FaultFree, IndInv, IndInv', FreshInv, NEW n \in Node, NEW f \in air, RREQForward(n, f)
    PROVE  FreshInv'
<1> DEFINE q == f.dgram.body
           t == TableAfterRREQ(n, f)
<1>1. /\ Arrives(n, f, "RREQ") /\ SetRoutes(n, t)
      /\ UNCHANGED <<isOperational, budget, delayedPackets, sequenceNum, ipOut>>
    BY DEF RREQForward, FreshRREQ, lifecycle, counters
<1>2. /\ GoodTable(n, t) /\ HasRoute(t, q.orig) /\ q.orig \in Node
      /\ q.origSeqNum \in Nat /\ q.type = "RREQ"
    BY <1>1, ReverseGood, RREQFrame DEF RREQ
<1>3. q.origSeqNum <= sequenceNum[q.orig]
    BY <1>1, <1>2, SenderIsNeighbour DEF FreshPacket, FreshRequest
<1>4. PICK seq, x, ttl :
        /\ x = forwardRREQ(q, seq) /\ ttl = f.dgram.ttl - 1
        /\ air' = (air \ {f}) \cup
               (IF f.dgram.ttl > 1 /\ ~rebooting[n] THEN BroadcastFrames(n, ttl, x) ELSE {})
    BY DEF RREQForward
<1>5. /\ x.type = "RREQ" /\ x.orig = q.orig /\ x.origSeqNum = q.origSeqNum
      /\ x.unknownSeqNum = FALSE
  <2>1. q \in RREQ
      BY <1>1, RREQFrame
  <2> HIDE DEF q
  <2> QED
      BY <1>2, <1>4, <2>1 DEF forwardRREQ, RREQ
<1> HIDE DEF q, t
<1>6. Grows /\ (\A m \in Node : FreshTable(m, routes[m])') /\ routes'[n] = t
    BY <1>1, <1>2, SameSeqNum, InstallGood
<1>7. \A g \in BroadcastFrames(n, ttl, x) : FreshFrame(g)'
  <2>1. Leads(n, x.orig)' /\ x.origSeqNum <= sequenceNum'[x.orig]
      BY <1>1, <1>2, <1>3, <1>5, <1>6 DEF Leads
  <2> QED
      BY <1>5, <2>1, RequestFresh
<1>8. Untroubled'
    BY <1>1 DEF FreshInv, Untroubled
<1>9. \A g \in air' : g \in air \/ FreshFrame(g)'
    BY <1>4, <1>7
<1> QED
    BY <1>1, <1>6, <1>8, <1>9, StepFresh

(* A handler that only installs a table, or does nothing.                   *)
LEMMA QuietFresh ==
    ASSUME IndInv, IndInv', FreshInv, NEW n \in Node, NEW t, GoodTable(n, t), SetRoutes(n, t),
           air' \subseteq air,
           UNCHANGED <<isOperational, budget, delayedPackets, sequenceNum, ipOut>>
    PROVE  FreshInv'
<1>1. Grows /\ \A m \in Node : FreshTable(m, routes[m])'
    BY SameSeqNum, InstallGood
<1>2. Untroubled'
    BY DEF FreshInv, Untroubled
<1> QED
    BY <1>1, <1>2, StepFresh

LEMMA SameRoutesSet ==
    ASSUME IndInv, NEW n \in Node, UNCHANGED routes PROVE SetRoutes(n, routes[n])
BY DEF SetRoutes, IndInv, TablesOK

LEMMA handleRREQFresh ==
    ASSUME FaultFree, IndInv, IndInv', FreshInv, NEW n \in Node, NEW f \in air, handleRREQ(n, f)
    PROVE  FreshInv'
<1>1. CASE RREQIgnored(n, f)
  <2>1. /\ UNCHANGED <<isOperational, budget, delayedPackets, sequenceNum, ipOut, routes>>
        /\ air' \subseteq air
      BY <1>1 DEF RREQIgnored, lifecycle, counters, discovery
  <2> QED
      BY <2>1, SameRoutesSet, OwnTableGood, QuietFresh
<1>2. CASE RREQDuplicate(n, f)
  <2>1. /\ UNCHANGED <<isOperational, budget, delayedPackets, sequenceNum, ipOut>>
        /\ air' \subseteq air /\ SetRoutes(n, TableAfterPreviousHop(n, f)) /\ Arrives(n, f, "RREQ")
      BY <1>2 DEF RREQDuplicate, lifecycle, counters, discovery
  <2> QED
      BY <2>1, ReverseGood, QuietFresh
<1>3. CASE RREQWouldLoop(n, f)
  <2>1. /\ UNCHANGED <<isOperational, budget, delayedPackets, sequenceNum, ipOut>>
        /\ air' \subseteq air /\ SetRoutes(n, TableAfterRREQ(n, f)) /\ Arrives(n, f, "RREQ")
      BY <1>3 DEF RREQWouldLoop, FreshRREQ, lifecycle, counters
  <2> QED
      BY <2>1, ReverseGood, QuietFresh
<1> QED
    BY <1>1, <1>2, <1>3, RREQReplyAsDestinationFresh, RREQReplyAsIntermediateFresh,
       RREQForwardFresh DEF handleRREQ

LEMMA RREPHelloFresh ==
    ASSUME FaultFree, IndInv, IndInv', FreshInv, NEW n \in Node, NEW f \in air, RREPHello(n, f)
    PROVE  FreshInv'
<1> DEFINE p == f.dgram.body
           u == UpdateRoute(routes[n], p.dest, p.dest, 1, TRUE, p.destSeqNum)
<1>1. /\ UNCHANGED <<isOperational, budget, delayedPackets, sequenceNum, ipOut>>
      /\ air' \subseteq air /\ SetRoutes(n, u) /\ Arrives(n, f, "RREP") /\ p.orig = Unspecified
    BY DEF RREPHello, lifecycle, counters, discovery
<1>2. p.dest \in Node /\ p.destSeqNum \in Nat /\ p.type = "RREP" /\ 1 \in Nat /\ TRUE \in BOOLEAN
    BY <1>1, RREPFrame DEF RREP
<1>3. <<n, p.dest>> \in Link /\ p.destSeqNum <= sequenceNum[p.dest]
    BY <1>1, <1>2, SenderIsNeighbour DEF FreshPacket, FreshReply
<1>4. Leads(p.dest, p.dest) /\ GoodTable(n, routes[n])
    BY OwnTableGood DEF Leads
<1> HIDE DEF p
<1>5. GoodTable(n, u)
    BY <1>2, <1>3, <1>4, UpdateRouteGood
<1> HIDE DEF u
<1> QED
    BY <1>1, <1>5, QuietFresh

LEMMA RREPForwardFresh ==
    ASSUME FaultFree, IndInv, IndInv', FreshInv, NEW n \in Node, NEW f \in air, RREPForward(n, f)
    PROVE  FreshInv'
<1> DEFINE p == f.dgram.body
           t == TableAfterRREP(n, f)
           u == AddPrecursor(AddPrecursor(t, p.dest), t[p.dest].nextHop)
<1>1. /\ UNCHANGED <<isOperational, budget, delayedPackets, sequenceNum>>
      /\ air' \subseteq air /\ SetRoutes(n, u) /\ Arrives(n, f, "RREP")
      /\ p.orig \in Node \ {n} /\ HasRoute(t, p.orig)
    BY DEF RREPForward, lifecycle, counters, discovery
<1>2. /\ GoodTable(n, t) /\ HasRoute(t, p.dest) /\ p.dest \in Node /\ p.destSeqNum \in Nat
      /\ p.type = "RREP" /\ p \in RREP /\ ~p.ack
  <2>1. p.ack => f.dgram.dst = p.orig
      BY <1>1, RREPFrame
  <2>2. ~p.ack
      BY <1>1, <2>1, AddressAssumption DEF Arrives
  <2> QED
      BY <1>1, <2>2, ForwardGood, RREPFrame DEF RREP
<1>3. p.destSeqNum <= sequenceNum[p.dest]
    BY <1>1, <1>2, SenderIsNeighbour DEF FreshPacket, FreshReply
<1>4. PICK x, nh : /\ x = forwardRREP(p) /\ nh = t[p.orig].nextHop
                   /\ ipOut' = ipOut \cup {UnicastControl(n, nh, x)}
    BY <1>2 DEF RREPForward
<1>5. x.type = "RREP" /\ x.orig = p.orig /\ x.dest = p.dest /\ x.destSeqNum = p.destSeqNum
  <2> HIDE DEF p
  <2> QED
      BY <1>2, <1>4 DEF forwardRREP, RREP
<1> HIDE DEF p, t
<1>6. nh \in Node /\ <<n, nh>> \in Link
    BY <1>1, <1>2, <1>4 DEF GoodTable, FreshTable, Fresh, RouteTable, HasRoute, Route
<1>7. t[p.dest].nextHop \in Node
    BY <1>2 DEF GoodTable, RouteTable, HasRoute, Route
<1>8. GoodTable(n, u) /\ HasRoute(u, p.dest)
  <2> DEFINE v == AddPrecursor(t, p.dest)
  <2>1. GoodTable(n, v) /\ Covers(t, v)
      BY <1>2, AddPrecursorGood
  <2> HIDE DEF v
  <2>2. GoodTable(n, AddPrecursor(v, t[p.dest].nextHop))
        /\ Covers(v, AddPrecursor(v, t[p.dest].nextHop))
      BY <1>7, <2>1, AddPrecursorGood
  <2> QED
      BY <1>2, <2>1, <2>2 DEF Covers, v
<1> HIDE DEF u
<1>9. Grows /\ (\A m \in Node : FreshTable(m, routes[m])') /\ routes'[n] = u
    BY <1>1, <1>8, SameSeqNum, InstallGood
<1>10. Leads(n, x.dest)' /\ x.destSeqNum <= sequenceNum'[x.dest] /\ x.orig \in Node
    BY <1>1, <1>3, <1>5, <1>8, <1>9 DEF Leads
<1>11. FreshPacket(UnicastControl(n, nh, x))'
    BY <1>5, <1>6, <1>10, ReplyFresh
<1>12. Untroubled'
    BY <1>1 DEF FreshInv, Untroubled
<1> QED
    BY <1>1, <1>4, <1>9, <1>11, <1>12, StepFresh

LEMMA RREPStopsFresh ==
    ASSUME FaultFree, IndInv, IndInv', FreshInv, NEW n \in Node, NEW f \in air, RREPStops(n, f)
    PROVE  FreshInv'
<1>1. /\ UNCHANGED <<isOperational, budget, delayedPackets, sequenceNum, ipOut>>
      /\ air' \subseteq air /\ SetRoutes(n, TableAfterRREP(n, f)) /\ Arrives(n, f, "RREP")
    BY DEF RREPStops, lifecycle, counters, discovery
<1> QED
    BY <1>1, ForwardGood, QuietFresh

LEMMA RREPCompletesFresh ==
    ASSUME FaultFree, IndInv, IndInv', FreshInv, NEW n \in Node, NEW f \in air, RREPCompletes(n, f)
    PROVE  FreshInv'
<1> DEFINE p == f.dgram.body
           src == f.dgram.src
           t == TableAfterRREP(n, f)
           h == NewHopCount(p)
           u == UpdateRoute(t, p.dest, src, h, TRUE, p.destSeqNum)
           waiting == {x \in delayedPackets[n] : x.dst = p.dest}
<1>0. delayedPackets \in [Node -> SUBSET Datagram]
    BY DEF IndInv, DelayedOK
<1>1. /\ UNCHANGED <<isOperational, budget, sequenceNum, ipOut>>
      /\ SetRoutes(n, u) /\ Arrives(n, f, "RREP")
      /\ air' = (air \ {f}) \cup UNION {UnicastFrame(n, src, x) : x \in waiting}
      /\ delayedPackets' = [delayedPackets EXCEPT ![n] = @ \ waiting]
    BY DEF RREPCompletes, completeRouteDiscovery, lifecycle, counters
<1>2. /\ p.dest \in Node /\ p.destSeqNum \in Nat /\ p.type = "RREP" /\ h \in Nat
      /\ TRUE \in BOOLEAN
    BY <1>1, RREPFrame DEF RREP, NewHopCount
<1>3. src \in Node /\ <<n, src>> \in Link /\ FreshPacket(f.dgram)
    BY <1>1, SenderIsNeighbour
<1>4. Leads(src, p.dest) /\ p.destSeqNum <= sequenceNum[p.dest]
    BY <1>2, <1>3 DEF FreshPacket, FreshReply
<1>5. GoodTable(n, t)
    BY <1>1, ForwardGood
<1>6. PICK d, s : d = p.dest /\ s = src
    OBVIOUS
<1>7. \A x \in waiting : x \in Datagram /\ FreshPacket(x) /\ x.dst = d
    BY <1>0, <1>6 DEF FreshInv
<1>8. \A m \in Node : delayedPackets'[m] \subseteq delayedPackets[m]
    BY <1>0, <1>1
<1>9. \A g \in UNION {UnicastFrame(n, src, x) : x \in waiting} :
        \E x \in waiting : g \in UnicastFrame(n, s, x)
    BY <1>6
<1> HIDE DEF p, src, t, h
<1>10. GoodTable(n, u)
    BY <1>2, <1>3, <1>4, <1>5, UpdateRouteGood
<1> HIDE DEF u, waiting
<1>11. Grows /\ \A m \in Node : FreshTable(m, routes[m])'
    BY <1>1, <1>10, SameSeqNum, InstallGood
<1>12. ASSUME NEW x \in waiting PROVE \A g \in UnicastFrame(n, s, x) : FreshFrame(g)'
  <2>1. FreshPacket(x)' /\ x.dst \in Node
      BY <1>2, <1>6, <1>7, <1>11, PacketGrows
  <2>2. Leads(s, d)'
      BY <1>2, <1>3, <1>4, <1>6, <1>11, LeadsGrows
  <2>3. Leads(s, x.dst)'
      BY <1>7, <2>2
  <2> QED
      BY <1>3, <1>6, <2>1, <2>3, UnicastFresh
<1>13. \A g \in air' : g \in air \/ FreshFrame(g)'
    BY <1>1, <1>9, <1>12
<1>14. Untroubled'
    BY <1>1 DEF FreshInv, Untroubled
<1> QED
    BY <1>1, <1>8, <1>11, <1>13, <1>14, StepFresh

(* A datagram in transit finds an active route, and its next hop leads on.  *)
LEMMA TransitRoute ==
    ASSUME IndInv, FreshInv, NEW n \in Node, NEW f \in air, Transit(n, f)
    PROVE  /\ f.dgram.dst \in Node /\ IsActive(routes[n], f.dgram.dst)
           /\ routes[n][f.dgram.dst].nextHop \in Node
           /\ <<n, routes[n][f.dgram.dst].nextHop>> \in Link
           /\ Leads(routes[n][f.dgram.dst].nextHop, f.dgram.dst)
<1> DEFINE d == f.dgram.dst
<1>1. d \in Node /\ d # n /\ f.to = n /\ d # Broadcast
    BY AddressAssumption DEF Transit
<1>2. HasRoute(routes[n], d)
    BY <1>1 DEF FreshInv, FreshFrame, Leads
<1>3. routes[n][d] \in Route
    BY <1>1, <1>2, TableOfNode DEF IndInv
<1>4. Fresh(n, d, routes[n][d])
    BY <1>1, <1>2 DEF FreshInv, FreshTable
<1> QED
    BY <1>1, <1>2, <1>3, <1>4 DEF Fresh, IsActive, Route

LEMMA datagramForwardHookFresh ==
    ASSUME IndInv, IndInv', FreshInv, NEW n \in Node, NEW f \in air, datagramForwardHook(n, f)
    PROVE  FreshInv'
<1>1. Transit(n, f)
    BY DEF datagramForwardHook
<1>2. PICK nh, d, p : nh = routes[n][f.dgram.dst].nextHop /\ d = f.dgram.dst /\ p = Hop(f.dgram)
    OBVIOUS
<1>3. /\ d \in Node /\ IsActive(routes[n], d) /\ nh \in Node /\ <<n, nh>> \in Link
      /\ Leads(nh, d)
    BY <1>1, <1>2, TransitRoute
<1>4. /\ air' = (air \ {f}) \cup UnicastFrame(n, nh, p)
      /\ UNCHANGED <<isOperational, budget, delayedPackets, sequenceNum, ipOut, routes>>
    BY <1>2, <1>3 DEF datagramForwardHook, lifecycle, discovery, IsActive
<1>5. p \in Datagram /\ p.dst = d /\ p.src = f.dgram.src /\ p.body = f.dgram.body
    BY <1>2, AirFrame, FrameFields, HopGood, HopKeepsBody DEF Hop, Datagram
<1>6. FreshPacket(p)
  <2>1. FreshPacket(f.dgram) /\ f.dgram.dst = d
      BY <1>2 DEF FreshInv, FreshFrame
  <2> QED
      BY <1>5, <2>1 DEF FreshPacket, FreshRequest, FreshReply, IsData
<1>7. Grows /\ \A m \in Node : FreshTable(m, routes[m])'
    BY <1>4, SameSeqNum, SameRoutes
<1>8. \A g \in UnicastFrame(n, nh, p) : FreshFrame(g)'
  <2>1. FreshPacket(p)' /\ Leads(nh, p.dst)'
      BY <1>3, <1>5, <1>6, <1>7, PacketGrows, LeadsGrows
  <2> QED
      BY <1>3, <1>5, <2>1, UnicastFresh
<1>9. Untroubled'
    BY <1>4 DEF FreshInv, Untroubled
<1> QED
    BY <1>4, <1>7, <1>8, <1>9, StepFresh

LEMMA ReceiveFresh ==
    ASSUME FaultFree, IndInv, IndInv', FreshInv, NEW n \in Node, NEW f \in air, Receive(n, f)
    PROVE  FreshInv'
<1>1. ASSUME handleRERR(n, f) PROVE FALSE
    BY <1>1 DEF handleRERR, Arrives, FreshInv, FreshFrame, FreshPacket
<1>2. ASSUME DelayReturned(n, f) PROVE FALSE
  <2>1. Transit(n, f) /\ ~IsActive(routes[n], Hop(f.dgram).dst)
      BY <1>2 DEF DelayReturned, delayDatagram
  <2>2. Hop(f.dgram).dst = f.dgram.dst
      BY AirFrame, HopKeepsBody
  <2> QED
      BY <2>1, <2>2, TransitRoute
<1>3. CASE DeliverData(n, f)
  <2>1. /\ UNCHANGED <<isOperational, budget, delayedPackets, sequenceNum, ipOut, routes>>
        /\ air' \subseteq air
      BY <1>3 DEF DeliverData, lifecycle, counters, discovery
  <2> QED
      BY <2>1, SameRoutesSet, OwnTableGood, QuietFresh
<1> QED
    BY <1>1, <1>2, <1>3, handleRREQFresh, RREPHelloFresh, RREPForwardFresh, RREPStopsFresh,
       RREPCompletesFresh, datagramForwardHookFresh DEF Receive, handleRREP

(* Nothing fails: the channel and the environment have nothing to spend.    *)
LEMMA NothingFails ==
    ASSUME IndInv, FreshInv
    PROVE  /\ \A f \in air : ~LinkBreak(f) /\ ~FrameLost(f)
           /\ \A n \in Node : ~Stop(n) /\ ~Start(n)
           /\ \A n \in Node : \A d \in Node : ~expungeRoutes(n, d)
           /\ \A n \in Node : \A k \in rreqsArrivalTime[n] : ~ForgetRREQ(n, k)
<1>1. /\ ~(budget["loss"] > 0) /\ ~(budget["expunge"] > 0) /\ ~(budget["crash"] > 0)
      /\ \A n \in Node : isOperational[n]
    BY DEF FreshInv, Untroubled
<1>2. ASSUME NEW f \in air PROVE ~Undeliverable(f)
  <2>1. f.to \in Node /\ <<f.from, f.to>> \in Link
      BY AirFrame DEF FreshInv, FreshFrame
  <2> QED
      BY <1>1, <2>1 DEF Undeliverable
<1>3. \A f \in air : ~LinkBreak(f) /\ ~FrameLost(f)
    BY <1>1, <1>2 DEF LinkBreak, FrameLost, SpendUnless
<1>4. \A n \in Node : ~Stop(n) /\ ~Start(n)
    BY <1>1 DEF Stop, Start, SpendUnless
<1>5. \A n \in Node : \A d \in Node : ~expungeRoutes(n, d)
    BY <1>1 DEF expungeRoutes, SpendUnless
<1>6. \A n \in Node : \A k \in rreqsArrivalTime[n] : ~ForgetRREQ(n, k)
    BY <1>1 DEF ForgetRREQ, SpendUnless
<1> QED
    BY <1>3, <1>4, <1>5, <1>6

LEMMA SelfMessageFresh ==
    ASSUME IndInv, IndInv', FreshInv, NEW n \in Node, SelfMessage(n) PROVE FreshInv'
<1>1. ASSUME NEW d \in Node, handleWaitForRREP(n, d) PROVE FreshInv'
  <2>0. UNCHANGED <<isOperational, budget, ipOut, routes>>
      BY <1>1 DEF handleWaitForRREP, lifecycle
  <2>1. Untroubled'
      BY <2>0 DEF FreshInv, Untroubled
  <2>2. CASE RetryRREQ(n, d)
    <3>1. PICK timers : OriginateRREQ(n, d, timers, air) /\ UNCHANGED delayedPackets
        BY <2>2 DEF RetryRREQ
    <3>2. /\ \A x \in Node : sequenceNum[x] <= sequenceNum'[x]
          /\ \A f \in air' : f \in air \/ FreshFrame(f)'
        BY <3>1, OriginateFresh
    <3>3. Grows /\ \A m \in Node : FreshTable(m, routes[m])'
        BY <2>0, <3>2, SameRoutes
    <3> QED
        BY <2>0, <2>1, <3>1, <3>2, <3>3, StepFresh
  <2>3. CASE cancelRouteDiscovery(n, d)
    <3>1. /\ UNCHANGED <<sequenceNum, air>>
          /\ \A m \in Node : delayedPackets'[m] \subseteq delayedPackets[m]
        BY <2>3 DEF cancelRouteDiscovery, counters, IndInv, DelayedOK
    <3>2. Grows /\ \A m \in Node : FreshTable(m, routes[m])'
        BY <2>0, <3>1, SameSeqNum, SameRoutes
    <3> QED
        BY <2>0, <2>1, <3>1, <3>2, StepFresh
  <2> QED
      BY <1>1, <2>2, <2>3 DEF handleWaitForRREP
<1>2. CASE CounterTimer(n) \/ handleRREPACKTimer(n) \/ handleBlackListTimer(n)
  <2>1. /\ UNCHANGED <<isOperational, budget, delayedPackets, sequenceNum, ipOut, routes>>
        /\ air' \subseteq air
      BY <1>2 DEF CounterTimer, handleRREPACKTimer, handleBlackListTimer, lifecycle, counters,
                  discovery
  <2> QED
      BY <2>1, SameRoutesSet, OwnTableGood, QuietFresh
<1>3. CASE sendHelloMessagesIfNeeded(n)
  <2>1. PICK x : /\ x = [type |-> "RREP", ack |-> FALSE, hopCount |-> 0, dest |-> n,
                         destSeqNum |-> sequenceNum[n], orig |-> Unspecified, origSeqNum |-> 0]
                 /\ air' = air \cup BroadcastFrames(n, 1, x)
      BY <1>3 DEF sendHelloMessagesIfNeeded
  <2>2. /\ UNCHANGED <<isOperational, delayedPackets, sequenceNum, ipOut, routes>>
        /\ SpendUnless(FALSE, "hello")
      BY <1>3 DEF sendHelloMessagesIfNeeded, lifecycle, counters, discovery
  <2>3. Untroubled'
    <3>1. budget' = [budget EXCEPT !["hello"] = @ - 1]
        BY <2>2 DEF SpendUnless
    <3>2. /\ budget'["loss"] = budget["loss"] /\ budget'["expunge"] = budget["expunge"]
          /\ budget'["crash"] = budget["crash"]
        BY <3>1 DEF IndInv, BudgetOK, EnvironmentEvent
    <3> QED
        BY <2>2, <3>2 DEF FreshInv, Untroubled
  <2>4. Grows /\ \A m \in Node : FreshTable(m, routes[m])'
      BY <2>2, SameSeqNum, SameRoutes
  <2>5. x.type = "RREP" /\ x.dest = n /\ x.destSeqNum = sequenceNum[n]
      BY <2>1
  <2>6. \A f \in BroadcastFrames(n, 1, x) : FreshFrame(f)'
    <3>1. PICK p : p = NewDatagram(n, Broadcast, 1, x)
        OBVIOUS
    <3>2. p.src = n /\ p.dst = Broadcast /\ p.body = x
        BY <3>1 DEF NewDatagram
    <3>3. x.destSeqNum <= sequenceNum'[n] /\ Leads(n, n)'
        BY <2>2, <2>5, SameSeqNum DEF Leads
    <3>4. FreshPacket(p)'
        BY <2>5, <3>2, <3>3 DEF FreshPacket, FreshReply
    <3> QED
        BY <3>1, <3>4, BroadcastFresh
  <2> QED
      BY <2>1, <2>2, <2>3, <2>4, <2>6, StepFresh
<1> QED
    BY <1>1, <1>2, <1>3, NothingFails DEF SelfMessage

LEMMA FreshNext ==
    ASSUME FaultFree PROVE IndInv /\ FreshInv /\ [Next]_vars => FreshInv'
<1> SUFFICES ASSUME IndInv, FreshInv, [Next]_vars PROVE FreshInv'
    OBVIOUS
<1>0. IndInv'
    BY NextIndInv
<1>1. ASSUME NEW fl \in Flow, AppSend(fl) PROVE FreshInv'
  <2>1. PICK x, p : x = [type |-> "DATA", flow |-> fl] /\ p = NewDatagram(fl.src, fl.dst, UnicastTtl, x)
      OBVIOUS
  <2>2. ensureRouteForDatagram(fl.src, p, air) /\ ipOut' \subseteq ipOut
      BY <1>1, <2>1 DEF AppSend
  <2>3. fl.src \in Node /\ fl.dst \in Node
      BY FlowAssumption
  <2>4. x \in Body /\ x.type = "DATA" /\ UnicastTtl \in Nat
      BY <2>1, ParameterAssumption DEF Body, Data
  <2>5. p \in Datagram /\ p.dst = fl.dst /\ p.body = x
      BY <2>1, <2>3, <2>4, NewDatagramGood
  <2>6. FreshPacket(p)
      BY <2>4, <2>5 DEF FreshPacket, IsData
  <2> QED
      BY <1>0, <2>2, <2>3, <2>5, <2>6, ensureRouteFresh
<1>2. ASSUME NEW p \in ipOut, IPLocalOut(p) PROVE FreshInv'
  <2>1. p \in Datagram /\ p.src \in Node /\ p.dst \in Node /\ FreshPacket(p)
      BY DEF IndInv, TrafficOK, GoodPackets, Datagram, FreshInv
  <2> QED
      BY <1>0, <1>2, <2>1, ensureRouteFresh DEF IPLocalOut
<1>3. ASSUME NEW p \in ipOut, DropWhenDown(p) PROVE FALSE
  <2>1. p.src \in Node
      BY DEF IndInv, TrafficOK, GoodPackets, Datagram
  <2> QED
      BY <1>3, <2>1 DEF DropWhenDown, FreshInv, Untroubled
<1>4. ASSUME NEW f \in air, Receive(f.to, f) PROVE FreshInv'
    BY <1>0, <1>4, AirFrame, ReceiveFresh
<1>5. ASSUME NEW n \in Node, SelfMessage(n) PROVE FreshInv'
    BY <1>0, <1>5, SelfMessageFresh
<1>6. ASSUME NEW n \in Node, RebootCompleted(n) PROVE FreshInv'
  <2>1. /\ UNCHANGED <<isOperational, budget, delayedPackets, sequenceNum, ipOut, routes>>
        /\ air' \subseteq air
      BY <1>6 DEF RebootCompleted, counters, discovery
  <2> QED
      BY <1>0, <2>1, SameRoutesSet, OwnTableGood, QuietFresh
<1>7. CASE UNCHANGED vars
  <2>1. /\ UNCHANGED <<isOperational, budget, delayedPackets, sequenceNum, ipOut, routes>>
        /\ UNCHANGED air
      BY <1>7 DEF vars, lifecycle, counters, discovery
  <2>2. Grows /\ \A m \in Node : FreshTable(m, routes[m])'
      BY <1>0, <2>1, SameSeqNum, SameRoutes
  <2>3. Untroubled'
      BY <2>1 DEF FreshInv, Untroubled
  <2> QED
      BY <1>0, <2>1, <2>2, <2>3, StepFresh
<1> QED
    BY <1>1, <1>2, <1>3, <1>4, <1>5, <1>6, <1>7, NothingFails DEF Next

LEMMA FreshInit == ASSUME FaultFree PROVE Init => FreshInv
<1> SUFFICES ASSUME Init PROVE FreshInv
    OBVIOUS
<1>1. Untroubled
    BY DEF Init, Untroubled, FaultFree, EnvironmentEvent
<1>2. \A n \in Node : FreshTable(n, routes[n])
    BY DEF Init, FreshTable, EmptyTable, HasRoute
<1> QED
    BY <1>1, <1>2 DEF Init, FreshInv

LEMMA FreshAlways == ASSUME FaultFree PROVE Spec => []FreshInv
<1>1. Init => IndInv /\ FreshInv
    BY InitIndInv, FreshInit
<1>2. IndInv /\ FreshInv /\ [Next]_vars => (IndInv /\ FreshInv)'
    BY NextIndInv, FreshNext
<1> QED
    BY <1>1, <1>2, PTL DEF Spec

(* In every network without failures, whatever the traffic, the timers and  *)
(* the order in which packets arrive: a sequence number a route calls valid *)
(* has been issued by the route's destination.                              *)
THEOREM SequenceNumbersAreIssued ==
    ASSUME FaultFree PROVE Spec => []ValidSeqNumFromDestination
<1>1. FreshInv => ValidSeqNumFromDestination
    BY DEF FreshInv, FreshTable, Fresh, ValidSeqNumFromDestination
<1> QED
    BY <1>1, FreshAlways, PTL

(* IPv4 has an active route for every datagram it receives for another      *)
(* host, the question datagramForwardHook asks, and nobody has anything to  *)
(* complain about in a RERR.                                                *)
TransitHasRoute ==
    /\ \A f \in air : f.dgram.dst \in Node \ {f.to} => IsActive(routes[f.to], f.dgram.dst)
    /\ \A p \in InFlight : p.body.type # "RERR"

(* In a network without failures no datagram is stranded: a route is used   *)
(* only when every node along it has got its own, so datagramForwardHook    *)
(* never sends a RERR.                                                      *)
THEOREM NoDatagramStranded == ASSUME FaultFree PROVE Spec => []TransitHasRoute
<1>1. ASSUME IndInv, FreshInv, NEW f \in air, f.dgram.dst \in Node \ {f.to}
      PROVE  IsActive(routes[f.to], f.dgram.dst)
  <2>1. f.to \in Node /\ f.dgram.dst # Broadcast
      BY <1>1, AirFrame, AddressAssumption
  <2>2. HasRoute(routes[f.to], f.dgram.dst)
      BY <1>1, <2>1 DEF FreshInv, FreshFrame, Leads
  <2> QED
      BY <1>1, <2>1, <2>2 DEF FreshInv, FreshTable, Fresh, IsActive
<1>2. FreshInv => \A p \in InFlight : p.body.type # "RERR"
    BY DEF FreshInv, FreshFrame, FreshPacket, InFlight
<1>3. IndInv /\ FreshInv => TransitHasRoute
    BY <1>1, <1>2 DEF TransitHasRoute
<1> QED
    BY <1>3, FreshAlways, Invariance, PTL
=============================================================================
