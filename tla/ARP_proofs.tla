----------------------------- MODULE ARP_proofs -----------------------------
(***************************************************************************)
(* Proofs about ARP for every LAN, traffic and retry count: the coupling   *)
(* of IPv4's queues, ARP's cache and its timers, that datagrams go to a    *)
(* host that answers for their next hop, and that the two modules together *)
(* implement NextHopChannel and so keep the order of the datagrams.        *)
(***************************************************************************)
EXTENDS ARP, SequenceTheorems, TLAPS

(***************************************************************************)
(* The inductive invariant.  The cached addresses and the packets on the   *)
(* LAN are part of it: a datagram is sent to a cached address, and that    *)
(* one comes from a packet.                                                *)
(***************************************************************************)
Truthful(S) == \A f \in S : addressRecognized(f.arp.srcMAC, f.arp.srcIP)

CacheAnswers(c) ==
    HasEntry(c) => c[2] # Broadcast /\ (~arpCache[c].pending =>
                       arpCache[c].mac \in Host /\ addressRecognized(arpCache[c].mac, c[2]))

Coupled(c) ==
    /\ pendingPackets[c] # <<>> <=> IsPending(c)
    /\ timer[c] <=> IsPending(c) /\ isUp[c[1]]
    /\ ~isUp[c[1]] => ~HasEntry(c) /\ ~timer[c] /\ pendingPackets[c] = <<>>

MacOK(c) ==
    \A mac \in usedMac[c] :
        IF c[2] = Broadcast THEN mac = Broadcast ELSE mac = c[2] \/ <<mac, c[2]>> \in ProxyFor

IndInv ==
    /\ TypeOK
    /\ Truthful(lan)
    /\ \A c \in Channel : CacheAnswers(c) /\ Coupled(c) /\ MacOK(c)

LEMMA IndInvImplies ==
    IndInv => TypeOK /\ QueueIffPending /\ TimerIffPending /\ StoppedHostClean /\ MacAnswers
BY DEF IndInv, Coupled, MacOK, QueueIffPending, TimerIffPending, StoppedHostClean, MacAnswers

LEMMA ChannelParts ==
    ASSUME NEW c \in Channel
    PROVE  c[1] \in Host /\ c[2] \in Address \cup {Broadcast} /\ c = <<c[1], c[2]>>
BY DEF Channel

LEMMA EntryIsNotNoEntry == \A e \in Entry : e # NoEntry
BY NoEntryAssumption

LEMMA InitIndInv == Init => IndInv
<1> SUFFICES ASSUME Init PROVE IndInv
    OBVIOUS
<1>1. TypeOK
    BY BoundAssumption DEF Init, TypeOK, EnvironmentEvent
<1>2. \A c \in Channel : CacheAnswers(c) /\ Coupled(c) /\ MacOK(c)
    BY ChannelParts DEF Init, CacheAnswers, Coupled, MacOK, HasEntry, IsPending
<1> QED
    BY <1>1, <1>2 DEF Init, IndInv, Truthful

-----------------------------------------------------------------------------
(* The packets ARP sends. *)
LEMMA RequestGood ==
    ASSUME NEW c \in Channel, c[2] # Broadcast, NEW k \in Nat
    PROVE  /\ sendARPRequest(c, k) \subseteq [to : Host, arp : ARPPacket]
           /\ Truthful(sendARPRequest(c, k))
<1>1. c[1] \in Host /\ c[2] \in Address
    BY ChannelParts
<1> QED
    BY <1>1 DEF sendARPRequest, ARPPacket, Address, Truthful, addressRecognized

LEMMA ReplyGood ==
    ASSUME NEW h \in Host, NEW p \in ARPPacket, addressRecognized(h, p.destIP)
    PROVE  /\ sendARPReply(h, p) \subseteq [to : Host, arp : ARPPacket]
           /\ Truthful(sendARPReply(h, p))
BY DEF sendARPReply, ARPPacket, Truthful

-----------------------------------------------------------------------------
(* One lemma per action. *)
LEMMA SendResolvedGood ==
    ASSUME IndInv, NEW c \in Channel, SendResolved(c) PROVE IndInv'
<1> DEFINE mac == resolveNextHopMacAddress(c)
<1>1. /\ mac \in Host \cup {Broadcast}
      /\ IF c[2] = Broadcast THEN mac = Broadcast ELSE mac = c[2] \/ <<mac, c[2]>> \in ProxyFor
    <2>1. arpCache[c] \in Entry \cup {NoEntry} /\ CacheAnswers(c)
        BY DEF IndInv, TypeOK
    <2> QED
        BY <2>1 DEF SendResolved, resolveNextHopMacAddress, CacheAnswers, HasEntry,
                    addressRecognized
<1>2. TypeOK'
    <2>1. submitted' \in [Channel -> Nat] /\ out' \in [Channel -> Seq(Nat)]
        BY DEF SendResolved, MaySend, IndInv, TypeOK
    <2>2. usedMac' \in [Channel -> SUBSET (Host \cup {Broadcast})]
        BY <1>1 DEF SendResolved, IndInv, TypeOK
    <2> QED
        BY <2>1, <2>2 DEF SendResolved, MaySend, IndInv, TypeOK
<1>3. ASSUME NEW x \in Channel PROVE MacOK(x)'
    BY <1>1 DEF SendResolved, MacOK, IndInv, TypeOK
<1>4. ASSUME NEW x \in Channel PROVE CacheAnswers(x)' /\ Coupled(x)'
    BY DEF SendResolved, MaySend, IndInv, CacheAnswers, Coupled, HasEntry, IsPending
<1> QED
    BY <1>2, <1>3, <1>4 DEF SendResolved, MaySend, IndInv, Truthful

LEMMA PendDatagramGood ==
    ASSUME IndInv, NEW c \in Channel, PendDatagram(c) PROVE IndInv'
<1>1. c[2] # Broadcast /\ isUp[c[1]]
    BY AddressAssumption DEF PendDatagram, MaySend, resolveNextHopMacAddress
<1>2. submitted' \in [Channel -> Nat] /\ pendingPackets' \in [Channel -> Seq(Nat)]
    BY DEF PendDatagram, MaySend, IndInv, TypeOK
<1>3. pendingPackets'[c] # <<>> /\ \A x \in Channel \ {c} : pendingPackets'[x] = pendingPackets[x]
    BY DEF PendDatagram, IndInv, TypeOK
<1>4. CASE IsPending(c)
    <2>1. TypeOK'
        BY <1>2, <1>4 DEF PendDatagram, MaySend, IndInv, TypeOK
    <2>2. ASSUME NEW x \in Channel PROVE CacheAnswers(x)' /\ Coupled(x)' /\ MacOK(x)'
        BY <1>3, <1>4 DEF PendDatagram, MaySend, IndInv, CacheAnswers, Coupled, MacOK,
                          HasEntry, IsPending
    <2> QED
        BY <1>4, <2>1, <2>2 DEF PendDatagram, IndInv, Truthful
<1>5. CASE ~IsPending(c)
    <2> DEFINE e == [pending |-> TRUE, mac |-> Unspecified, fresh |-> FALSE, numRetries |-> 0]
    <2>1. e \in Entry /\ e.pending
        BY DEF Entry
    <2>2. /\ arpCache' = [arpCache EXCEPT ![c] = e]
          /\ timer' = [timer EXCEPT ![c] = TRUE]
          /\ lan' = lan \cup sendARPRequest(c, 0)
          /\ UNCHANGED <<isUp, budget, out, usedMac>>
        BY <1>5 DEF PendDatagram, MaySend, initiateARPResolution
    <2> HIDE DEF e
    <2>3. TypeOK'
        BY <1>1, <1>2, <2>1, <2>2, RequestGood DEF IndInv, TypeOK
    <2>4. Truthful(lan')
        BY <1>1, <2>2, RequestGood DEF IndInv, Truthful
    <2>5. ASSUME NEW x \in Channel \ {c} PROVE CacheAnswers(x)' /\ Coupled(x)' /\ MacOK(x)'
        BY <1>3, <2>2, <2>5 DEF IndInv, TypeOK, CacheAnswers, Coupled, MacOK, HasEntry, IsPending
    <2>6. CacheAnswers(c)' /\ Coupled(c)' /\ MacOK(c)'
        BY <1>1, <1>3, <2>1, <2>2, EntryIsNotNoEntry DEF IndInv, TypeOK, CacheAnswers,
           Coupled, MacOK, HasEntry, IsPending
    <2> QED
        BY <2>3, <2>4, <2>5, <2>6 DEF IndInv, Truthful
<1> QED
    BY <1>4, <1>5

(* updateARPCache with its signal: the state of one channel changes, from   *)
(* whatever it was to resolved, with nothing queued.                        *)
LEMMA updateARPCacheGood ==
    ASSUME IndInv, NEW c \in Channel, NEW m \in Host, updateARPCache(c, m),
           c[2] # Broadcast, isUp[c[1]], addressRecognized(m, c[2]), UNCHANGED isUp
    PROVE  /\ arpCache' \in [Channel -> Entry \cup {NoEntry}]
           /\ timer' \in [Channel -> BOOLEAN]
           /\ pendingPackets' \in [Channel -> Seq(Nat)]
           /\ out' \in [Channel -> Seq(Nat)]
           /\ usedMac' \in [Channel -> SUBSET (Host \cup {Broadcast})]
           /\ \A x \in Channel : CacheAnswers(x)' /\ Coupled(x)' /\ MacOK(x)'
<1> DEFINE e == [pending |-> FALSE, mac |-> m, fresh |-> TRUE, numRetries |-> 0]
<1>1. e \in Entry /\ ~e.pending /\ e.mac = m
    BY DEF Entry
<1>2. /\ arpCache' = [arpCache EXCEPT ![c] = e]
      /\ timer' = [timer EXCEPT ![c] = FALSE]
      /\ arpResolutionCompleted(c, m)
    BY DEF updateARPCache
<1> HIDE DEF e
<1>3. arpCache' \in [Channel -> Entry \cup {NoEntry}] /\ timer' \in [Channel -> BOOLEAN]
    BY <1>1, <1>2 DEF IndInv, TypeOK
<1>4. /\ pendingPackets' \in [Channel -> Seq(Nat)]
      /\ pendingPackets'[c] = <<>>
      /\ \A x \in Channel \ {c} : pendingPackets'[x] = pendingPackets[x]
    <2>1. CASE pendingPackets[c] = <<>>
        BY <1>2, <2>1 DEF arpResolutionCompleted, IndInv, TypeOK
    <2>2. CASE pendingPackets[c] # <<>>
        <3>1. pendingPackets' = [pendingPackets EXCEPT ![c] = <<>>]
            BY <1>2, <2>2 DEF arpResolutionCompleted
        <3> QED
            BY <3>1 DEF IndInv, TypeOK
    <2> QED
        BY <2>1, <2>2
<1>5. out' \in [Channel -> Seq(Nat)]
    <2>1. CASE pendingPackets[c] = <<>>
        BY <1>2, <2>1 DEF arpResolutionCompleted, IndInv, TypeOK
    <2>2. CASE pendingPackets[c] # <<>>
        <3>1. out' = [out EXCEPT ![c] = out[c] \o pendingPackets[c]]
            BY <1>2, <2>2 DEF arpResolutionCompleted
        <3>2. out[c] \o pendingPackets[c] \in Seq(Nat)
            BY ConcatProperties DEF IndInv, TypeOK
        <3> QED
            BY <3>1, <3>2 DEF IndInv, TypeOK
    <2> QED
        BY <2>1, <2>2
<1>6. /\ usedMac' \in [Channel -> SUBSET (Host \cup {Broadcast})]
      /\ usedMac'[c] \subseteq usedMac[c] \cup {m}
      /\ \A x \in Channel \ {c} : usedMac'[x] = usedMac[x]
    <2>1. CASE pendingPackets[c] = <<>>
        BY <1>2, <2>1 DEF arpResolutionCompleted, IndInv, TypeOK
    <2>2. CASE pendingPackets[c] # <<>>
        <3>1. usedMac' = [usedMac EXCEPT ![c] = usedMac[c] \cup {m}]
            BY <1>2, <2>2 DEF arpResolutionCompleted
        <3> QED
            BY <3>1 DEF IndInv, TypeOK
    <2> QED
        BY <2>1, <2>2
<1>7. ASSUME NEW x \in Channel \ {c} PROVE CacheAnswers(x)' /\ Coupled(x)' /\ MacOK(x)'
    BY <1>2, <1>4, <1>6 DEF IndInv, TypeOK, CacheAnswers, Coupled, MacOK, HasEntry, IsPending
<1>8. CacheAnswers(c)' /\ Coupled(c)' /\ MacOK(c)'
    <2>1. arpCache'[c] = e /\ ~timer'[c]
        BY <1>2 DEF IndInv, TypeOK
    <2>2. CacheAnswers(c)'
        BY <2>1, <1>1 DEF CacheAnswers, HasEntry
    <2>3. Coupled(c)'
        BY <2>1, <1>1, <1>4 DEF Coupled, HasEntry, IsPending
    <2>4. MacOK(c)'
        BY <1>6 DEF MacOK, IndInv, addressRecognized
    <2> QED
        BY <2>2, <2>3, <2>4
<1> QED
    BY <1>3, <1>4, <1>5, <1>6, <1>7, <1>8

LEMMA processARPPacketGood ==
    ASSUME IndInv, NEW f \in lan, processARPPacket(f) PROVE IndInv'
<1> DEFINE h == f.to
           p == f.arp
           sender == <<h, p.srcIP>>
           mine == addressRecognized(h, p.destIP)
<1>1. h \in Host /\ p \in ARPPacket /\ addressRecognized(p.srcMAC, p.srcIP)
    BY DEF IndInv, TypeOK, Truthful
<1>2. p.srcMAC \in Host /\ p.srcIP \in Address /\ p.srcIP # Broadcast
    BY <1>1, AddressAssumption DEF ARPPacket
<1>3. sender \in Channel /\ sender[1] = h /\ sender[2] = p.srcIP
    BY <1>1, <1>2 DEF Channel
<1>4. isUp[h] /\ UNCHANGED <<isUp, submitted, budget>>
    BY DEF processARPPacket
<1>5. lan' \subseteq [to : Host, arp : ARPPacket] /\ Truthful(lan')
    BY <1>1, ReplyGood DEF processARPPacket, IndInv, TypeOK, Truthful
<1>6. CASE updateARPCache(sender, p.srcMAC)
    <2>1. /\ arpCache' \in [Channel -> Entry \cup {NoEntry}]
          /\ timer' \in [Channel -> BOOLEAN]
          /\ pendingPackets' \in [Channel -> Seq(Nat)]
          /\ out' \in [Channel -> Seq(Nat)]
          /\ usedMac' \in [Channel -> SUBSET (Host \cup {Broadcast})]
          /\ \A x \in Channel : CacheAnswers(x)' /\ Coupled(x)' /\ MacOK(x)'
        BY <1>1, <1>2, <1>3, <1>4, <1>6, updateARPCacheGood
    <2> QED
        BY <1>4, <1>5, <2>1 DEF IndInv, TypeOK, Truthful
<1>7. CASE UNCHANGED <<arpCache, timer, pendingPackets, out, usedMac>>
    BY <1>4, <1>5, <1>7 DEF IndInv, TypeOK, Truthful, CacheAnswers, Coupled, MacOK,
                            HasEntry, IsPending
<1> QED
    BY <1>6, <1>7 DEF processARPPacket

LEMMA requestTimedOutGood ==
    ASSUME IndInv, NEW c \in Channel, requestTimedOut(c) PROVE IndInv'
<1>1. /\ HasEntry(c) /\ arpCache[c] \in Entry /\ arpCache[c].pending
      /\ c[2] # Broadcast /\ isUp[c[1]] /\ timer[c]
    BY DEF requestTimedOut, IndInv, TypeOK, Coupled, CacheAnswers, IsPending, HasEntry
<1>2. CASE ResendRequest(c)
    <2> DEFINE k == arpCache[c].numRetries + 1
               e == [arpCache[c] EXCEPT !.numRetries = k]
    <2>1. k \in Nat /\ e \in Entry /\ e.pending
        BY <1>1 DEF Entry
    <2>2. /\ arpCache' = [arpCache EXCEPT ![c] = e]
          /\ lan' = lan \cup sendARPRequest(c, k)
          /\ UNCHANGED <<isUp, timer, pendingPackets, submitted, out, usedMac, budget>>
        BY <1>2 DEF ResendRequest, requestTimedOut
    <2> HIDE DEF e, k
    <2>3. TypeOK'
        BY <1>1, <2>1, <2>2, RequestGood DEF IndInv, TypeOK
    <2>4. Truthful(lan')
        BY <1>1, <2>1, <2>2, RequestGood DEF IndInv, Truthful
    <2>5. ASSUME NEW x \in Channel PROVE IsPending(x)' = IsPending(x) /\ HasEntry(x)' = HasEntry(x)
        BY <1>1, <2>1, <2>2, EntryIsNotNoEntry DEF IndInv, TypeOK, IsPending, HasEntry
    <2>6. ASSUME NEW x \in Channel PROVE CacheAnswers(x)'
        BY <1>1, <2>1, <2>2 DEF IndInv, TypeOK, CacheAnswers, HasEntry
    <2>7. ASSUME NEW x \in Channel PROVE Coupled(x)' /\ MacOK(x)'
        BY <2>2, <2>5 DEF IndInv, Coupled, MacOK
    <2> QED
        BY <2>3, <2>4, <2>6, <2>7 DEF IndInv, Truthful
<1>3. CASE FailResolution(c)
    <2>1. TypeOK'
        BY <1>3 DEF FailResolution, arpResolutionTimedOut, requestTimedOut, IndInv, TypeOK
    <2>2. ASSUME NEW x \in Channel PROVE CacheAnswers(x)' /\ Coupled(x)' /\ MacOK(x)'
        BY <1>3 DEF FailResolution, arpResolutionTimedOut, requestTimedOut, IndInv, TypeOK,
                    CacheAnswers, Coupled, MacOK, HasEntry, IsPending
    <2> QED
        BY <1>3, <2>1, <2>2 DEF FailResolution, IndInv, Truthful
<1> QED
    BY <1>2, <1>3 DEF requestTimedOut

LEMMA SpendGood ==
    ASSUME IndInv, NEW e \in EnvironmentEvent, Spend(e)
    PROVE  budget' \in [EnvironmentEvent -> Nat]
BY DEF IndInv, TypeOK, Spend

LEMMA CacheTimeoutGood ==
    ASSUME IndInv, NEW c \in Channel, CacheTimeout(c) PROVE IndInv'
<1> DEFINE e == [arpCache[c] EXCEPT !.fresh = FALSE]
<1>1. HasEntry(c) /\ arpCache[c] \in Entry
    BY DEF CacheTimeout, IndInv, TypeOK, HasEntry
<1>2. e \in Entry /\ e.pending = arpCache[c].pending /\ e.mac = arpCache[c].mac
    BY <1>1 DEF Entry
<1>3. /\ arpCache' = [arpCache EXCEPT ![c] = e]
      /\ UNCHANGED <<isUp, timer, pendingPackets, lan, submitted, out, usedMac>>
    BY DEF CacheTimeout
<1>4. budget' \in [EnvironmentEvent -> Nat]
    BY SpendGood DEF CacheTimeout, EnvironmentEvent
<1> HIDE DEF e
<1>5. TypeOK'
    BY <1>2, <1>3, <1>4 DEF IndInv, TypeOK
<1>6. ASSUME NEW x \in Channel
      PROVE  IsPending(x)' = IsPending(x) /\ HasEntry(x)' = HasEntry(x)
    BY <1>1, <1>2, <1>3, EntryIsNotNoEntry DEF IndInv, TypeOK, IsPending, HasEntry
<1>7. ASSUME NEW x \in Channel PROVE CacheAnswers(x)'
    BY <1>1, <1>2, <1>3 DEF IndInv, TypeOK, CacheAnswers, HasEntry
<1>8. ASSUME NEW x \in Channel PROVE Coupled(x)' /\ MacOK(x)'
    BY <1>3, <1>6 DEF IndInv, Coupled, MacOK
<1> QED
    BY <1>3, <1>5, <1>7, <1>8 DEF IndInv, Truthful

LEMMA StopGood == ASSUME IndInv, NEW h \in Host, Stop(h) PROVE IndInv'
<1>1. budget' \in [EnvironmentEvent -> Nat]
    BY SpendGood DEF Stop, EnvironmentEvent
<1>2. TypeOK'
    BY <1>1 DEF Stop, flush, IndInv, TypeOK
<1>3. ASSUME NEW x \in Channel PROVE CacheAnswers(x)' /\ Coupled(x)' /\ MacOK(x)'
    <2>1. x[1] \in Host
        BY ChannelParts
    <2>2. isUp'[x[1]] = (isUp[x[1]] /\ x[1] # h)
        BY <2>1 DEF Stop, IndInv, TypeOK
    <2> QED
        BY <2>2 DEF Stop, flush, IndInv, CacheAnswers, Coupled, MacOK, HasEntry, IsPending
<1> QED
    BY <1>2, <1>3 DEF Stop, IndInv, Truthful

LEMMA StartGood == ASSUME IndInv, NEW h \in Host, Start(h) PROVE IndInv'
<1>1. TypeOK'
    BY DEF Start, IndInv, TypeOK
<1>2. ASSUME NEW x \in Channel PROVE CacheAnswers(x)' /\ Coupled(x)' /\ MacOK(x)'
    <2>1. x[1] \in Host
        BY ChannelParts
    <2>2. isUp'[x[1]] = (isUp[x[1]] \/ x[1] = h)
        BY <2>1 DEF Start, IndInv, TypeOK
    <2> QED
        BY <2>2 DEF Start, IndInv, CacheAnswers, Coupled, MacOK, HasEntry, IsPending
<1> QED
    BY <1>1, <1>2 DEF Start, IndInv, Truthful

LEMMA PacketGoneGood ==
    ASSUME IndInv, NEW f \in lan, DropWhenDown(f) \/ PacketLost(f) PROVE IndInv'
<1>1. budget' \in [EnvironmentEvent -> Nat]
    BY SpendGood DEF DropWhenDown, PacketLost, EnvironmentEvent, IndInv, TypeOK
<1> QED
    BY <1>1 DEF DropWhenDown, PacketLost, IndInv, TypeOK, Truthful, CacheAnswers, Coupled,
                MacOK, HasEntry, IsPending

LEMMA NextIndInv == IndInv /\ [Next]_vars => IndInv'
<1> SUFFICES ASSUME IndInv, [Next]_vars PROVE IndInv'
    OBVIOUS
<1>1. ASSUME NEW c \in Channel, sendDatagramToOutput(c) \/ requestTimedOut(c) \/ CacheTimeout(c)
      PROVE  IndInv'
    BY <1>1, SendResolvedGood, PendDatagramGood, requestTimedOutGood, CacheTimeoutGood
       DEF sendDatagramToOutput
<1>2. ASSUME NEW f \in lan, processARPPacket(f) \/ DropWhenDown(f) \/ PacketLost(f)
      PROVE  IndInv'
    BY <1>2, processARPPacketGood, PacketGoneGood
<1>3. ASSUME NEW h \in Host, Stop(h) \/ Start(h) PROVE IndInv'
    BY <1>3, StopGood, StartGood
<1>4. CASE UNCHANGED vars
    BY <1>4 DEF vars, IndInv, TypeOK, Truthful, CacheAnswers, Coupled, MacOK, HasEntry, IsPending
<1> QED
    BY <1>1, <1>2, <1>3, <1>4 DEF Next

LEMMA Invariance == Spec => []IndInv
BY InitIndInv, NextIndInv, PTL DEF Spec

(* The state of ARP and of IPv4's queues has its type; in particular no     *)
(* datagram is sent to the unspecified MAC address.                         *)
THEOREM TypeCorrect == Spec => []TypeOK
<1>1. IndInv => TypeOK
    BY IndInvImplies
<1> QED
    BY <1>1, Invariance, PTL

(* The assertion of sendDatagramToOutput never fails, and no datagram is    *)
(* queued for a next hop that nobody is resolving.                          *)
THEOREM QueuesFollowResolutions == Spec => []QueueIffPending
<1>1. IndInv => QueueIffPending
    BY IndInvImplies
<1> QED
    BY <1>1, Invariance, PTL

(* Every pending resolution has its timer, no other entry has one, and no   *)
(* timer is left for handleMessageWhenDown to throw on.                     *)
THEOREM TimersFollowResolutions == Spec => []TimerIffPending
<1>1. IndInv => TimerIffPending
    BY IndInvImplies
<1> QED
    BY <1>1, Invariance, PTL

(* ARP::start finds the cache empty, as it asserts, and IPv4 restarts       *)
(* without old datagrams.                                                   *)
THEOREM RestartsAreClean == Spec => []StoppedHostClean
<1>1. IndInv => StoppedHostClean
    BY IndInvImplies
<1> QED
    BY <1>1, Invariance, PTL

(* Datagrams go only to hosts that have or answer for the next hop.         *)
THEOREM DatagramsGoToAnsweringHosts == Spec => []MacAnswers
<1>1. IndInv => MacAnswers
    BY IndInvImplies
<1> QED
    BY <1>1, Invariance, PTL

-----------------------------------------------------------------------------
(* ARP implements NextHopChannel: one step per action of Next, mapped to a  *)
(* step of the channel or to no change of it.                               *)

LEMMA InitSimulation == Init => FIFO!Init
BY DEF Init, FIFO!Init

LEMMA SendResolvedTransmits ==
    ASSUME IndInv, NEW c \in Channel, SendResolved(c) PROVE FIFO!Transmit(c)
<1>1. CacheAnswers(c) /\ Coupled(c)
    BY DEF IndInv
<1>2. ~IsPending(c)
    BY <1>1, AddressAssumption DEF SendResolved, resolveNextHopMacAddress, IsPending, CacheAnswers
<1>3. pendingPackets[c] = <<>>
    BY <1>1, <1>2 DEF Coupled
<1> QED
    BY <1>3 DEF SendResolved, MaySend, FIFO!Transmit

LEMMA PendDatagramHolds ==
    ASSUME NEW c \in Channel, PendDatagram(c) PROVE FIFO!Hold(c)
BY DEF PendDatagram, MaySend, FIFO!Hold

LEMMA requestTimedOutDiscards ==
    ASSUME IndInv, NEW c \in Channel, requestTimedOut(c)
    PROVE  FIFO!Discard({c}) \/ UNCHANGED <<submitted, pendingPackets, out>>
<1>1. CASE ResendRequest(c)
    BY <1>1 DEF ResendRequest, requestTimedOut
<1>2. CASE FailResolution(c)
    <2>1. pendingPackets' = [x \in Channel |-> IF x \in {c} THEN <<>> ELSE pendingPackets[x]]
        BY <1>2 DEF FailResolution, arpResolutionTimedOut, IndInv, TypeOK
    <2> QED
        BY <2>1 DEF requestTimedOut, FIFO!Discard
<1> QED
    BY <1>1, <1>2 DEF requestTimedOut

LEMMA StopDiscards ==
    ASSUME NEW h \in Host, Stop(h) PROVE FIFO!Discard({c \in Channel : c[1] = h})
BY DEF Stop, flush, FIFO!Discard

LEMMA processARPPacketReleases ==
    ASSUME IndInv, NEW f \in lan, processARPPacket(f)
    PROVE  (\E c \in Channel : FIFO!Release(c)) \/ UNCHANGED <<submitted, pendingPackets, out>>
<1> DEFINE c == <<f.to, f.arp.srcIP>>
<1>1. c \in Channel
    BY DEF IndInv, TypeOK, ARPPacket, Channel
<1>2. UNCHANGED submitted
    BY DEF processARPPacket
<1>3. CASE updateARPCache(c, f.arp.srcMAC)
    <2>1. CASE pendingPackets[c] = <<>>
        BY <1>2, <1>3, <2>1 DEF updateARPCache, arpResolutionCompleted
    <2>2. CASE pendingPackets[c] # <<>>
        <3>1. FIFO!Release(c)
            BY <1>2, <1>3, <2>2 DEF updateARPCache, arpResolutionCompleted, FIFO!Release
        <3> QED
            BY <1>1, <3>1
    <2> QED
        BY <2>1, <2>2
<1>4. CASE UNCHANGED <<arpCache, timer, pendingPackets, out, usedMac>>
    BY <1>2, <1>4
<1> QED
    BY <1>3, <1>4 DEF processARPPacket

LEMMA StepSimulation == IndInv /\ [Next]_vars => [FIFO!Next]_(FIFO!vars)
<1> SUFFICES ASSUME IndInv, [Next]_vars
             PROVE  FIFO!Next \/ UNCHANGED <<submitted, pendingPackets, out>>
    BY DEF FIFO!vars
<1>1. ASSUME NEW c \in Channel, sendDatagramToOutput(c) PROVE FIFO!Next
    BY <1>1, SendResolvedTransmits, PendDatagramHolds DEF sendDatagramToOutput, FIFO!Next
<1>2. ASSUME NEW c \in Channel, requestTimedOut(c)
      PROVE  FIFO!Next \/ UNCHANGED <<submitted, pendingPackets, out>>
    BY <1>2, requestTimedOutDiscards DEF FIFO!Next
<1>3. ASSUME NEW f \in lan, processARPPacket(f)
      PROVE  FIFO!Next \/ UNCHANGED <<submitted, pendingPackets, out>>
    BY <1>3, processARPPacketReleases DEF FIFO!Next
<1>4. ASSUME NEW h \in Host, Stop(h) PROVE FIFO!Next
    BY <1>4, StopDiscards DEF FIFO!Next
<1>5. CASE \/ \E c \in Channel : CacheTimeout(c)
           \/ \E f \in lan : DropWhenDown(f) \/ PacketLost(f)
           \/ \E h \in Host : Start(h)
           \/ UNCHANGED vars
    BY <1>5 DEF CacheTimeout, DropWhenDown, PacketLost, Start, vars
<1> QED
    BY <1>1, <1>2, <1>3, <1>4, <1>5 DEF Next

(* Per next hop, IPv4 over ARP is a FIFO channel: queueing, flushing and    *)
(* dropping on the ARP signals never reorders, repeats or splits a queue.   *)
THEOREM ImplementsChannel == Spec => FIFOChannel
<1>1. Spec => FIFO!Init /\ [][FIFO!Next]_(FIFO!vars)
    BY InitSimulation, StepSimulation, Invariance, PTL DEF Spec
<1> QED
    BY <1>1 DEF FIFOChannel, FIFO!Spec

-----------------------------------------------------------------------------
(* The order of the datagrams, as a consequence of the simulation.          *)

OrderOK(k, s) == FIFO!Increasing(s) /\ \A i \in 1 .. Len(s) : s[i] <= k

LEMMA AppendNext ==
    ASSUME NEW s \in Seq(Nat), NEW k \in Nat, OrderOK(k, s)
    PROVE  OrderOK(k + 1, Append(s, k + 1))
<1> DEFINE t == Append(s, k + 1)
<1>1. Len(t) = Len(s) + 1 /\ Len(s) \in Nat
    OBVIOUS
<1>2. \A i \in 1 .. Len(s) : t[i] = s[i] /\ s[i] \in Nat
    OBVIOUS
<1>3. t[Len(s) + 1] = k + 1
    OBVIOUS
<1> HIDE DEF t
<1>4. \A i \in 1 .. Len(t) : i \in 1 .. Len(s) \/ i = Len(s) + 1
    BY <1>1
<1>5. ASSUME NEW i \in 1 .. Len(t) PROVE t[i] <= k + 1
    BY <1>2, <1>3, <1>4 DEF OrderOK
<1>6. ASSUME NEW i \in 1 .. Len(t), NEW j \in 1 .. Len(t), i < j PROVE t[i] < t[j]
    <2>1. i \in 1 .. Len(s)
        BY <1>1, <1>6
    <2>2. CASE j \in 1 .. Len(s)
        BY <1>2, <1>6, <2>1, <2>2 DEF OrderOK, FIFO!Increasing
    <2>3. CASE j = Len(s) + 1
        BY <1>2, <1>3, <2>1, <2>3 DEF OrderOK
    <2> QED
        BY <1>4, <2>2, <2>3
<1>7. OrderOK(k + 1, t)
    BY <1>5, <1>6 DEF OrderOK, FIFO!Increasing
<1> QED
    BY <1>7 DEF t

LEMMA PrefixOrder ==
    ASSUME NEW s \in Seq(Nat), NEW t \in Seq(Nat), NEW k \in Nat, OrderOK(k, s \o t)
    PROVE  OrderOK(k, s)
<1>1. Len(s \o t) = Len(s) + Len(t) /\ \A i \in 1 .. Len(s) : (s \o t)[i] = s[i]
    BY ConcatProperties
<1>2. Len(s) \in Nat /\ Len(t) \in Nat
    OBVIOUS
<1>3. \A i \in 1 .. Len(s) : i \in 1 .. Len(s \o t)
    BY <1>1, <1>2
<1>4. \A i \in 1 .. Len(s) : s[i] <= k
    BY <1>1, <1>3 DEF OrderOK
<1>5. ASSUME NEW i \in 1 .. Len(s), NEW j \in 1 .. Len(s), i < j PROVE s[i] < s[j]
    <2>1. (s \o t)[i] < (s \o t)[j]
        BY <1>3, <1>5 DEF OrderOK, FIFO!Increasing
    <2> QED
        BY <1>1, <2>1
<1> QED
    BY <1>4, <1>5 DEF OrderOK, FIFO!Increasing

LEMMA HoldAtEnd ==
    ASSUME NEW s \in Seq(Nat), NEW t \in Seq(Nat), NEW k \in Nat
    PROVE  s \o Append(t, k) = Append(s \o t, k)
<1>1. s \o t \in Seq(Nat) /\ Append(t, k) \in Seq(Nat) /\ Append(t, k) = t \o <<k>>
    BY ConcatProperties, AppendIsConcat
<1>2. Append(s \o t, k) = (s \o t) \o <<k>>
    BY <1>1, AppendIsConcat
<1>3. (s \o t) \o <<k>> = s \o (t \o <<k>>)
    BY ConcatAssociative
<1> QED
    BY <1>1, <1>2, <1>3

LEMMA InOrderByChannel ==
    /\ InOrder <=> \A c \in Channel : OrderOK(submitted[c], out[c] \o pendingPackets[c])
    /\ InOrder' <=> \A c \in Channel : OrderOK(submitted'[c], out'[c] \o pendingPackets'[c])
BY DEF InOrder, FIFO!InOrder, OrderOK

LEMMA OrderStep ==
    ASSUME TypeOK, InOrder, FIFO!Next \/ UNCHANGED <<submitted, pendingPackets, out>>
    PROVE  InOrder'
<1> SUFFICES ASSUME NEW c \in Channel
             PROVE  OrderOK(submitted'[c], out'[c] \o pendingPackets'[c])
    BY InOrderByChannel
<1> DEFINE k == submitted[c]
           s == out[c]
           t == pendingPackets[c]
<1>1. k \in Nat /\ s \in Seq(Nat) /\ t \in Seq(Nat) /\ OrderOK(k, s \o t)
    BY InOrderByChannel DEF TypeOK
<1>2. /\ s \o <<>> = s
      /\ s \o t \in Seq(Nat) /\ (s \o t) \o <<>> = s \o t
      /\ Append(s, k + 1) \in Seq(Nat) /\ Append(s, k + 1) \o <<>> = Append(s, k + 1)
    BY <1>1, ConcatProperties, ConcatEmptySeq
<1>3. CASE submitted'[c] = k /\ pendingPackets'[c] = t /\ out'[c] = s
    BY <1>1, <1>3
<1>4. CASE submitted'[c] = k + 1 /\ pendingPackets'[c] = Append(t, k + 1) /\ out'[c] = s
    <2>1. s \o Append(t, k + 1) = Append(s \o t, k + 1)
        <3>1. k + 1 \in Nat
            BY <1>1
        <3> QED
            BY <1>1, <3>1, HoldAtEnd
    <2>2. OrderOK(k + 1, Append(s \o t, k + 1))
        <3>1. \A x \in Seq(Nat) : OrderOK(k, x) => OrderOK(k + 1, Append(x, k + 1))
            BY <1>1, AppendNext
        <3> QED
            BY <1>1, <1>2, <3>1
    <2> QED
        BY <1>4, <2>1, <2>2
<1>5. CASE t = <<>> /\ submitted'[c] = k + 1 /\ pendingPackets'[c] = t /\ out'[c] = Append(s, k + 1)
    BY <1>1, <1>2, <1>5, AppendNext
<1>6. CASE submitted'[c] = k /\ pendingPackets'[c] = <<>> /\ out'[c] = s \o t
    BY <1>1, <1>2, <1>6
<1>7. CASE submitted'[c] = k /\ pendingPackets'[c] = <<>> /\ out'[c] = s
    BY <1>1, <1>2, <1>7, PrefixOrder
<1> HIDE DEF k, s, t
<1>8. ASSUME NEW d \in Channel, FIFO!Hold(d) \/ FIFO!Transmit(d) \/ FIFO!Release(d)
      PROVE  OrderOK(submitted'[c], out'[c] \o pendingPackets'[c])
    <2>1. CASE d # c
        BY <1>3, <1>8, <2>1 DEF FIFO!Hold, FIFO!Transmit, FIFO!Release, TypeOK, k, s, t
    <2>2. CASE d = c /\ FIFO!Hold(d)
        BY <1>4, <2>2 DEF FIFO!Hold, TypeOK, k, s, t
    <2>3. CASE d = c /\ FIFO!Transmit(d)
        BY <1>5, <2>3 DEF FIFO!Transmit, TypeOK, k, s, t
    <2>4. CASE d = c /\ FIFO!Release(d)
        BY <1>6, <2>4 DEF FIFO!Release, TypeOK, k, s, t
    <2> QED
        BY <1>8, <2>1, <2>2, <2>3, <2>4
<1>9. ASSUME NEW C \in SUBSET Channel, FIFO!Discard(C)
      PROVE  OrderOK(submitted'[c], out'[c] \o pendingPackets'[c])
    BY <1>3, <1>7, <1>9 DEF FIFO!Discard, k, s, t
<1>10. CASE UNCHANGED <<submitted, pendingPackets, out>>
    BY <1>3, <1>10 DEF k, s, t
<1> QED
    BY <1>8, <1>9, <1>10 DEF FIFO!Next

LEMMA InitInOrder == Init => InOrder
<1> SUFFICES ASSUME Init, NEW c \in Channel
             PROVE  OrderOK(submitted[c], out[c] \o pendingPackets[c])
    BY InOrderByChannel
<1>1. out[c] \o pendingPackets[c] = <<>>
    BY DEF Init
<1> QED
    BY <1>1, EmptySeq DEF OrderOK, FIFO!Increasing

(* Datagrams to one next hop are transmitted at most once and in the order  *)
(* in which IPv4 was given them, across resolutions, expiry and restarts.   *)
THEOREM DatagramsStayInOrder == Spec => []InOrder
<1>1. IndInv /\ InOrder /\ [Next]_vars => InOrder'
    BY StepSimulation, OrderStep, IndInvImplies DEF FIFO!vars
<1> QED
    BY <1>1, InitInOrder, Invariance, PTL DEF Spec
=============================================================================
