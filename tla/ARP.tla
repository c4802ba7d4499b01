-------------------------------- MODULE ARP --------------------------------
(***************************************************************************)
(* Address resolution on one LAN: the ARP module of every host and the     *)
(* part of its IPv4 module that waits for it.  IPv4 queues the datagrams   *)
(* of an unresolved next hop in pendingPackets; ARP tells it of a resolved *)
(* or failed resolution with a signal, that is a call, so the two change   *)
(* in one step.                                                            *)
(*                                                                         *)
(* A host stands for its IPv4 address and for its MAC address.  Remote     *)
(* addresses are behind a router that answers for them (proxy ARP).  Time  *)
(* is abstracted: a request timer may fire and a cache entry may expire    *)
(* (become no longer fresh) at any moment.  A datagram is its number in    *)
(* the order in which its host sends to the next hop.                      *)
(***************************************************************************)
EXTENDS Naturals, Sequences

CONSTANTS
    Host, Remote,
    ProxyFor,           \* pairs <<h, r>>: h answers requests for address r
    Traffic,            \* per channel: bound on the datagrams sent on it
    RetryCount,
    NoEntry, Unspecified, Broadcast,
    MaxLoss, MaxExpire, MaxCrash    \* bounds: environment events

Address == Host \cup Remote

(* A channel <<h, d>> is next hop d as host h sees it.                      *)
Channel == Host \X (Address \cup {Broadcast})

(* The unicast next hops that carry traffic: only these are ever resolved.  *)
Used == {c \in Channel : Traffic[c] > 0 /\ c[2] # Broadcast}

ASSUME AddressAssumption ==
    /\ Host \cap Remote = {}
    /\ Broadcast \notin Address /\ Unspecified \notin Address \cup {Broadcast}
ASSUME TopologyAssumption ==
    /\ ProxyFor \subseteq Host \X Remote
    /\ Traffic \in [Channel -> Nat]
    /\ \A c \in Channel : c[1] = c[2] => Traffic[c] = 0
ASSUME BoundAssumption ==
    {RetryCount, MaxLoss, MaxExpire, MaxCrash} \subseteq Nat

VARIABLES
    isUp,               \* per host
    arpCache,           \* per channel: an ARPCacheEntry or NoEntry
    timer,              \* per channel: the entry's request timer is scheduled
    pendingPackets,     \* per channel: IPv4's queue, empty = no queue
    lan,                \* ARP packets on their way
    submitted,          \* per channel: datagrams given to sendDatagramToOutput
    out,                \* per channel: datagrams given to the NIC
    usedMac,            \* per channel: the MAC addresses they were sent to
    budget

vars == <<isUp, arpCache, timer, pendingPackets, lan, submitted, out, usedMac, budget>>

Entry ==
    [pending : BOOLEAN, mac : Host \cup {Unspecified}, fresh : BOOLEAN, numRetries : Nat]

ASSUME NoEntryAssumption == NoEntry \notin Entry

ARPPacket ==
    [opcode : {"REQUEST", "REPLY"}, srcMAC : Host, srcIP : Address, destIP : Address,
     attempt : Nat]

EnvironmentEvent == {"loss", "expire", "crash"}

TypeOK ==
    /\ isUp \in [Host -> BOOLEAN]
    /\ arpCache \in [Channel -> Entry \cup {NoEntry}]
    /\ timer \in [Channel -> BOOLEAN]
    /\ pendingPackets \in [Channel -> Seq(Nat)]
    /\ lan \subseteq [to : Host, arp : ARPPacket]
    /\ submitted \in [Channel -> Nat]
    /\ out \in [Channel -> Seq(Nat)]
    /\ usedMac \in [Channel -> SUBSET (Host \cup {Broadcast})]
    /\ budget \in [EnvironmentEvent -> Nat]

Init ==
    /\ isUp = [h \in Host |-> TRUE]
    /\ arpCache = [c \in Channel |-> NoEntry]
    /\ timer = [c \in Channel |-> FALSE]
    /\ pendingPackets = [c \in Channel |-> <<>>]
    /\ lan = {}
    /\ submitted = [c \in Channel |-> 0]
    /\ out = [c \in Channel |-> <<>>]
    /\ usedMac = [c \in Channel |-> {}]
    /\ budget = [e \in EnvironmentEvent |->
                    CASE e = "loss" -> MaxLoss [] e = "expire" -> MaxExpire
                      [] e = "crash" -> MaxCrash]

Spend(event) == budget[event] > 0 /\ budget' = [budget EXCEPT ![event] = @ - 1]

HasEntry(c) == arpCache[c] # NoEntry

IsPending(c) == HasEntry(c) /\ arpCache[c].pending

-----------------------------------------------------------------------------
(* ARP packets.  attempt tells the copies of a repeated request apart, as   *)
(* the messages of the simulation are.                                      *)

sendARPRequest(c, attempt) ==
    {[to |-> h,
      arp |-> [opcode |-> "REQUEST", srcMAC |-> c[1], srcIP |-> c[1], destIP |-> c[2],
               attempt |-> attempt]] : h \in Host \ {c[1]}}

(* Mutant: the sender's hardware address is left in the reply.              *)
replyUnswapped(h, p) ==
    {[to |-> p.srcMAC,
      arp |-> [opcode |-> "REPLY", srcMAC |-> p.srcMAC, srcIP |-> p.destIP,
               destIP |-> p.srcIP, attempt |-> p.attempt]]}

(* h answers request p: "Swap hardware and protocol fields".                *)
sendARPReply(h, p) ==
    {[to |-> p.srcMAC,
      arp |-> [opcode |-> "REPLY", srcMAC |-> h, srcIP |-> p.destIP,
               destIP |-> p.srcIP, attempt |-> p.attempt]]}

addressRecognized(h, d) == d = h \/ <<h, d>> \in ProxyFor

-----------------------------------------------------------------------------
(* IPv4: sendDatagramToOutput.                                              *)

(* resolveNextHopMacAddress and the cache lookup of resolveL3Address.       *)
resolveNextHopMacAddress(c) ==
    IF c[2] = Broadcast THEN Broadcast
    ELSE IF HasEntry(c) /\ ~arpCache[c].pending /\ arpCache[c].fresh
         THEN arpCache[c].mac ELSE Unspecified

(* Mutant: the timer of a resolution that starts over is not scheduled.     *)
initiateWithoutTimer(c) ==
    /\ arpCache' = [arpCache EXCEPT ![c] =
           [pending |-> TRUE, mac |-> Unspecified, fresh |-> FALSE, numRetries |-> 0]]
    /\ timer' = [timer EXCEPT ![c] = ~HasEntry(c)]
    /\ lan' = lan \cup sendARPRequest(c, 0)

initiateARPResolution(c) ==
    /\ arpCache' = [arpCache EXCEPT ![c] =
           [pending |-> TRUE, mac |-> Unspecified, fresh |-> FALSE, numRetries |-> 0]]
    /\ timer' = [timer EXCEPT ![c] = TRUE]
    /\ lan' = lan \cup sendARPRequest(c, 0)

MaySend(c) ==
    /\ isUp[c[1]]
    /\ submitted[c] < Traffic[c]
    /\ submitted' = [submitted EXCEPT ![c] = @ + 1]
    /\ UNCHANGED <<isUp, budget>>

SendResolved(c) ==
    LET mac == resolveNextHopMacAddress(c)
    IN  /\ MaySend(c)
        /\ mac # Unspecified
        /\ out' = [out EXCEPT ![c] = Append(@, submitted[c] + 1)]
        /\ usedMac' = [usedMac EXCEPT ![c] = @ \cup {mac}]
        /\ UNCHANGED <<arpCache, timer, pendingPackets, lan>>

(* Mutant: the newest datagram goes to the front of the queue.              *)
PendInFront(c) ==
    /\ MaySend(c)
    /\ resolveNextHopMacAddress(c) = Unspecified
    /\ pendingPackets' = [pendingPackets EXCEPT ![c] = <<submitted[c] + 1>> \o @]
    /\ IF IsPending(c) THEN UNCHANGED <<arpCache, timer, lan>> ELSE initiateARPResolution(c)
    /\ UNCHANGED <<out, usedMac>>

(* No entry, or an expired one: a resolution starts; one that is under way  *)
(* is not disturbed.  The datagram joins the queue in any case.             *)
PendDatagram(c) ==
    /\ MaySend(c)
    /\ resolveNextHopMacAddress(c) = Unspecified
    /\ pendingPackets' = [pendingPackets EXCEPT ![c] = Append(@, submitted[c] + 1)]
    /\ IF IsPending(c) THEN UNCHANGED <<arpCache, timer, lan>> ELSE initiateARPResolution(c)
    /\ UNCHANGED <<out, usedMac>>

sendDatagramToOutput(c) == SendResolved(c) \/ PendDatagram(c)

-----------------------------------------------------------------------------
(* IPv4's side of the ARP signals.                                          *)

(* Mutant: the first queued datagram is sent, the rest is deleted.          *)
completedFirstOnly(c, mac) ==
    IF pendingPackets[c] = <<>> THEN UNCHANGED <<pendingPackets, out, usedMac>>
    ELSE /\ out' = [out EXCEPT ![c] = Append(@, Head(pendingPackets[c]))]
         /\ usedMac' = [usedMac EXCEPT ![c] = @ \cup {mac}]
         /\ pendingPackets' = [pendingPackets EXCEPT ![c] = <<>>]

arpResolutionCompleted(c, mac) ==
    IF pendingPackets[c] = <<>> THEN UNCHANGED <<pendingPackets, out, usedMac>>
    ELSE /\ out' = [out EXCEPT ![c] = @ \o pendingPackets[c]]
         /\ usedMac' = [usedMac EXCEPT ![c] = @ \cup {mac}]
         /\ pendingPackets' = [pendingPackets EXCEPT ![c] = <<>>]

(* Mutant: the queue of a failed resolution is kept.                        *)
timedOutKeeping(c) == UNCHANGED pendingPackets

arpResolutionTimedOut(c) == pendingPackets' = [pendingPackets EXCEPT ![c] = <<>>]

-----------------------------------------------------------------------------
(* ARP: packets and timers.                                                 *)

(* Mutant: IPv4 is notified with the address the entry had before.          *)
updateNotifyingOldMac(c, macAddress) ==
    /\ arpCache' = [arpCache EXCEPT ![c] =
           [pending |-> FALSE, mac |-> macAddress, fresh |-> TRUE, numRetries |-> 0]]
    /\ timer' = [timer EXCEPT ![c] = FALSE]
    /\ arpResolutionCompleted(c, IF HasEntry(c) THEN arpCache[c].mac ELSE macAddress)

updateARPCache(c, macAddress) ==
    /\ arpCache' = [arpCache EXCEPT ![c] =
           [pending |-> FALSE, mac |-> macAddress, fresh |-> TRUE, numRetries |-> 0]]
    /\ timer' = [timer EXCEPT ![c] = FALSE]
    /\ arpResolutionCompleted(c, macAddress)

(* The sender's mapping is merged if it is known or the packet is for this  *)
(* host (or an address it answers for); a request for it is answered.       *)
processARPPacket(f) ==
    LET h == f.to
        p == f.arp
        sender == <<h, p.srcIP>>
        mine == addressRecognized(h, p.destIP)
    IN  /\ isUp[h]
        /\ IF HasEntry(sender) \/ mine
           THEN updateARPCache(sender, p.srcMAC)
           ELSE UNCHANGED <<arpCache, timer, pendingPackets, out, usedMac>>
        /\ lan' = (lan \ {f}) \cup
               (IF mine /\ p.opcode = "REQUEST" THEN sendARPReply(h, p) ELSE {})
        /\ UNCHANGED <<isUp, submitted, budget>>

(* Mutant: the retries are not counted.                                     *)
ResendUncounted(c) ==
    /\ arpCache[c].numRetries + 1 < RetryCount
    /\ lan' = lan \cup sendARPRequest(c, arpCache[c].numRetries)
    /\ UNCHANGED <<arpCache, timer, pendingPackets>>

(* requestTimedOut: another request, or the resolution has failed.          *)
ResendRequest(c) ==
    LET numRetries == arpCache[c].numRetries + 1
    IN  /\ numRetries < RetryCount
        /\ arpCache' = [arpCache EXCEPT ![c].numRetries = numRetries]
        /\ lan' = lan \cup sendARPRequest(c, numRetries)
        /\ UNCHANGED <<timer, pendingPackets>>

FailResolution(c) ==
    /\ arpCache[c].numRetries + 1 >= RetryCount
    /\ arpCache' = [arpCache EXCEPT ![c] = NoEntry]
    /\ timer' = [timer EXCEPT ![c] = FALSE]
    /\ arpResolutionTimedOut(c)
    /\ UNCHANGED lan

requestTimedOut(c) ==
    /\ timer[c]
    /\ ResendRequest(c) \/ FailResolution(c)
    /\ UNCHANGED <<isUp, submitted, out, usedMac, budget>>

(* Longer than cacheTimeout since the entry's last update.                  *)
CacheTimeout(c) ==
    /\ HasEntry(c) /\ arpCache[c].fresh
    /\ Spend("expire")
    /\ arpCache' = [arpCache EXCEPT ![c].fresh = FALSE]
    /\ UNCHANGED <<isUp, timer, pendingPackets, lan, submitted, out, usedMac>>

-----------------------------------------------------------------------------
(* Lifecycle and the LAN.                                                   *)

(* Mutant: IPv4 keeps its queues when the host stops.                       *)
flushCacheOnly(h) ==
    /\ arpCache' = [c \in Channel |-> IF c[1] = h THEN NoEntry ELSE arpCache[c]]
    /\ timer' = [c \in Channel |-> timer[c] /\ c[1] # h]
    /\ UNCHANGED pendingPackets

(* ARP::flush and IPv4::flush, in the same lifecycle stage.                 *)
flush(h) ==
    /\ arpCache' = [c \in Channel |-> IF c[1] = h THEN NoEntry ELSE arpCache[c]]
    /\ timer' = [c \in Channel |-> timer[c] /\ c[1] # h]
    /\ pendingPackets' = [c \in Channel |-> IF c[1] = h THEN <<>> ELSE pendingPackets[c]]

Stop(h) ==
    /\ isUp[h]
    /\ Spend("crash")
    /\ isUp' = [isUp EXCEPT ![h] = FALSE]
    /\ flush(h)
    /\ UNCHANGED <<lan, submitted, out, usedMac>>

Start(h) ==
    /\ ~isUp[h]
    /\ isUp' = [isUp EXCEPT ![h] = TRUE]
    /\ UNCHANGED <<arpCache, timer, pendingPackets, lan, submitted, out, usedMac, budget>>

DropWhenDown(f) ==
    /\ ~isUp[f.to]
    /\ lan' = lan \ {f}
    /\ UNCHANGED <<isUp, arpCache, timer, pendingPackets, submitted, out, usedMac, budget>>

PacketLost(f) ==
    /\ Spend("loss")
    /\ lan' = lan \ {f}
    /\ UNCHANGED <<isUp, arpCache, timer, pendingPackets, submitted, out, usedMac>>

Next ==
    \/ \E c \in Channel : sendDatagramToOutput(c) \/ requestTimedOut(c) \/ CacheTimeout(c)
    \/ \E f \in lan : processARPPacket(f) \/ DropWhenDown(f) \/ PacketLost(f)
    \/ \E h \in Host : Stop(h) \/ Start(h)

Spec == Init /\ [][Next]_vars

(***************************************************************************)
(* Fairness: a scheduled timer fires, a packet on the LAN arrives or is    *)
(* lost.  Applications, expiry, losses and the lifecycle are owed nothing. *)
(***************************************************************************)
Fairness ==
    /\ \A c \in Used : WF_vars(requestTimedOut(c))
    /\ WF_vars(\E f \in lan : processARPPacket(f) \/ DropWhenDown(f) \/ PacketLost(f))

FairSpec == Spec /\ Fairness

-----------------------------------------------------------------------------
(* Properties.                                                              *)

(***************************************************************************)
(* IPv4 has a queue for a next hop exactly while ARP is resolving it.  It  *)
(* is what sendDatagramToOutput asserts before it sends past the queue     *)
(* ("nextHopAddr found in ARP table, but IPv4 queue for nextHopAddr not    *)
(* empty"), and no datagram is stranded in a queue no signal will empty.   *)
(***************************************************************************)
QueueIffPending == \A c \in Channel : pendingPackets[c] # <<>> <=> IsPending(c)

(***************************************************************************)
(* A request timer runs exactly for the pending entries of hosts that are  *)
(* up: requestTimedOut dereferences its entry, handleMessageWhenDown       *)
(* throws on a timer, and a pending entry without one waits forever.       *)
(***************************************************************************)
TimerIffPending == \A c \in Channel : timer[c] <=> IsPending(c) /\ isUp[c[1]]

(***************************************************************************)
(* A stopped host has nothing left: ARP::start asserts an empty cache, and *)
(* after a restart IPv4 must not send what it queued before.               *)
(***************************************************************************)
StoppedHostClean ==
    \A c \in Channel : ~isUp[c[1]] =>
        ~HasEntry(c) /\ ~timer[c] /\ pendingPackets[c] = <<>>

(***************************************************************************)
(* Every unicast datagram was sent to the MAC address of a host that has,  *)
(* or answers for, the next hop's address, and the broadcast address is    *)
(* used for no other next hop.                                             *)
(***************************************************************************)
MacAnswers ==
    \A c \in Channel : \A mac \in usedMac[c] :
        IF c[2] = Broadcast THEN mac = Broadcast ELSE mac = c[2] \/ <<mac, c[2]>> \in ProxyFor

(***************************************************************************)
(* ARP and IPv4 together are a FIFO channel per next hop: no datagram sent *)
(* with a cached address overtakes one that waits for the resolution, and  *)
(* the queue leaves whole and in order or not at all.                      *)
(***************************************************************************)
FIFO == INSTANCE NextHopChannel WITH held <- pendingPackets

FIFOChannel == FIFO!Spec

(* The transmitted datagrams are in order of submission, without            *)
(* repetition, and the queued ones come after them.                         *)
InOrder == FIFO!InOrder

(***************************************************************************)
(* Liveness: a queue does not stay.  Whatever is lost, requestTimedOut     *)
(* gives up after RetryCount requests.                                     *)
(***************************************************************************)
ResolutionEnds ==
    \A c \in Used : pendingPackets[c] # <<>> ~> pendingPackets[c] = <<>>
=============================================================================
