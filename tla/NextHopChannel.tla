--------------------------- MODULE NextHopChannel ---------------------------
(***************************************************************************)
(* What IPv4 promises for the datagrams it sends to one next hop over a    *)
(* LAN, whatever the address resolution does: a FIFO channel that may hold *)
(* datagrams back.  Held datagrams leave together, in order, or are        *)
(* discarded together; nothing overtakes them, and nothing is held         *)
(* forever.  ARP is shown to implement it.                                 *)
(*                                                                         *)
(* A datagram is its number in the order of submission.                    *)
(***************************************************************************)
EXTENDS Naturals, Sequences

CONSTANT Channel

VARIABLES
    submitted,      \* per channel: how many datagrams were handed over
    held,           \* per channel: the datagrams held back
    out             \* per channel: the datagrams transmitted so far

vars == <<submitted, held, out>>

Init ==
    /\ submitted = [c \in Channel |-> 0]
    /\ held = [c \in Channel |-> <<>>]
    /\ out = [c \in Channel |-> <<>>]

Hold(c) ==
    /\ submitted' = [submitted EXCEPT ![c] = @ + 1]
    /\ held' = [held EXCEPT ![c] = Append(@, submitted[c] + 1)]
    /\ UNCHANGED out

Transmit(c) ==
    /\ held[c] = <<>>
    /\ submitted' = [submitted EXCEPT ![c] = @ + 1]
    /\ out' = [out EXCEPT ![c] = Append(@, submitted[c] + 1)]
    /\ UNCHANGED held

Release(c) ==
    /\ held[c] # <<>>
    /\ out' = [out EXCEPT ![c] = @ \o held[c]]
    /\ held' = [held EXCEPT ![c] = <<>>]
    /\ UNCHANGED submitted

(* Several channels at once when their host stops.                          *)
Discard(C) ==
    /\ held' = [c \in Channel |-> IF c \in C THEN <<>> ELSE held[c]]
    /\ UNCHANGED <<submitted, out>>

Next ==
    \/ \E c \in Channel : Hold(c) \/ Transmit(c) \/ Release(c)
    \/ \E C \in SUBSET Channel : Discard(C)

Spec == Init /\ [][Next]_vars

(***************************************************************************)
(* The datagrams of a channel are transmitted at most once and in the      *)
(* order of submission, and the ones held back come after them.            *)
(***************************************************************************)
Increasing(s) == \A i \in 1 .. Len(s) : \A j \in 1 .. Len(s) : i < j => s[i] < s[j]

InOrder ==
    \A c \in Channel :
        /\ Increasing(out[c] \o held[c])
        /\ \A i \in 1 .. Len(out[c] \o held[c]) : (out[c] \o held[c])[i] <= submitted[c]
=============================================================================
