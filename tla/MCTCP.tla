------------------------------- MODULE MCTCP -------------------------------
(* Instances of TCPConnection: a client and a server. *)
EXTENDS TCPConnection

CONSTANTS client, server

App(open, sends, atWill, aborts) ==
  [open |-> open, sends |-> sends, atWill |-> atWill, aborts |-> aborts,
   early |-> FALSE]

Between(x, y) == [e \in {client, server} |-> IF e = client THEN x ELSE y]

\* The server closes after the client, and the client sends or may abort.
OneSided == {Between(App("ACTIVE", 2, TRUE, FALSE), App("PASSIVE", 0, FALSE, FALSE)),
             Between(App("ACTIVE", 0, TRUE, TRUE), App("PASSIVE", 0, FALSE, FALSE))}

\* Both send; both close when they like; both open actively.
TwoSided == {Between(App("ACTIVE", 1, TRUE, FALSE), App("PASSIVE", 1, FALSE, FALSE)),
             Between(App("ACTIVE", 1, TRUE, FALSE), App("PASSIVE", 0, TRUE, FALSE)),
             Between(App("ACTIVE", 0, TRUE, FALSE), App("ACTIVE", 0, TRUE, FALSE))}

PassingPlans == OneSided \cup TwoSided

PassingFaults == [p \in PassingPlans |-> IF p \in OneSided THEN 2 ELSE 1]

\* The client sends two segments, the server none; both close when they like.
FreePlans ==
  {Between(App("ACTIVE", 2, TRUE, FALSE), App("PASSIVE", 0, TRUE, FALSE))}

NoFaults == [p \in FreePlans |-> 0]
=============================================================================
