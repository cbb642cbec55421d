------------------------------ MODULE MCInbound -----------------------------
(* Two messages of one customer in one thread.  A rule files the thread away *)
(* unless an earlier rule stops at the message.                              *)
EXTENDS Inbound

CONSTANTS m1, m2, d1, d2

mcThreadOf == [m \in Messages |-> "t1"]
mcAddressOf == [m \in Messages |-> "eve@out"]
mcDomainOf == [m \in Messages |-> "out"]
mcKind == [m \in Messages |-> "person"]

mcRuleBody ==
    [i \in Rules |-> IF i = 1 THEN [matches |-> {m2}, moves |-> FALSE, stop |-> TRUE]
                     ELSE [matches |-> {m1, m2}, moves |-> TRUE, stop |-> FALSE]]
=============================================================================
