------------------------------ MODULE MCApproval ------------------------------
(* Two messages of one operation: a coordinator may claim the first, a     *)
(* dispatcher the second, an agent the first.                              *)
EXTENDS Approval

CONSTANTS m1, m2, o1, p1, r1, k1, d1, a1

MCOperationOf == [m \in Message |-> o1]
MCPeerOf == [o \in Operation |-> p1]
MCResourceOf == [o \in Operation |-> r1]
MCEligible == [c \in Consumer |-> IF c = d1 THEN {m2} ELSE {m1}]
===============================================================================
