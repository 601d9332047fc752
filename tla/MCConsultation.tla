---------------------------- MODULE MCConsultation ----------------------------
(* An agent's request at node 0, where two coordinators run.               *)
EXTENDS Consultation

CONSTANTS t1, t2, c1, c2

MCNodeOf == [c \in Coordinator |-> 0]

(* What they ask the peer is answered there by a program of its own.       *)
MCElsewhere == {<<1>>, <<2>>}
===============================================================================
