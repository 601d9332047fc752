------------------------------- MODULE MCInbox ------------------------------
(* Small instances of Inbox for TLC.                                       *)
EXTENDS Inbox, TLC

CONSTANTS m1, m2, c1, c2

(* c1 is a dispatcher whose filter selects m1 only.                        *)
MCEligible == [c \in Consumer |-> IF c = c1 /\ m2 \in Id THEN {m1} ELSE Id]

EveryEligible == [c \in Consumer |-> Id]

TokenSymmetry == Permutations(Token)
=============================================================================
