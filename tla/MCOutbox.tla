------------------------------ MODULE MCOutbox ------------------------------
(* A small instance of Outbox for TLC.                                     *)
EXTENDS Outbox, TLC

CONSTANTS m1, m2, p1, p2, w1, w2, w3

(* The second incarnation was restarted with p2's target removed.          *)
MCAuthorized == [w \in Worker |-> IF w = w2 THEN {p1} ELSE {p1, p2}]

MCBackoff == <<1, 2>>

IdSymmetry == Permutations(Id)

(* A UTC expiry reads the same as text and as an instant.                  *)
UtcValidity == {[instant |-> 1, text |-> 1], [instant |-> 3, text |-> 3]}
=============================================================================
