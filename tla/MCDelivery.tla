---------------------------- MODULE MCDelivery -----------------------------
(* A small instance of Delivery for TLC.                                   *)
EXTENDS Delivery, TLC

CONSTANTS a, a2, x, i1, i2, p1, s1, s2

(* a and a2: two contents under one identifier and origin; x: a wire that  *)
(* does not verify.                                                        *)
MCProfile == [e \in Envelope |->
    [id |-> IF e = x THEN i2 ELSE i1, origin |-> p1,
     session |-> IF e = x THEN s2 ELSE s1, genuine |-> e # x]]
=============================================================================
