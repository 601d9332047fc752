---------------------------- MODULE MCOnboarding ----------------------------
(***************************************************************************)
(* Instances of RuntimeSettings for TLC.                                   *)
(***************************************************************************)
EXTENDS RuntimeSettings, TLC

Alike == Permutations(OwnKey) \cup Permutations(PeerKey)
             \cup Permutations(Transport) \cup Permutations(Dispatcher)
=============================================================================
