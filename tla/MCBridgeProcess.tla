---------------------------- MODULE MCBridgeProcess -------------------------
(* Small instances of BridgeProcess for TLC.                               *)
EXTENDS BridgeProcess, TLC

AnyPlace == Place \ (Gone \cup {"off"})

(* A worker that dies once it has written its record.                      *)
AfterRecord == AnyPlace \ Starting

ProcessSymmetry == Permutations(Process) \cup Permutations(Pid)
=============================================================================
