---------------------------- MODULE MCDevicePairing ----------------------------
(* Small instances of DevicePairing for TLC. *)
EXTENDS DevicePairing, TLC

(* Requests, handlers and keys are interchangeable.                          *)
Interchangeable == Permutations(Requests) \cup Permutations(Calls) \cup Permutations(Keys)
=============================================================================
