----------------------------- MODULE MCPairing -----------------------------
(***************************************************************************)
(* Small instances of Pairing.                                             *)
(***************************************************************************)
EXTENDS Pairing, TLC

Symmetric == Permutations(DeviceId) \cup Permutations(Enrollment)
             \cup Permutations(Credential) \cup Permutations(Setting)
=============================================================================
