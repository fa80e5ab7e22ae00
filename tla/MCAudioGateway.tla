--------------------------- MODULE MCAudioGateway ---------------------------
(***************************************************************************)
(* A small instance of AudioGateway: one account.                          *)
(***************************************************************************)
EXTENDS AudioGateway, TLC

CONSTANTS o1, k1, d1

Owned == (k1 :> o1) @@ (d1 :> o1)

Symmetric == Permutations(Grant) \cup Permutations(Socket)
=============================================================================
