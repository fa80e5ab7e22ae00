--------------------------- MODULE MCDiagnostics ---------------------------
(***************************************************************************)
(* A small instance of Diagnostics.                                        *)
(***************************************************************************)
EXTENDS Diagnostics
=============================================================================
