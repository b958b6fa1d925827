----------------------------- MODULE MCExports -----------------------------
(* Small instances of Exports for TLC. *)
EXTENDS Exports
=============================================================================
