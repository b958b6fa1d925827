---------------------------- MODULE MCOcrExecution ----------------------------
(* Small instances of OcrExecution for TLC. *)
EXTENDS OcrExecution
=============================================================================
