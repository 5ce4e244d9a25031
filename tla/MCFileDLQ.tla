----------------------------- MODULE MCFileDLQ -----------------------------
(* FileDLQ on a few entries.                                               *)
EXTENDS FileDLQ, TLC
=============================================================================
