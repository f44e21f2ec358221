---------------------------- MODULE MCModalLoop -----------------------------
(***************************************************************************)
(* ModalLoop with windows of which one has no onClose of its own.          *)
(***************************************************************************)
EXTENDS ModalLoop

CONSTANTS w1, w2, w3
=============================================================================
