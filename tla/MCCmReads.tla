------------------------------ MODULE MCCmReads ------------------------------
(* CmReads on a small instance: see the .cfg file for the bounds.          *)
EXTENDS CmReads
=============================================================================
