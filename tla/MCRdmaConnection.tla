--------------------------- MODULE MCRdmaConnection ---------------------------
(* RdmaConnection on small budgets: see the .cfg files for the bounds.     *)
EXTENDS RdmaConnection
=============================================================================
