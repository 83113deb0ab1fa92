----------------------------- MODULE MCRdmaReads -----------------------------
(* RdmaReads with a few posts: see the .cfg files for the bounds.          *)
EXTENDS RdmaReads, TLC

\* The posts are interchangeable; used by the runs without liveness.
PostSymmetry == Permutations(Posts)
=============================================================================
