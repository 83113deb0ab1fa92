---------------------------- MODULE MCCmTransport ----------------------------
(* CmTransport on small instances: see the .cfg files for the bounds.      *)
EXTENDS CmTransport, TLC

\* The identifiers are interchangeable; used by the runs without liveness.
IdSymmetry == Permutations(CmIds)
=============================================================================
