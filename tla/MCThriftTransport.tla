-------------------------- MODULE MCThriftTransport --------------------------
(* ThriftTransport with short buffers: see the .cfg files for the bounds.  *)
EXTENDS ThriftTransport
=============================================================================
