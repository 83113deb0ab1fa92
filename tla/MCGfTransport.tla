---------------------------- MODULE MCGfTransport ----------------------------
(* GfTransport for two transports that share a context and two devices.    *)
EXTENDS GfTransport
CONSTANTS t1, t2, d1, d2
MCTransports == {t1, t2}
MCDevices    == {d1, d2}
=============================================================================
