-------------------------- MODULE MCDsSmsTransport --------------------------
(* DsSmsTransport for TLC.                                                  *)
EXTENDS DsSmsTransport, TLC
=============================================================================
