---------------------------- MODULE MCTronAddress ---------------------------
(***************************************************************************)
(* Addresses of one byte under a checksum of one byte that depends on all  *)
(* of the payload.                                                         *)
(***************************************************************************)
EXTENDS TronAddress

MCBytes == 0..255
MCChecksum(payload) == <<(7 * payload[1] + 11 * payload[2] + 13) % 256>>
=============================================================================
