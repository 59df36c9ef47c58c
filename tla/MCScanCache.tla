---------------------------- MODULE MCScanCache ----------------------------
(* Three step threads sharing the cache of a scan, each each calling it once. *)
EXTENDS ScanCache

CONSTANTS expiry, versions, hostname, handshake, other, ipA, ipB
=============================================================================
