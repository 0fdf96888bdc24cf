------------------------------ MODULE MCUdpNat ------------------------------
(* Three datagrams over two NAT keys: two of them can share a key while a  *)
(* third races them or Stop.                                               *)
EXTENDS UdpNat

CONSTANTS s1, s2, s3, k1, k2

MCSenders == {s1, s2, s3}
MCKeys == {k1, k2}
=============================================================================
