------------------------------ MODULE MCDnsNat ------------------------------
(* Three concurrent DNS exchanges over two client idents: two of them can  *)
(* share an ident, and so a socket, while the third races them or Stop.    *)
EXTENDS DnsNat

CONSTANTS c1, c2, c3, i1, i2

MCCalls == {c1, c2, c3}
MCIdents == {i1, i2}
=============================================================================
