---------------------------- MODULE MCDnsServer ----------------------------
(* Two concurrent queries over two names, the second the CNAME target of  *)
(* the first; TTLs 0 (expired at once) and 3 (stale after 2 seconds).     *)
EXTENDS DnsServer

CONSTANTS h1, h2, d1, d2

MCHandlers == {h1, h2}
MCDomains == {d1, d2}
MCInitPac == {d1}
MCCname == [d \in MCDomains |-> d2]
MCTTLs == {0, 3}
MCMaxTime == 3
=============================================================================
