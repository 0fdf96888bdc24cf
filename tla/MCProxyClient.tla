---------------------------- MODULE MCProxyClient ----------------------------
(* Pools of one buffer, so that they fill and drop.  MCDatagrams has two  *)
(* handlers borrow from the payload pool side by side; MCOneDatagram,      *)
(* with one transient error per loop, runs the loops' error paths.         *)
EXTENDS ProxyClient

CONSTANTS d1, d2, t1

MCDatagrams == {d1, d2}
MCOneDatagram == {d1}
MCTcpConns == {t1}
=============================================================================
