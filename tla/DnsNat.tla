------------------------------- MODULE DnsNat -------------------------------
(***************************************************************************)
(* The DNS NAT table of one proxy backend (src/proxy_client/               *)
(* proxy_backend.go): concurrent RelayDNS calls, each forwarding one DNS   *)
(* query through the tunnel and reading one answer, the dnsNatMap they     *)
(* share, keyed by the caller's client ident, and the DNS half of          *)
(* proxyBackend.Stop.                                                      *)
(*                                                                         *)
(* A call opens at most one socket, so a socket is named by the call that  *)
(* opened it.  The remote resolver answers each query on the socket the    *)
(* query left from; an answer may be lost (UDP).  Each step is one         *)
(* critical section of dnsNatMap's RWMutex or one socket call; time is     *)
(* abstract, so a read deadline may expire at any moment.                  *)
(***************************************************************************)
EXTENDS Naturals, FiniteSets

CONSTANTS Calls,   \* the concurrent RelayDNS calls
          Idents,  \* the client idents (srcAddr) the calls may carry
          None     \* no socket

ASSUME DnsNatAssumption ==
       /\ IsFiniteSet(Calls)
       /\ Idents # {}
       /\ None \notin Calls

\* Program counter of a RelayDNS call: before dnsNatMap_.Get, before
\* net.ListenPacket, before WriteTo, before ReadFrom, in the deferred
\* dnsNatMap_.Del, in the deferred dstConn.Close, returned.
CallPCs == {"get", "listen", "write", "read", "del", "close", "done"}

VARIABLES ident,   \* ident[c]: the srcAddr of call c (an input)
          pc,      \* pc[c]: where call c is
          conn,    \* conn[c]: the socket call c uses (dstConn), or None
          nat,     \* nat[i]: dnsNatMap_.entries[i], or None when absent
          sock,    \* sock[s]: "unused", "open" or "closed"
          inq,     \* inq[s]: the calls whose answers wait on socket s
          got,     \* got[c]: the call whose answer call c read, or None
          stopped  \* proxyBackend.Stop has run

vars == <<ident, pc, conn, nat, sock, inq, got, stopped>>

TypeOK ==
  /\ ident \in [Calls -> Idents]
  /\ pc \in [Calls -> CallPCs]
  /\ conn \in [Calls -> Calls \cup {None}]
  /\ nat \in [Idents -> Calls \cup {None}]
  /\ sock \in [Calls -> {"unused", "open", "closed"}]
  /\ inq \in [Calls -> SUBSET Calls]
  /\ got \in [Calls -> Calls \cup {None}]
  /\ stopped \in BOOLEAN

Init ==
  /\ ident \in [Calls -> Idents]
  /\ pc = [c \in Calls |-> "get"]
  /\ conn = [c \in Calls |-> None]
  /\ nat = [i \in Idents |-> None]
  /\ sock = [s \in Calls |-> "unused"]
  /\ inq = [s \in Calls |-> {}]
  /\ got = [c \in Calls |-> None]
  /\ stopped = FALSE

-----------------------------------------------------------------------------
(* dnsNatMap, each method under the map's lock                             *)

\* dnsNatMap.Get: the entry of key i, nil when absent.
NatLookup(i) == nat[i]

\* dnsNatMap.Add: overwrites whatever entry key i holds.
NatInsert(i, s) == [nat EXCEPT ![i] = s]

\* dnsNatMap.Del: deletes key i whatever entry it holds.
NatRemove(i) == [nat EXCEPT ![i] = None]

-----------------------------------------------------------------------------
(* RelayDNS                                                                *)

\* The resolver address is encoded as the header (an error returns at
\* once), the header and query are copied into a pooled buffer, and
\* dstConn := c.dnsNatMap_.Get(srcAddr).
RelayDNSGet(c) ==
  /\ pc[c] = "get"
  /\ \/ /\ conn' = [conn EXCEPT ![c] = NatLookup(ident[c])]
        /\ pc' = [pc EXCEPT ![c] =
                    IF NatLookup(ident[c]) = None THEN "listen" ELSE "write"]
     \/ /\ pc' = [pc EXCEPT ![c] = "done"]
        /\ UNCHANGED conn
  /\ UNCHANGED <<ident, nat, sock, inq, got, stopped>>

\* On a miss: net.ListenPacket (an error returns before the deferred
\* cleanup is registered), the cipher wrapper, then dnsNatMap_.Add.  The
\* new socket is private to the call until the Add, so the two are one step.
ListenPacket(c) ==
  /\ pc[c] = "listen"
  /\ \/ /\ sock' = [sock EXCEPT ![c] = "open"]
        /\ nat' = NatInsert(ident[c], c)
        /\ conn' = [conn EXCEPT ![c] = c]
        /\ pc' = [pc EXCEPT ![c] = "write"]
     \/ /\ pc' = [pc EXCEPT ![c] = "done"]
        /\ UNCHANGED <<sock, nat, conn>>
  /\ UNCHANGED <<ident, inq, got, stopped>>

\* dstConn.WriteTo(header || query, remote): fails on a closed socket.  The
\* resolver answers on the socket the query left from, or the query or
\* its answer is lost.
WriteTo(c) ==
  /\ pc[c] = "write"
  /\ \/ /\ sock[conn[c]] = "open"
        /\ \/ inq' = [inq EXCEPT ![conn[c]] = @ \cup {c}]
           \/ UNCHANGED inq
        /\ pc' = [pc EXCEPT ![c] = "read"]
     \/ /\ sock[conn[c]] = "closed"
        /\ pc' = [pc EXCEPT ![c] = "del"]
        /\ UNCHANGED inq
  /\ UNCHANGED <<ident, conn, nat, sock, got, stopped>>

\* Mutant of ReadFrom: no read deadline, so a lost answer blocks the read.
ReadFromNoDeadline(c) ==
  /\ pc[c] = "read"
  /\ \/ /\ sock[conn[c]] = "open"
        /\ \E a \in inq[conn[c]] :
             /\ inq' = [inq EXCEPT ![conn[c]] = @ \ {a}]
             /\ got' = [got EXCEPT ![c] = a]
     \/ /\ sock[conn[c]] = "closed"
        /\ UNCHANGED <<inq, got>>
  /\ pc' = [pc EXCEPT ![c] = "del"]
  /\ UNCHANGED <<ident, conn, nat, sock, stopped>>

\* SetReadDeadline(now + dnsTimeout), then dstConn.ReadFrom: it returns
\* the first datagram waiting on the socket, whoever's query it answers,
\* or fails once the deadline passes or the socket is closed.  A datagram
\* no longer than the header is consumed and rejected (n <= addrLen).
ReadFrom(c) ==
  /\ pc[c] = "read"
  /\ \/ /\ sock[conn[c]] = "open"
        /\ \E a \in inq[conn[c]] :
             /\ inq' = [inq EXCEPT ![conn[c]] = @ \ {a}]
             /\ \/ got' = [got EXCEPT ![c] = a]
                \/ UNCHANGED got
     \/ UNCHANGED <<inq, got>>
  /\ pc' = [pc EXCEPT ![c] = "del"]
  /\ UNCHANGED <<ident, conn, nat, sock, stopped>>

\* Mutant of the deferred cleanup: the socket is closed before the key is
\* deleted.
DeferredDelAfterClose(c) ==
  /\ pc[c] = "del"
  /\ sock' = [sock EXCEPT ![conn[c]] = "closed"]
  /\ pc' = [pc EXCEPT ![c] = "close"]
  /\ UNCHANGED <<ident, conn, nat, inq, got, stopped>>

\* The deferred c.dnsNatMap_.Del(srcAddr).
DeferredDel(c) ==
  /\ pc[c] = "del"
  /\ nat' = NatRemove(ident[c])
  /\ pc' = [pc EXCEPT ![c] = "close"]
  /\ UNCHANGED <<ident, conn, sock, inq, got, stopped>>

\* Mutant of DeferredClose: the call returns without closing dstConn.
DeferredCloseMissing(c) ==
  /\ pc[c] = "close"
  /\ pc' = [pc EXCEPT ![c] = "done"]
  /\ UNCHANGED <<ident, conn, nat, sock, inq, got, stopped>>

\* The deferred dstConn.Close().
DeferredClose(c) ==
  /\ pc[c] = "close"
  /\ sock' = [sock EXCEPT ![conn[c]] = "closed"]
  /\ pc' = [pc EXCEPT ![c] = "done"]
  /\ UNCHANGED <<ident, conn, nat, inq, got, stopped>>

-----------------------------------------------------------------------------
\* The DNS half of proxyBackend.Stop: under dnsNatMap's write lock, close
\* every socket in the map; the entries stay in the map.
Stop ==
  /\ ~stopped
  /\ LET inMap == {nat[i] : i \in Idents} \ {None}
     IN sock' = [s \in Calls |-> IF s \in inMap THEN "closed" ELSE sock[s]]
  /\ stopped' = TRUE
  /\ UNCHANGED <<ident, pc, conn, nat, inq, got>>

\* Every call has returned: the bounded run is over.
Terminated ==
  /\ \A c \in Calls : pc[c] = "done"
  /\ UNCHANGED vars

Call(c) ==
  \/ RelayDNSGet(c) \/ ListenPacket(c) \/ WriteTo(c) \/ ReadFrom(c)
  \/ DeferredDel(c) \/ DeferredClose(c)

Next ==
  \/ \E c \in Calls : Call(c)
  \/ Stop
  \/ Terminated

\* Every call runs on a goroutine of the Go runtime and its read has a
\* deadline, so every call step is weakly fair.  Nobody has to call Stop.
Fairness == \A c \in Calls : WF_vars(Call(c))

Spec == Init /\ [][Next]_vars

FairSpec == Spec /\ Fairness

-----------------------------------------------------------------------------
(* Properties                                                              *)

\* Until Stop, a socket that dnsNatMap hands to the next call of its ident
\* is open, and the call that opened it has not yet passed its deferred
\* Del: the cleanup deletes the key before it closes the socket, so no call
\* is given a socket already closed.
DnsNatEntryLive ==
  ~stopped =>
    \A i \in Idents :
      NatLookup(i) # None =>
        /\ sock[NatLookup(i)] = "open"
        /\ pc[NatLookup(i)] \in {"write", "read", "del"}

\* Every socket a RelayDNS call opens is eventually closed, by the
\* deferred cleanup of some call or by Stop.
NoDnsSocketLeak ==
  \A s \in Calls : sock[s] = "open" ~> sock[s] = "closed"

\* Every RelayDNS call returns: a lost answer ends in the read deadline.
ExchangeReturns ==
  \A c \in Calls : <>(pc[c] = "done")

\* The answer a call returns is the answer to its own query (spec: "the
\* tunnel-side datagram socket used for that client's outstanding query;
\* lifetime is a single exchange").
AnswerToOwnQuery ==
  \A c \in Calls : got[c] # None => got[c] = c

=============================================================================
