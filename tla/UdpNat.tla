------------------------------- MODULE UdpNat -------------------------------
(***************************************************************************)
(* The UDP NAT table of one proxy backend (src/proxy_client/               *)
(* proxy_backend.go): RelayUDPData, run by one handleUDP goroutine per     *)
(* received datagram, the inbound reader goroutine each new entry spawns   *)
(* (copyFromRemote and its cleanup), and proxyBackend.Stop.                *)
(*                                                                         *)
(* Every datagram is handled by a sender of the set Senders.  A sender     *)
(* creates at most one NAT entry, so an entry is named by the sender that  *)
(* created it, and its two sockets by <<sender, "src">> (the spoofed-source *)
(* socket from DialTransparentUDP) and <<sender, "dst">> (the cipher-      *)
(* wrapped socket to the remote server).  Each step of a sender or reader  *)
(* is one critical section of udpNatMap's RWMutex or one socket call.      *)
(* Time is abstract: a read deadline may expire at any moment.             *)
(***************************************************************************)
EXTENDS Naturals, FiniteSets

CONSTANTS Senders,   \* the handleUDP goroutines, one per received datagram
          Keys,      \* the NAT keys "src->dst" the datagrams may carry
          None       \* no entry

ASSUME UdpNatAssumption ==
       /\ IsFiniteSet(Senders)
       /\ Keys # {}
       /\ None \notin Senders

Sides == {"src", "dst"}
Socks == Senders \X Sides

\* Program counter of a RelayUDPData call.
SenderPCs == {"get", "listen", "dial", "entry", "send", "done"}

\* State of the reader goroutine of an entry: not spawned, spawned but not
\* yet past udpNatMap_.Add, inside copyFromRemote, past its last read, past
\* udpNatMap_.Del, exited after closing both sockets.
ReaderPCs == {"none", "adding", "reading", "del", "close", "exited"}

VARIABLES key,     \* key[s]: the NAT key of sender s's datagram (an input)
          pc,      \* pc[s]: where RelayUDPData of sender s is
          use,     \* use[s]: the entry sender s writes through, or None
          nat,     \* nat[k]: udpNatMap_.entries[k], or None when absent
          reader,  \* reader[e]: the reader goroutine of entry e
          sock,    \* sock[<<e, side>>]: "unused", "open" or "closed"
          sent,    \* senders whose datagram WriteTo handed to the socket
          stopped  \* proxyBackend.Stop has run

vars == <<key, pc, use, nat, reader, sock, sent, stopped>>

TypeOK ==
  /\ key \in [Senders -> Keys]
  /\ pc \in [Senders -> SenderPCs]
  /\ use \in [Senders -> Senders \cup {None}]
  /\ nat \in [Keys -> Senders \cup {None}]
  /\ reader \in [Senders -> ReaderPCs]
  /\ sock \in [Socks -> {"unused", "open", "closed"}]
  /\ sent \subseteq Senders
  /\ stopped \in BOOLEAN

Init ==
  /\ key \in [Senders -> Keys]
  /\ pc = [s \in Senders |-> "get"]
  /\ use = [s \in Senders |-> None]
  /\ nat = [k \in Keys |-> None]
  /\ reader = [e \in Senders |-> "none"]
  /\ sock = [x \in Socks |-> "unused"]
  /\ sent = {}
  /\ stopped = FALSE

-----------------------------------------------------------------------------
(* RelayUDPData, one step per call that takes the lock or touches a socket *)

\* udpProxy := c.udpNatMap_.Get(udpKey) under the read lock; a hit goes
\* straight to the send, a miss creates an entry.
NatGet(s) ==
  /\ pc[s] = "get"
  /\ use' = [use EXCEPT ![s] = nat[key[s]]]
  /\ pc' = [pc EXCEPT ![s] = IF nat[key[s]] = None THEN "listen" ELSE "send"]
  /\ UNCHANGED <<key, nat, reader, sock, sent, stopped>>

\* dstConn := net.ListenPacket("udp", ""), wrapped by the cipher; on error
\* the call returns.
ListenPacket(s) ==
  /\ pc[s] = "listen"
  /\ \/ /\ sock' = [sock EXCEPT ![<<s, "dst">>] = "open"]
        /\ pc' = [pc EXCEPT ![s] = "dial"]
     \/ /\ pc' = [pc EXCEPT ![s] = "done"]
        /\ UNCHANGED sock
  /\ UNCHANGED <<key, use, nat, reader, sent, stopped>>

\* Mutant of DialTransparentUDP: the error path returns without closing
\* dstConn.
DialTransparentUDPNoClose(s) ==
  /\ pc[s] = "dial"
  /\ \/ /\ sock' = [sock EXCEPT ![<<s, "src">>] = "open"]
        /\ pc' = [pc EXCEPT ![s] = "entry"]
     \/ /\ pc' = [pc EXCEPT ![s] = "done"]
        /\ UNCHANGED sock
  /\ UNCHANGED <<key, use, nat, reader, sent, stopped>>

\* srcConn := network.DialTransparentUDP(dstAddr); on error dstConn is
\* closed and the call returns.
DialTransparentUDP(s) ==
  /\ pc[s] = "dial"
  /\ \/ /\ sock' = [sock EXCEPT ![<<s, "src">>] = "open"]
        /\ pc' = [pc EXCEPT ![s] = "entry"]
     \/ /\ sock' = [sock EXCEPT ![<<s, "dst">>] = "closed"]
        /\ pc' = [pc EXCEPT ![s] = "done"]
  /\ UNCHANGED <<key, use, nat, reader, sent, stopped>>

\* createUDPProxyEntry encodes dstAddr as the header; on error both sockets
\* are closed and the call returns.  On success the reader goroutine is
\* spawned: it is the goroutine, not this call, that adds the entry.
CreateEntry(s) ==
  /\ pc[s] = "entry"
  /\ \/ /\ reader' = [reader EXCEPT ![s] = "adding"]
        /\ use' = [use EXCEPT ![s] = s]
        /\ pc' = [pc EXCEPT ![s] = "send"]
        /\ UNCHANGED sock
     \/ /\ sock' = [x \in Socks |-> IF x[1] = s THEN "closed" ELSE sock[x]]
        /\ pc' = [pc EXCEPT ![s] = "done"]
        /\ UNCHANGED <<reader, use>>
  /\ UNCHANGED <<key, nat, sent, stopped>>

\* SetReadDeadline on the entry's dst socket, then WriteTo the remote
\* server with the header prepended; a write on a closed socket fails.
WriteToRemote(s) ==
  /\ pc[s] = "send"
  /\ sent' = IF sock[<<use[s], "dst">>] = "open" THEN sent \cup {s} ELSE sent
  /\ pc' = [pc EXCEPT ![s] = "done"]
  /\ UNCHANGED <<key, use, nat, reader, sock, stopped>>

-----------------------------------------------------------------------------
(* The reader goroutine spawned for entry e                                *)

\* c.udpNatMap_.Add(udpKey, udpProxy) under the write lock: it overwrites
\* whatever entry the key holds.
NatAdd(e) ==
  /\ reader[e] = "adding"
  /\ nat' = [nat EXCEPT ![key[e]] = e]
  /\ reader' = [reader EXCEPT ![e] = "reading"]
  /\ UNCHANGED <<key, pc, use, sock, sent, stopped>>

\* copyFromRemote returns: its read failed (deadline expired or socket
\* closed), a datagram was no longer than the header, or the write back to
\* the client failed.  Replies it forwards change no modelled state.
CopyFromRemoteExit(e) ==
  /\ reader[e] = "reading"
  /\ reader' = [reader EXCEPT ![e] = "del"]
  /\ UNCHANGED <<key, pc, use, nat, sock, sent, stopped>>

\* Mutant of NatDel: the reader exits without deleting its key.
NatDelMissing(e) ==
  /\ reader[e] = "del"
  /\ reader' = [reader EXCEPT ![e] = "close"]
  /\ UNCHANGED <<key, pc, use, nat, sock, sent, stopped>>

\* c.udpNatMap_.Del(udpKey): deletes the key whatever entry it now holds.
NatDel(e) ==
  /\ reader[e] = "del"
  /\ nat' = [nat EXCEPT ![key[e]] = None]
  /\ reader' = [reader EXCEPT ![e] = "close"]
  /\ UNCHANGED <<key, pc, use, sock, sent, stopped>>

\* udpProxy.src_.Close(); udpProxy.dst_.Close()
CloseEntry(e) ==
  /\ reader[e] = "close"
  /\ sock' = [x \in Socks |-> IF x[1] = e THEN "closed" ELSE sock[x]]
  /\ reader' = [reader EXCEPT ![e] = "exited"]
  /\ UNCHANGED <<key, pc, use, nat, sent, stopped>>

-----------------------------------------------------------------------------
\* proxyBackend.Stop: under the write lock, close both sockets of every
\* entry in the map; the entries stay in the map.
Stop ==
  /\ ~stopped
  /\ LET inMap == {nat[k] : k \in Keys} \ {None}
     IN sock' = [x \in Socks |-> IF x[1] \in inMap THEN "closed" ELSE sock[x]]
  /\ stopped' = TRUE
  /\ UNCHANGED <<key, pc, use, nat, reader, sent>>

\* Every datagram handled and every reader gone: the bounded run is over.
Terminated ==
  /\ \A s \in Senders : pc[s] = "done" /\ reader[s] \in {"none", "exited"}
  /\ UNCHANGED vars

Sender(s) ==
  \/ NatGet(s) \/ ListenPacket(s) \/ DialTransparentUDP(s)
  \/ CreateEntry(s) \/ WriteToRemote(s)

Reader(e) ==
  NatAdd(e) \/ CopyFromRemoteExit(e) \/ NatDel(e) \/ CloseEntry(e)

Next ==
  \/ \E s \in Senders : Sender(s)
  \/ \E e \in Senders : Reader(e)
  \/ Stop
  \/ Terminated

\* Goroutines are scheduled by the Go runtime, and a read deadline expires
\* once udpTimeout has passed after the last of finitely many sends, so
\* every sender and reader step is weakly fair.  Nobody has to call Stop.
Fairness ==
  /\ \A s \in Senders : WF_vars(Sender(s))
  /\ \A e \in Senders : WF_vars(Reader(e))

Spec == Init /\ [][Next]_vars

FairSpec == Spec /\ Fairness

-----------------------------------------------------------------------------
(* Properties                                                              *)

\* An entry reachable through udpNatMap_ (so handed to the next datagram of
\* its key by NatGet) still has its reader inside copyFromRemote and both
\* of its sockets open, as long as Stop has not run: the reader deletes the
\* key before it closes anything, so no sender is given a dead entry.
NatEntryLive ==
  ~stopped =>
    \A k \in Keys :
      nat[k] # None =>
        /\ reader[nat[k]] \in {"reading", "del"}
        /\ \A side \in Sides : sock[<<nat[k], side>>] = "open"

\* At most one reader goroutine runs per NAT key (spec section 5: "the NAT
\* entry guarantees that at most one reader task exists at a time").
OneReaderPerKey ==
  \A e1, e2 \in Senders :
    (/\ reader[e1] \in {"adding", "reading"}
     /\ reader[e2] \in {"adding", "reading"}
     /\ key[e1] = key[e2]) => e1 = e2

\* Every socket RelayUDPData opens is eventually closed, on every error
\* path and by the reader of every entry, even one no longer in the map.
NoSocketLeak ==
  \A x \in Socks : sock[x] = "open" ~> sock[x] = "closed"

\* When Stop returns, both sockets of every entry whose reader goroutine is
\* running are closed (spec section 8: "every existing socket is closed
\* before Stop() returns").
StopClosesEntries ==
  [][Stop => \A e \in Senders :
               reader[e] \in {"adding", "reading"} =>
                 \A side \in Sides : sock'[<<e, side>>] = "closed"]_vars

=============================================================================
