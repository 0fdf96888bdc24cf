----------------------------- MODULE ProxyClient -----------------------------
(***************************************************************************)
(* The proxy client facade (src/unnamed/part_000): the UDP receive loop    *)
(* and its handleUDP goroutines with the two leaky buffer pools they       *)
(* borrow from, the TCP accept loop and its handleTCP goroutines,          *)
(* getBackendProxy, and ProxyClient.Stop.                                  *)
(*                                                                         *)
(* The relays themselves are UdpNat and TcpRelay; here RelayUDPData is     *)
(* only its use of the payload pool and RelayTCPData one step.  A buffer   *)
(* is named <<pool, n>>, n counting the buffers that pool allocated.  The  *)
(* unsynchronised read of backends_ by getBackendProxy while Stop sets it  *)
(* to nil is a data race: a handler may reuse the slice it already loaded  *)
(* or load it again, and indexing a nil slice panics, which ends the       *)
(* process.                                                                *)
(***************************************************************************)
EXTENDS Naturals, Sequences, FiniteSets

CONSTANTS Datagrams,      \* the datagrams the UDP listener receives
          TcpConns,       \* the connections the TCP listener accepts
          PoolSize,       \* capacity of each leaky buffer pool
          MaxReadErrors,  \* transient read or accept errors each loop meets
          None

\* c.udpBuffer_ (payloads) and c.udpOOBBuffer_ (ancillary data), and the
\* buffers they hand out: <<pool, n>> is the n-th one pool allocated.
Pools == {"udp", "oob"}
Buffers == Pools \X Nat

ASSUME ProxyClientAssumption ==
       /\ IsFiniteSet(Datagrams) /\ IsFiniteSet(TcpConns)
       /\ PoolSize \in Nat \ {0}
       /\ MaxReadErrors \in Nat
       /\ None \notin Buffers

LoopPCs == {"get", "read", "exit"}
HandlerPCs == {"unborn", "extract", "len", "index", "relayGet", "relayPut",
               "put", "done"}
TcpPCs == {"unborn", "len", "index", "relay", "done"}
StopPCs == {"idle", "udp", "clear", "done"}

VARIABLES start,     \* StartProxyClient: "udp" (TCP listening), "ok", "failed"
          pool,      \* pool[p]: the buffers pool p holds, in order
          nalloc,    \* nalloc[p]: buffers pool p has allocated so far
          backends,  \* c.backends_: "set" (the backends) or "nil"
          tcpOpen,   \* the TCP listener is open
          udpOpen,   \* the UDP listener is open
          spc,       \* where ProxyClient.Stop is
          lpc,       \* where startListenUDP is
          lbuf,      \* the payload buffer the UDP loop holds, or None
          loob,      \* the ancillary buffer the UDP loop holds, or None
          errs,      \* transient ReadMsgUDP errors met so far
          aerrs,     \* transient Accept errors met so far
          recv,      \* datagrams the UDP loop has received
          hpc,       \* hpc[d]: where handleUDP of datagram d is
          hbuf,      \* hbuf[d]: its payload buffer, or None
          hoob,      \* hoob[d]: its ancillary buffer, or None
          hnew,      \* hnew[d]: the buffer RelayUDPData borrowed, or None
          big,       \* big[d]: header plus payload exceed the buffer size
          apc,       \* where startListenTCP is: "accept" or "exit"
          tpc,       \* tpc[t]: where handleTCP of connection t is
          crashed    \* a goroutine panicked and the process ended

vars == <<start, pool, nalloc, backends, tcpOpen, udpOpen, spc, lpc, lbuf, loob,
          errs, aerrs, recv, hpc, hbuf, hoob, hnew, big, apc, tpc, crashed>>

Held == Buffers \cup {None}

TypeOK ==
  /\ start \in {"udp", "ok", "failed"}
  /\ pool \in [Pools -> Seq(Buffers)]
  /\ nalloc \in [Pools -> Nat]
  /\ backends \in {"set", "nil"}
  /\ tcpOpen \in BOOLEAN /\ udpOpen \in BOOLEAN
  /\ spc \in StopPCs
  /\ lpc \in LoopPCs
  /\ lbuf \in Held /\ loob \in Held
  /\ errs \in 0..MaxReadErrors /\ aerrs \in 0..MaxReadErrors
  /\ recv \subseteq Datagrams
  /\ hpc \in [Datagrams -> HandlerPCs]
  /\ hbuf \in [Datagrams -> Held] /\ hoob \in [Datagrams -> Held]
  /\ hnew \in [Datagrams -> Held]
  /\ big \in [Datagrams -> BOOLEAN]
  /\ apc \in {"accept", "exit"}
  /\ tpc \in [TcpConns -> TcpPCs]
  /\ crashed \in BOOLEAN

\* StartProxyClient has created the backends, opened the TCP listener
\* and started startListenTCP; it is about to open the UDP listener.
Init ==
  /\ start = "udp"
  /\ pool = [p \in Pools |-> <<>>]
  /\ nalloc = [p \in Pools |-> 0]
  /\ backends = "set"
  /\ tcpOpen = TRUE /\ udpOpen = FALSE
  /\ spc = "idle"
  /\ lpc = "get"
  /\ lbuf = None /\ loob = None
  /\ errs = 0 /\ aerrs = 0
  /\ recv = {}
  /\ hpc = [d \in Datagrams |-> "unborn"]
  /\ hbuf = [d \in Datagrams |-> None]
  /\ hoob = [d \in Datagrams |-> None]
  /\ hnew = [d \in Datagrams |-> None]
  /\ big \in [Datagrams -> BOOLEAN]
  /\ apc = "accept"
  /\ tpc = [t \in TcpConns |-> "unborn"]
  /\ crashed = FALSE

-----------------------------------------------------------------------------
(* StartProxyClient, from ListenTransparentUDP on                          *)

\* Mutant of StartUDP: a failed UDP listen leaves the TCP listener open.
StartUDPNoTcpClose ==
  /\ start = "udp"
  /\ \/ start' = "ok" /\ udpOpen' = TRUE
     \/ start' = "failed" /\ UNCHANGED udpOpen
  /\ UNCHANGED <<pool, nalloc, backends, tcpOpen, spc, lpc, lbuf, loob, errs,
                 aerrs, recv, hpc, hbuf, hoob, hnew, big, apc, tpc, crashed>>

\* ListenTransparentUDP: on success the UDP loop is started and the client
\* returned; on failure the TCP listener is closed and no client returned.
StartUDP ==
  /\ start = "udp"
  /\ \/ start' = "ok" /\ udpOpen' = TRUE /\ UNCHANGED tcpOpen
     \/ start' = "failed" /\ tcpOpen' = FALSE /\ UNCHANGED udpOpen
  /\ UNCHANGED <<pool, nalloc, backends, spc, lpc, lbuf, loob, errs,
                 aerrs, recv, hpc, hbuf, hoob, hnew, big, apc, tpc, crashed>>

-----------------------------------------------------------------------------
(* The leaky buffer pool                                                   *)

\* LeakyBuffer.Get: the first pooled buffer, or a new one when the pool is
\* empty.
Taken(p) == IF pool[p] # <<>> THEN Head(pool[p]) ELSE <<p, nalloc[p] + 1>>

\* The pools and allocation counts after a Get from each pool of ps.
PoolsAfterGet(ps) ==
  [p \in Pools |-> IF p \in ps /\ pool[p] # <<>> THEN Tail(pool[p]) ELSE pool[p]]
NallocAfterGet(ps) ==
  [p \in Pools |-> IF p \in ps /\ pool[p] = <<>> THEN nalloc[p] + 1 ELSE nalloc[p]]

\* LeakyBuffer.Put: the buffer goes back unless the pool is full, in which
\* case it is dropped.
Returned(s, b) == IF Len(s) < PoolSize THEN Append(s, b) ELSE s

\* The pools after buffer b is put back into the pool it came from.
PutBack(b) == [pool EXCEPT ![b[1]] = Returned(@, b)]

-----------------------------------------------------------------------------
(* getBackendProxy, shared by handleUDP and handleTCP                      *)

\* length := len(c.backends_); length > 0
BackendsNonEmpty == backends = "set"

\* c.backends_[0]: the slice loaded for the length may be reused, or
\* backends_ loaded again; indexing the nil slice Stop left panics.
IndexPanics == {FALSE} \cup IF backends = "nil" THEN {TRUE} ELSE {}

-----------------------------------------------------------------------------
(* startListenUDP                                                          *)

\* buffer := c.udpBuffer_.Get(); oob := c.udpOOBBuffer_.Get()
LoopGet ==
  /\ start = "ok"
  /\ lpc = "get"
  /\ lbuf' = Taken("udp") /\ loob' = Taken("oob")
  /\ pool' = PoolsAfterGet(Pools) /\ nalloc' = NallocAfterGet(Pools)
  /\ lpc' = "read"
  /\ UNCHANGED <<start, backends, tcpOpen, udpOpen, spc, errs, aerrs, recv, hpc, hbuf, hoob,
                 hnew, big, apc, tpc, crashed>>

\* Mutant of LoopRead: the closed listener's error is taken for a
\* transient one, so the loop never returns.
LoopReadRetryOnClose ==
  /\ lpc = "read"
  /\ \/ /\ udpOpen
        /\ \E d \in Datagrams \ recv :
             /\ recv' = recv \cup {d}
             /\ hpc' = [hpc EXCEPT ![d] = "extract"]
             /\ hbuf' = [hbuf EXCEPT ![d] = lbuf]
             /\ hoob' = [hoob EXCEPT ![d] = loob]
        /\ UNCHANGED pool
     \/ /\ ~udpOpen
        /\ pool' = [p \in Pools |->
                      Returned(pool[p], IF p = "udp" THEN lbuf ELSE loob)]
        /\ UNCHANGED <<recv, hpc, hbuf, hoob>>
  /\ lpc' = "get"
  /\ lbuf' = None /\ loob' = None
  /\ UNCHANGED <<start, nalloc, backends, tcpOpen, udpOpen, spc, errs, aerrs, hnew,
                 big, apc, tpc, crashed>>

\* ReadMsgUDP: a datagram is handed with both buffers to a new handleUDP
\* goroutine; on an error both buffers are put back and the loop goes on,
\* or ends when the listener was closed.
LoopRead ==
  /\ lpc = "read"
  /\ \/ /\ udpOpen
        /\ \E d \in Datagrams \ recv :
             /\ recv' = recv \cup {d}
             /\ hpc' = [hpc EXCEPT ![d] = "extract"]
             /\ hbuf' = [hbuf EXCEPT ![d] = lbuf]
             /\ hoob' = [hoob EXCEPT ![d] = loob]
        /\ lpc' = "get"
        /\ UNCHANGED <<pool, errs, aerrs>>
     \/ /\ udpOpen /\ errs < MaxReadErrors
        /\ pool' = [p \in Pools |->
                      Returned(pool[p], IF p = "udp" THEN lbuf ELSE loob)]
        /\ errs' = errs + 1
        /\ lpc' = "get"
        /\ UNCHANGED <<aerrs, recv, hpc, hbuf, hoob>>
     \/ /\ ~udpOpen
        /\ pool' = [p \in Pools |->
                      Returned(pool[p], IF p = "udp" THEN lbuf ELSE loob)]
        /\ lpc' = "exit"
        /\ UNCHANGED <<errs, aerrs, recv, hpc, hbuf, hoob>>
  /\ lbuf' = None /\ loob' = None
  /\ UNCHANGED <<start, nalloc, backends, tcpOpen, udpOpen, spc, hnew, big, apc, tpc,
                 crashed>>

-----------------------------------------------------------------------------
(* handleUDP, with defer c.udpBuffer_.Put(buffer)                          *)

\* Mutant of HandleExtract: the payload buffer is put back with the oob
\* buffer, before RelayUDPData has copied the payload out of it.
HandleExtractPutsBuffer(d) ==
  /\ hpc[d] = "extract"
  /\ pool' = [PutBack(hoob[d]) EXCEPT !["udp"] = Returned(@, hbuf[d])]
  /\ hoob' = [hoob EXCEPT ![d] = None]
  /\ hpc' = [hpc EXCEPT ![d] = "len"] \/ hpc' = [hpc EXCEPT ![d] = "put"]
  /\ UNCHANGED <<start, nalloc, backends, tcpOpen, udpOpen, spc, lpc, lbuf, loob,
                 errs, aerrs, recv, hbuf, hnew, big, apc, tpc, crashed>>

\* ExtractOrigDstFromUDP; the oob buffer is put back on both branches, and
\* on an error the deferred Put of the payload buffer runs.
HandleExtract(d) ==
  /\ hpc[d] = "extract"
  /\ pool' = PutBack(hoob[d])
  /\ hoob' = [hoob EXCEPT ![d] = None]
  /\ hpc' = [hpc EXCEPT ![d] = "len"] \/ hpc' = [hpc EXCEPT ![d] = "put"]
  /\ UNCHANGED <<start, nalloc, backends, tcpOpen, udpOpen, spc, lpc, lbuf, loob,
                 errs, aerrs, recv, hbuf, hnew, big, apc, tpc, crashed>>

\* getBackendProxy(true): the length check; with no backend the handler
\* logs and returns.
HandleLen(d) ==
  /\ hpc[d] = "len"
  /\ hpc' = [hpc EXCEPT ![d] = IF BackendsNonEmpty THEN "index" ELSE "put"]
  /\ UNCHANGED <<start, pool, nalloc, backends, tcpOpen, udpOpen, spc, lpc, lbuf,
                 loob, errs, aerrs, recv, hbuf, hoob, hnew, big, apc, tpc, crashed>>

\* return c.backends_[0]
HandleIndex(d) ==
  /\ hpc[d] = "index"
  /\ \E panic \in IndexPanics :
       IF panic THEN crashed' = TRUE /\ UNCHANGED hpc
                ELSE hpc' = [hpc EXCEPT ![d] = "relayGet"] /\ UNCHANGED crashed
  /\ UNCHANGED <<start, pool, nalloc, backends, tcpOpen, udpOpen, spc, lpc, lbuf,
                 loob, errs, aerrs, recv, hbuf, hoob, hnew, big, apc, tpc>>

\* RelayUDPData: a datagram too big for the pool's buffers is copied into a
\* one-shot slice (as far as the pools go, an early error return of the
\* NAT part, modelled in UdpNat, is the same); otherwise newBuffer := leakyBuffer.Get(), with a
\* deferred Put, and the header and payload are copied into it.
RelayGet(d) ==
  /\ hpc[d] = "relayGet"
  /\ IF big[d]
       THEN UNCHANGED <<pool, nalloc, hnew>>
       ELSE /\ hnew' = [hnew EXCEPT ![d] = Taken("udp")]
            /\ pool' = PoolsAfterGet({"udp"})
            /\ nalloc' = NallocAfterGet({"udp"})
  /\ hpc' = [hpc EXCEPT ![d] = "relayPut"]
  /\ UNCHANGED <<start, backends, tcpOpen, udpOpen, spc, lpc, lbuf, loob, errs, aerrs, recv,
                 hbuf, hoob, big, apc, tpc, crashed>>

\* WriteTo the remote, then RelayUDPData's deferred Put of newBuffer.
RelayPut(d) ==
  /\ hpc[d] = "relayPut"
  /\ IF hnew[d] = None THEN UNCHANGED pool ELSE pool' = PutBack(hnew[d])
  /\ hnew' = [hnew EXCEPT ![d] = None]
  /\ hpc' = [hpc EXCEPT ![d] = "put"]
  /\ UNCHANGED <<start, nalloc, backends, tcpOpen, udpOpen, spc, lpc, lbuf, loob,
                 errs, aerrs, recv, hbuf, hoob, big, apc, tpc, crashed>>

\* Mutant of HandlePut: handleUDP returns without the deferred Put.
HandlePutMissing(d) ==
  /\ hpc[d] = "put"
  /\ hpc' = [hpc EXCEPT ![d] = "done"]
  /\ UNCHANGED <<start, pool, nalloc, backends, tcpOpen, udpOpen, spc, lpc, lbuf,
                 loob, errs, aerrs, recv, hbuf, hoob, hnew, big, apc, tpc, crashed>>

\* The deferred c.udpBuffer_.Put(buffer).
HandlePut(d) ==
  /\ hpc[d] = "put"
  /\ pool' = PutBack(hbuf[d])
  /\ hbuf' = [hbuf EXCEPT ![d] = None]
  /\ hpc' = [hpc EXCEPT ![d] = "done"]
  /\ UNCHANGED <<start, nalloc, backends, tcpOpen, udpOpen, spc, lpc, lbuf, loob,
                 errs, aerrs, recv, hoob, hnew, big, apc, tpc, crashed>>


-----------------------------------------------------------------------------
(* startListenTCP and handleTCP, with defer conn.Close()                   *)

\* c.tcpListener.Accept(): a connection goes to a new handleTCP goroutine;
\* an error is logged and the loop goes on, unless the listener was closed.
AcceptTCP ==
  /\ apc = "accept"
  /\ \/ /\ tcpOpen
        /\ \E t \in TcpConns : tpc[t] = "unborn" /\ tpc' = [tpc EXCEPT ![t] = "len"]
        /\ UNCHANGED <<apc, aerrs>>
     \/ /\ tcpOpen /\ aerrs < MaxReadErrors
        /\ aerrs' = aerrs + 1
        /\ UNCHANGED <<apc, tpc>>
     \/ /\ ~tcpOpen
        /\ apc' = "exit"
        /\ UNCHANGED <<aerrs, tpc>>
  /\ UNCHANGED <<start, pool, nalloc, backends, tcpOpen, udpOpen, spc, lpc, lbuf, loob,
                 errs, recv, hpc, hbuf, hoob, hnew, big, crashed>>

\* getBackendProxy(false): the length check; with no backend the handler
\* logs, closes the connection and returns.
TcpLen(t) ==
  /\ tpc[t] = "len"
  /\ tpc' = [tpc EXCEPT ![t] = IF BackendsNonEmpty THEN "index" ELSE "done"]
  /\ UNCHANGED <<start, pool, nalloc, backends, tcpOpen, udpOpen, spc, lpc, lbuf, loob,
                 errs, aerrs, recv, hpc, hbuf, hoob, hnew, big, apc, crashed>>

\* return c.backends_[0]
TcpIndex(t) ==
  /\ tpc[t] = "index"
  /\ \E panic \in IndexPanics :
       IF panic THEN crashed' = TRUE /\ UNCHANGED tpc
                ELSE tpc' = [tpc EXCEPT ![t] = "relay"] /\ UNCHANGED crashed
  /\ UNCHANGED <<start, pool, nalloc, backends, tcpOpen, udpOpen, spc, lpc, lbuf, loob,
                 errs, aerrs, recv, hpc, hbuf, hoob, hnew, big, apc>>

\* backendProxy.RelayTCPData(conn) (the module TcpRelay), whatever its
\* error, then the deferred conn.Close().
TcpRelayData(t) ==
  /\ tpc[t] = "relay"
  /\ tpc' = [tpc EXCEPT ![t] = "done"]
  /\ UNCHANGED <<start, pool, nalloc, backends, tcpOpen, udpOpen, spc, lpc, lbuf, loob,
                 errs, aerrs, recv, hpc, hbuf, hoob, hnew, big, apc, crashed>>

-----------------------------------------------------------------------------
(* ProxyClient.Stop: three unsynchronised steps; backend Stop is not called *)

StopCloseTCP ==
  /\ start = "ok"
  /\ spc = "idle"
  /\ tcpOpen' = FALSE
  /\ spc' = "udp"
  /\ UNCHANGED <<start, pool, nalloc, backends, udpOpen, lpc, lbuf, loob, errs, aerrs,
                 recv, hpc, hbuf, hoob, hnew, big, apc, tpc, crashed>>

StopCloseUDP ==
  /\ spc = "udp"
  /\ udpOpen' = FALSE
  /\ spc' = "clear"
  /\ UNCHANGED <<start, pool, nalloc, backends, tcpOpen, lpc, lbuf, loob, errs, aerrs,
                 recv, hpc, hbuf, hoob, hnew, big, apc, tpc, crashed>>

\* c.backends_ = nil
StopClear ==
  /\ spc = "clear"
  /\ backends' = "nil"
  /\ spc' = "done"
  /\ UNCHANGED <<start, pool, nalloc, tcpOpen, udpOpen, lpc, lbuf, loob, errs, aerrs,
                 recv, hpc, hbuf, hoob, hnew, big, apc, tpc, crashed>>

-----------------------------------------------------------------------------

\* Every handler has returned and each loop has exited or waits on a
\* listener with nothing left to deliver; or a panic ended the process.
Terminated ==
  /\ \/ crashed
     \/ /\ \A d \in Datagrams : hpc[d] \in {"unborn", "done"}
        /\ \A t \in TcpConns : tpc[t] \in {"unborn", "done"}
        /\ \/ start = "failed"
           \/ lpc = "exit"
           \/ lpc = "read" /\ recv = Datagrams
        /\ apc = "exit" \/ \A t \in TcpConns : tpc[t] # "unborn"
  /\ UNCHANGED vars

UdpLoop == LoopGet \/ LoopRead

HandleUDP(d) ==
  \/ HandleExtract(d) \/ HandleLen(d) \/ HandleIndex(d)
  \/ RelayGet(d) \/ RelayPut(d) \/ HandlePut(d)

HandleTCP(t) == TcpLen(t) \/ TcpIndex(t) \/ TcpRelayData(t)

Stop == StopCloseTCP \/ StopCloseUDP \/ StopClear

Next ==
  \/ /\ ~crashed
     /\ \/ StartUDP
        \/ UdpLoop
        \/ \E d \in Datagrams : HandleUDP(d)
        \/ AcceptTCP
        \/ \E t \in TcpConns : HandleTCP(t)
        \/ Stop
  \/ Terminated

\* Every loop and handler is a goroutine the Go runtime schedules.  Nobody
\* has to call Stop.
Fairness ==
  /\ WF_vars(StartUDP)
  /\ WF_vars(~crashed /\ UdpLoop)
  /\ WF_vars(~crashed /\ AcceptTCP)
  /\ \A d \in Datagrams : WF_vars(~crashed /\ HandleUDP(d))
  /\ \A t \in TcpConns : WF_vars(~crashed /\ HandleTCP(t))

Spec == Init /\ [][Next]_vars

FairSpec == Spec /\ Fairness

-----------------------------------------------------------------------------
(* Properties                                                              *)

\* The buffers a sequence holds, and that it holds none twice.
Elems(s) == {s[i] : i \in DOMAIN s}
NoDup(s) == \A i, j \in DOMAIN s : i # j => s[i] # s[j]

\* The buffers the UDP loop holds, and those handler d holds.
LoopHolds == {lbuf, loob} \ {None}
HandlerHolds(d) == {hbuf[d], hoob[d], hnew[d]} \ {None}

\* Every pooled buffer has at most one owner: no pool holds a buffer twice,
\* no buffer is back in its pool while the loop or a handler still reads
\* or writes it, and no two goroutines hold the same buffer (spec: buffers
\* are returned on every path, never twice, never used after they are
\* returned).
BufferExclusive ==
  /\ \A p \in Pools :
       /\ NoDup(pool[p])
       /\ Elems(pool[p]) \cap LoopHolds = {}
       /\ \A d \in Datagrams : Elems(pool[p]) \cap HandlerHolds(d) = {}
  /\ \A d \in Datagrams : LoopHolds \cap HandlerHolds(d) = {}
  /\ \A d, e \in Datagrams : d # e => HandlerHolds(d) \cap HandlerHolds(e) = {}
  /\ \A d \in Datagrams : hnew[d] # None => hnew[d] # hbuf[d]

\* No goroutine leaks a pooled buffer: handleUDP gives back, on each of its
\* return paths (ExtractOrigDstFromUDP's error, no backend, a datagram too
\* big for newBuffer, a relayed one), the oob buffer, newBuffer and the
\* payload buffer it was handed, and the receive loop, once it has
\* returned, holds none (spec: buffers are returned on every path).
NoBufferLeak ==
  /\ lpc = "exit" => LoopHolds = {}
  /\ \A d \in Datagrams : hpc[d] = "done" => HandlerHolds(d) = {}

\* Once Stop has run, or StartProxyClient has failed on the UDP listener,
\* every listener loop that was started returns: each is ended only by
\* the error text of its closed listener.
LoopsExitAfterStop ==
  (spc = "done" \/ start = "failed") ~>
    (crashed \/ (apc = "exit" /\ (lpc = "exit" \/ start = "failed")))

\* No handler panics in getBackendProxy: Stop clears backends_ while
\* handleUDP and handleTCP read it without a lock.
NoNilBackendPanic == ~crashed


-----------------------------------------------------------------------------
(* Refinement of BufferOwnership                                           *)

\* The places of BufferOwnership: the loop, each handler, the pool, and
\* buffers the full pool dropped.
LoopOwner == <<"loop">>
HandlerOwner(d) == <<"handler", d>>
PooledMark == <<"pool">>
DroppedMark == <<"dropped">>
OwnerSet == {LoopOwner} \cup {HandlerOwner(d) : d \in Datagrams}

\* The buffers the two pools have allocated so far.
AllocatedBuffers == UNION {{<<p, n>> : n \in 1..nalloc[p]} : p \in Pools}

\* Where each allocated buffer is: held by the loop, held by a handler,
\* queued in its pool, or dropped.
OwnerOf ==
  [b \in AllocatedBuffers |->
     IF b \in LoopHolds THEN LoopOwner
     ELSE IF \E d \in Datagrams : b \in HandlerHolds(d)
       THEN HandlerOwner(CHOOSE d \in Datagrams : b \in HandlerHolds(d))
     ELSE IF b \in Elems(pool[b[1]]) THEN PooledMark
     ELSE DroppedMark]

Ownership == INSTANCE BufferOwnership
               WITH Buffers <- Buffers,
                    Owners <- OwnerSet,
                    Pooled <- PooledMark,
                    Dropped <- DroppedMark,
                    owner <- OwnerOf

\* The receive loop, handleUDP and RelayUDPData use the two leaky pools as
\* a pool should be used: each step of one goroutine takes pooled or new
\* buffers, gives back buffers it holds, or hands them on (the loop to a
\* handler); no goroutine takes a buffer another holds, and a buffer the
\* full pool dropped is never used again.
RefinesBufferOwnership == Ownership!Spec

=============================================================================
