# Verification project for redfrog-core's proxy client and DNS server

TLA+ models of the transparent proxy's data plane (`src/proxy_client/proxy_backend.go`,
`src/unnamed/part_000`), TLC configurations that check them on small
instances, and TLAPS proofs of their invariants for every instance.

## 1. Inventory

### Components and their state

| Component | Source | State | Operations |
|---|---|---|---|
| UDP NAT relay | `proxy_backend.go` 68-135, 180-193, 314-386 | `udpNatMap.entries` (key `src->dst` to entry: spoofed-source socket, tunnel socket, header, timeout) under an RWMutex | `RelayUDPData` (Get, open 2 sockets, spawn reader, send), reader goroutine (`Add`, `copyFromRemote`, `Del`, close), `proxyBackend.Stop` |
| TCP relay | `proxy_backend.go` 210-312, `part_000` 88-126 | per connection: client conn, remote conn (dialled TCP or KCP stream), their deadlines, the result channel | `handleTCP`, `RelayTCPData`, `createTCPConn`, `relayKCPData`, the two `io.Copy` halves |
| DNS NAT relay | `proxy_backend.go` 33-60, 388-446 | `dnsNatMap.entries` (client ident to socket) under an RWMutex | `RelayDNS` (Get or create socket, Add, write, read with deadline, deferred Del+Close), `Stop` |
| DNS server | `part_000` 182-580 | resolver lists (RWMutex), `dnsCaches` (map name to entry {*dns.Msg, halfTtl, ttl}, Mutex, nil when off), `sendNum` (atomic) | `ServeDNS` per query, `AddDnsCache`, `GetDnsCache`, `checkCache`, `Reload`, `getResolver`, `Stop` |
| Proxy client facade | `part_000` 14-181 | `backends_`, the two listeners, two leaky buffer pools | `StartProxyClient`, `getBackendProxy`, `startListenTCP`, `startListenUDP`, `handleUDP`, `Stop` |
| Backend construction | `proxy_backend.go` 138-178 | the backend's configuration | `CreateProxyBackend` |
| External (not in this snapshot) | – | KCP session pool, address codec, leaky buffer, cipher, policy list, routing | `GetKcpConn`, `ConvertShadowSocksAddr`, `Get/Put`, `PacketConn`, `CheckDomain/AddDomain`, `AddIp` |

### Interactions

* The UDP receive loop hands each datagram, with two pooled buffers, to a
  `handleUDP` goroutine, which calls `RelayUDPData` on the first backend.
  `RelayUDPData` shares the NAT map with the reader goroutines it spawns and
  with `Stop`.
* The TCP accept loop hands each connection to a `handleTCP` goroutine;
  `RelayTCPData` spawns one copy goroutine and meets it again on a channel.
  The two halves interact only through the connections' deadlines.
* `ServeDNS` runs once per query, concurrently. Handlers share the cache (a
  mutex around map operations, but the cached `*dns.Msg` objects themselves
  are shared and written), the policy list and the routing manager. A
  proxied query goes to `ProxyClient.ExchangeDNS`, which reaches `RelayDNS`.
  `Reload` swaps the resolver lists and turns the cache on or off.

### What is hard

* Interleavings of handler goroutines over one NAT map: look-up and insertion
  are separate critical sections, and the insertion is done by a different
  goroutine (the reader), later.
* Cleanup by key: a reader deletes "its" key, whatever entry the key now holds.
* `Stop` racing entries that are being created.
* Timeouts: UDP readers end on a read deadline; the TCP relay sets only write
  deadlines and relies on one half to wake the other.
* Shared mutable messages in the DNS cache, written outside the lock.
* Error paths that must close what was already opened.

### What makes each component correct

* UDP NAT: at most one reader per flow; the map never hands out a dead entry;
  every socket is closed exactly once, eventually; `Stop` closes everything.
* TCP relay: no connection is closed under a running half; once one half ends
  the relay returns; an idle relay returns after `tcpTimeout`.
* DNS server: one reply per query, with the query's id, answering the name
  asked; addresses reach routing before the client; the cache serves only
  unexpired entries and refreshes stale ones.
* Facade: no pooled buffer has two owners; `Stop` cannot make a handler
  panic; the listener loops end after `Stop`.

The hazards, each at its line, are listed in `PROJECT.json`.

## 2. Plan and status

1. `UdpNat` (done) - the UDP NAT table: senders, readers, `Stop`.
   `UdpNatProofs` (done) proves its type invariant and `NatEntryLive`.
2. `TcpRelay` (done) - one TCP connection with KCP fallback and the two
   copy halves; peers and time as environment. `TcpRelayLifecycle` (done)
   is its abstract specification; `TcpRelayProofs` (done) proves
   `ClosedAfterBothHalves` and the safety part of the refinement.
3. `DnsServer` (done, partly) - concurrent `ServeDNS` with the cache, shared
   messages, routing/policy updates and Reload's cache toggle;
   `DnsServerProofs` (done) proves its two safety properties.
4. `DnsNat` (done) - `RelayDNS` with the DNS NAT map, concurrent exchanges
   sharing a client ident, `Stop`'s DNS half; `DnsNatProofs` (done) proves
   `DnsNatEntryLive`.
5. `ProxyClient` (done) - the end of `StartProxyClient`, the two listener
   loops, `handleUDP`'s buffer ownership over two bounded leaky pools,
   `getBackendProxy` racing `Stop`; `ProxyClientProofs` (done) proves
   `BufferExclusive` and `NoBufferLeak`. `BufferOwnership` (done) is the abstract contract of
   the pools; `ProxyClientRefinement` (done) proves that `ProxyClient`
   implements it.
6. Next: an abstract flow table refined by `UdpNat` (it holds only once the
   Get/Add race is excluded); a composition of `ProxyClient` with `UdpNat`
   through `RelayUDPData`.

## 3. Modules and how they map to the code

### UdpNat

State: `nat` is `udpNatMap_.entries` (a function from key to entry or
`None`); an entry is named by the sender (`handleUDP` goroutine) that created
it; `sock` holds the state of its two sockets (`<<e, "src">>` spoofed-source,
`<<e, "dst">>` tunnel side); `reader` is where its reader goroutine is;
`pc`/`use` are where each `RelayUDPData` call is and which entry it sends
through. Actions, one per lock acquisition or socket call: `NatGet`,
`ListenPacket`, `DialTransparentUDP`, `CreateEntry` (spawns the reader),
`WriteToRemote`; the reader's `NatAdd`, `CopyFromRemoteExit`, `NatDel`,
`CloseEntry`; `Stop`. Each call that can fail has its error branch as a
disjunct, with the closes the code does on that path. Time is abstract: a read
deadline may expire at any moment (`CopyFromRemoteExit` is always enabled).

### TcpRelay

State: `mpc` (the `handleTCP` goroutine), `gpc` (the copy goroutine),
connection states, read and write deadlines (`none`, `timeout`, `now`),
`expired` (tcpTimeout has passed), and per direction whether bytes wait
(`pending`) and whether the sender closed (`eof`). The client, the remote and
the clock are environment actions (`PeerSend`, `PeerClose`, `Tick`). The KCP
path and the dialled path differ only in how `dst` is obtained, so they share
the copy actions. `CopyStep` is `io.Copy`: the read fails at a "now" deadline
or ends at EOF; otherwise waiting bytes are written, and a write fails past
its write deadline.

### DnsServer

State: `hpc` per query handler, `msgs` (the `*dns.Msg` objects an upstream
exchange created, with their mutable `id`), `cache` (name to
{msg, half, ttl}), `enabled` (`dnsCaches != nil`), `pac`, `routes`,
`replies` (what each client received: id and which message), `now`.
Actions follow `ServeDNS`: `CheckDomain`, `LocalExchange`, `CheckCache`
(`GetDnsCache` under the mutex), `SetCachedId` (the in-place `resDns.Id =
r.Id`), `WriteCached`, `ExchangeDNS`, `UpdateFromAnswer` (AddIp, AddDomain,
AddDnsCache), `WriteBack`; plus `ReloadCache` and `Tick`. An answer is
abstracted to its question, whether it has an A record and a CNAME, and its
largest INET TTL (the value the code caches with).

### DnsNat

State: `nat` is `dnsNatMap_.entries` (client ident to socket or `None`); a
socket is named by the `RelayDNS` call that opened it; `sock` is each
socket's state, `inq` the answers waiting on it (the resolver answers on the
socket a query left from; an answer may be lost), `got` whose answer each
call read, `stopped` whether `Stop` ran. Actions: `RelayDNSGet` (header
encoding, which may fail, then the map Get), `ListenPacket` (socket, cipher
wrapper and `Add` in one step, since the socket is private until the `Add`),
`WriteTo`, `ReadFrom` (a deadline may pass at any moment; a datagram no
longer than the header is consumed and rejected), the deferred `DeferredDel`
and `DeferredClose` as two steps in the code's order, and `Stop`'s DNS half.

### TcpRelayLifecycle

The abstract relay: a stage (`setup`, `relay`, `teardown`, `done`), the
number of copy halves still running, and the two connections (`unused`,
`open`, `closed`). `TcpRelay` maps onto it with `StageOf` (its main
goroutine's pc), `HalvesOf` (how many of the two goroutines are in
`io.Copy`) and its connection states unchanged.

### ProxyClient

State: `start` (the end of `StartProxyClient`: the TCP listener is open and
its loop running; the UDP listen is next and may fail), the two pools as
sequences of buffers (a buffer is `<<pool, n>>`; a `Get` on an empty pool
allocates the next one, a `Put` on a full pool drops it, as the spec's
section 4.2 says), `backends` (`set` or `nil`), the listeners, `spc` (where
`Stop` is), the UDP loop's `lpc` and the two buffers it holds, each
datagram's handler (`hpc`, its payload, oob and `RelayUDPData` buffers, and
`big`: whether header plus payload exceed the buffer size), the accept loop
`apc`, each TCP handler `tpc`, and `crashed`. Actions: `StartUDP`
(ListenTransparentUDP; failure closes the TCP listener), `LoopGet`,
`LoopRead` (a datagram, a transient error, or the closed listener),
`HandleExtract`, `HandleLen`, `HandleIndex`, `RelayGet`, `RelayPut`,
`HandlePut`, `AcceptTCP`, `TcpLen`, `TcpIndex`, `TcpRelayData`, and `Stop`'s
three statements. `getBackendProxy` reads `backends_` twice with no lock
while `Stop` writes it: a handler may reuse the slice it loaded or load it
again (or load a torn header), so indexing after `Stop` may panic
(`IndexPanics`); a panic ends the process. The relays themselves are left to
`UdpNat` and `TcpRelay`.

### BufferOwnership and the refinement

`BufferOwnership` is what a leaky pool promises goroutines that use it
correctly. Its only variable `owner` maps each allocated buffer to an
owner, to `Pooled`, or to `Dropped`. A step of owner `o` may do three
things with a buffer. It may take a pooled or new buffer (`Takes`). It may
give back a buffer it owns, which the pool keeps or drops (`Returns`). It
may hand a buffer it owns to another owner (`Hands`). No other buffer may
change place. `ProxyClient` implements it under the mapping `OwnerOf`
(`RefinesBufferOwnership`, proved by `ProxyClientRefinement` for every
instance; it is not a run property, since on a small instance it says no
more than `BufferExclusive` does). The owners are the
receive loop and one handler per datagram. A buffer is the loop's when
`lbuf` or `loob` holds it, and handler `d`'s when one of `d`'s three
buffer slots holds it. Otherwise it is pooled when its pool queues it, and
dropped when it is none of these.

## 4. Runs

| Run | Checks | Instance | Result |
|---|---|---|---|
| `udpnat` | `NatEntryLive`, `NoSocketLeak` under `FairSpec` | 3 senders, 2 keys | pass (286k states) |
| `udpnat_one_reader` | `OneReaderPerKey` | same | violation: two readers for one key |
| `udpnat_stop` | `StopClosesEntries` | same | violation: Stop before the reader's Add |
| `tcprelay` | `ClosedAfterBothHalves`, `RelayReturns`, `RefinesLifecycle` (`TcpRelayLifecycle!FairSpec`) under `FairSpec` | KCP enabled (both paths) | pass |
| `tcprelay_idle` | `IdleRelayReturns` under `FairSpec` | same | violation: silent peers, relay never returns |
| `dns` | `OneReplyPerQuery`, `RepliedAnswerRouted` | 2 queries, 2 names (second the CNAME target), TTL 0 or 3, 4 seconds | pass |
| `dns_reply_id` | `ReplyIdMatches` | same | violation: reply with another query's id |
| `dnsnat` | `DnsNatEntryLive`, `NoDnsSocketLeak`, `ExchangeReturns` under `FairSpec` | 3 calls, 2 client idents | pass (559k states) |
| `dnsnat_answer` | `AnswerToOwnQuery` | same | violation: a call reads the answer to another call's query |
| `proxyclient` | `BufferExclusive`, `NoBufferLeak`, `LoopsExitAfterStop` under `FairSpec` | 2 datagrams, 1 TCP connection, pools of 1 | pass (411k states) |
| `proxyclient_errors` | same | 1 datagram, 1 transient error per loop | pass (22k states) |
| `proxyclient_panic` | `NoNilBackendPanic` | 2 datagrams, 1 connection | violation: a handler indexes the nil `backends_` |

Bounds. Three senders over two keys is the smallest instance where two
datagrams share a flow while a third uses another flow or races `Stop`. For
the DNS server, TTL 3 makes an entry fresh at second 0-1, stale at 2 and
expired at 3, TTL 0 expires at once, and the second name being the CNAME
target of the first lets the policy list grow and a cache key differ from an
A record's owner. Two handlers are enough for every race between a cache
writer and a cache reader. The TCP relay has a single connection because
connections share no state in the code.

Three `RelayDNS` calls over two idents give two calls sharing a socket
while a third has its own or races `Stop`. For `ProxyClient`, pools of one
buffer make both a reuse and a drop happen with two handlers; two datagrams
let two `RelayUDPData` calls borrow from the payload pool the loop also
uses; one TCP connection is enough for the accept loop, since TCP handlers
touch no pool. A transient error per loop runs the error paths; one is as
good as many, since the loop returns to the same state.

Fairness. Goroutines are scheduled by the Go runtime, so every sender,
reader, handler and copy-goroutine step is weakly fair. A UDP reader's read
deadline expires once `udpTimeout` has passed after the last of finitely many
sends, which justifies fairness of `CopyFromRemoteExit`. Time passes, so
`Tick` is weakly fair in `TcpRelay`. A `RelayDNS` read has a deadline, so
`ReadFrom` stays enabled without an answer. Peers, the arrival of
datagrams and connections, `Stop` and `Reload` have no fairness: nobody has
to call them. `ProxyClient`'s loops are weakly fair, so a loop blocked on
an open listener is a state the system may stay in (the check of deadlock
treats it as the end of the run).

Findings (details in `PROJECT.json`):

* `RelayUDPData` creates two entries and readers for one flow when two
  datagrams race (or when the second arrives before the reader's `Add`); the
  older reader's `Del` then removes the newer entry.
* `proxyBackend.Stop` can return with open sockets: those of an entry not yet
  added, or orphaned.
* `RelayTCPData` never times out an idle connection; only write deadlines
  are set, and they are absolute.
* Concurrent `RelayDNS` calls with the same client ident share one socket:
  one call can return the other's answer, and the first to finish closes
  the socket the other is reading (spec: the socket is used for that
  client's outstanding query, for a single exchange).
* `ProxyClient.Stop` sets `backends_` to nil with no lock while handlers
  run `getBackendProxy`: a handler that passed the length check then panics
  on the index, and the process dies.
* `checkCache` rewrites the Id of a shared cached message outside the lock,
  so a client can get another query's id.

A spec detail noted and not run: the spec calls an entry stale when
`halfTtl <= now`, the code when `now > halfTtl` (`After`); with nanosecond
clocks the two differ only at one instant.

## 5. Proofs

`UdpNatProofs` proves, for every finite set of senders and every set of keys
(assumption `UdpNatAssumption`):

* `TypeCorrect`: `Spec => []TypeOK`.
* `NatEntryLiveInvariant`: `Spec => []NatEntryLive`.

`NatEntryLive` is not inductive alone: a `NatAdd` step puts an entry in the
map, and nothing in `NatEntryLive` says that entry's sockets are open. The
strengthening `IInv` adds that a sender that has not yet spawned its reader
has reader state "none", that at "dial" its tunnel socket and at "entry" both
sockets are open, that an entry in the map belongs to its own key and has its
reader in `copyFromRemote`, and that before `Stop` a running reader's sockets
are open. `Stop` keeps `IInv` because it closes only entries in the map, and
those have readers past `NatAdd`, never a sender still creating its entry.
`IInv` was checked with TLC on the `udpnat` instance before it was proved.

`TcpRelayProofs` proves, for both values of `KcpEnabled`:

* `ClosedAfterBothHalvesInvariant`: no connection is closed while a copy
  half can still use it. The strengthening ties the two goroutines' pcs
  together (the copy goroutine exists only while the main one is in the
  relay or the teardown) and each pc to the connection states it implies.
* `RefinesLifecycleSafety`: `Spec => Lifecycle!Spec`. The step lemma
  `LifecycleStep` shows, from the same invariant, that every step is an
  abstract step or a stutter under `StageOf`, `HalvesOf` and `conn`: the
  two copy halves map to `HalfEnds`, the wait to `Teardown`, each close to
  `Close`. The liveness part (`Lifecycle!FairSpec`) is only model-checked.

`DnsNatProofs` proves, for every finite set of calls and idents
(assumption `DnsNatAssumption`):

* `DnsNatEntryLiveInvariant`: before `Stop`, the socket the map hands out is
  open and its opener is before its deferred `Del`. The strengthening says
  that the socket a call holds was opened by a call of the same ident, that
  an entry's opener is between `WriteTo` and `Del`, and that a call about to
  close its socket no longer finds it in the map: the `Del` comes first.

`ProxyClientProofs` proves, for every finite set of datagrams and
connections, every pool size and every error bound (assumption
`ProxyClientAssumption`):

* `BufferExclusiveInvariant`: `Spec => []BufferExclusive`. No pool queues a
  buffer twice, and no buffer is both queued and held, or held by two
  goroutines (the receive loop and the handlers). Three facts make it
  inductive. `Allocated`: every buffer queued or held is one the pool
  allocated (`b[2] \in 1..nalloc[p]`), so a buffer `Get` allocates fresh is
  nobody's. `Holding`: each pc implies which buffers its goroutine holds
  (the loop holds both between Get and Read; a handler holds its payload
  buffer from `extract` to `put` and the oob buffer only at `extract`), so
  a `Put` returns a buffer actually held; it also says that a handler
  holds `newBuffer` only at `relayPut`, the oob buffer only at `extract`,
  and no payload buffer once done. With both, `Put` appends a buffer
  the pool does not hold, and `Get` hands out a head that nobody else holds.
  The step lemma has one lemma per kind of step: the loop taking
  (`LoopGetStep`), handing over (`LoopReceiveStep`) or returning
  (`LoopReturnStep`) its buffers, a handler putting one back
  (`HandlerPutStep`), `RelayUDPData` borrowing one (`RelayBorrowStep`), and
  the steps that touch no buffer (`QuietStep`). `IInv` was checked with
  TLC on both pass instances (with `Nat` bounded) before it was proved.
* `NoBufferLeakInvariant`: `Spec => []NoBufferLeak`. A handler that is
  done holds no buffer, whichever return path of `handleUDP` it took, and
  the loop holds none once it has exited. It follows from `Holding`.

`ProxyClientRefinement` proves, under the same assumption:

* `RefinesBufferOwnershipSafety`: `Spec => RefinesBufferOwnership`. Its
  lemmas use `IInv` from `ProxyClientProofs`. `PlacesLemma` shows that
  `IInv` implies `Places`: every held or queued buffer is allocated, and
  `OwnerOf` names its real holder. The `CHOOSE` in `OwnerOf` is determined
  because no two handlers hold one buffer. `SamePlace` shows that a buffer
  whose holders and pool membership are unchanged keeps its place.
  `BufferTaken`, `BufferReturned` and `BufferHanded` turn a change of
  holder into `Takes`, `Returns` and `Hands`. `OwnerStep` assembles these
  into a step of one owner. There is one lemma per kind of step:
  * `LoopGetOwner`: the loop takes both buffers;
  * `LoopReceiveOwner`: the loop hands both to a new handler;
  * `LoopReturnOwner`: the loop gives both back;
  * `RelayGetOwner`: `RelayUDPData` takes one;
  * `HandlerPutOwner`: a handler gives one back;
  * `QuietOwner`: every other step moves no buffer.

  The pool lemmas `GetElems` and `PutBackElems` show that a `Get` or `Put`
  changes the membership of no other buffer. `GetAllocated` shows that a
  `Get` allocates only the buffer it hands out.

`DnsServerProofs` proves, for every set of handlers, names, CNAME map,
TTLs and clock bound (assumption `DnsServerAssumption`, which includes
`None \notin Msg`: no exchange yields the "no message" marker):

* `OneReplyPerQueryInvariant` and `RepliedAnswerRoutedInvariant`. A cache entry, a hit a handler holds and
  a reply all point to a message. The strengthening says every such
  message is `Settled`: it is the message of a handler past its update, and
  that handler's name is the entry's key. `Replied` gives each handler's
  replies by pc: none before the answer, and none from the exchange when it
  is a stale hit's refresh. `Answered` relates a handler's pc to whether it
  has a message, whose question is the handler's own name. `Routed` says
  that an exchanged message with an A record had its answer routed once its
  handler passed `update`. Rewriting the cached message's id in place
  changes none of these, so the proof needs no lock. `IInv` was checked
  with TLC on the `dns` instance before it was proved.

Only model-checked: the liveness properties need fairness and ENABLED,
which the prover does not handle. These are `NoSocketLeak`,
`RelayReturns`, `NoDnsSocketLeak`, `ExchangeReturns`, `LoopsExitAfterStop`
and the liveness of the TCP relay's refinement.

## 6. Not modelled

* `CreateProxyBackend`, `StartDnsServer`, and `StartProxyClient` up to the
  TCP listener: startup configuration, run once before any concurrency
  (`ProxyClient`'s Init is the state it leaves).
* `RelayDNS`'s caller (`ExchangeDNS`) is not in this snapshot, so the length
  of a query against the pool's buffer size is not known.
* The KCP session pool, cipher, address codec, policy list and routing
  manager: their source is not in this snapshot; the models call them as
  atomic steps that may fail. The leaky buffer pool is not here either;
  `ProxyClient` models its Get and Put from the spec's section 4.2.
* Reload's resolver lists and `sendNum`, and `getResolver`: they only choose
  addresses.
* Logging and byte counts.
