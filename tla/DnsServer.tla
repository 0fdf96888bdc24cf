----------------------------- MODULE DnsServer -----------------------------
(***************************************************************************)
(* The DNS server of src/unnamed/part_000 (package dns_proxy): ServeDNS,   *)
(* run by one goroutine per query, the TTL cache (AddDnsCache,             *)
(* GetDnsCache, checkCache) and Reload's cache toggle.                     *)
(*                                                                         *)
(* A query is handled by a handler of the set Handlers, whose DNS id is    *)
(* the handler itself.  An upstream answer is a *dns.Msg object: the cache *)
(* stores a pointer to it and checkCache rewrites its Id in place, so      *)
(* messages are objects here too, named by the handler whose exchange      *)
(* created them.  An answer is abstracted to the question it answers,      *)
(* whether it holds an A record and a CNAME, and its largest INET TTL.     *)
(* Routing and the policy list are kept as the sets of names they were     *)
(* given.  Time is a clock of whole seconds, bounded by MaxTime.           *)
(***************************************************************************)
EXTENDS Naturals, FiniteSets

CONSTANTS Handlers,  \* the ServeDNS goroutines, one per query
          Domains,   \* the names queries may ask for
          InitPac,   \* the names the policy list proxies at start
          Cname,     \* Cname[d]: the target of a CNAME in d's answer
          TTLs,      \* the TTLs an upstream answer may carry
          MaxTime,   \* bound on the clock
          None,      \* no message / no cache entry
          Local      \* a reply from the local resolver

HandlerPCs == {"start", "local", "cache", "setId", "writeCached", "exchange",
               "update", "writeBack", "done"}

Msg == [id : Handlers, name : Domains, a : BOOLEAN, cname : BOOLEAN,
        ttl : TTLs]
Entry == [msg : Handlers, half : Nat, ttl : Nat]
Reply == [id : Handlers, msg : Handlers \cup {Local}]

ASSUME DnsServerAssumption ==
       /\ InitPac \subseteq Domains
       /\ Cname \in [Domains -> Domains]
       /\ TTLs \subseteq Nat
       /\ MaxTime \in Nat
       /\ None \notin Handlers /\ Local \notin Handlers
       /\ None \notin Msg

VARIABLES dom,      \* dom[h]: the name handler h's query asks for
          hpc,      \* hpc[h]: where ServeDNS of handler h is
          hit,      \* hit[h]: the cached message h got from checkCache
          refresh,  \* refresh[h]: the cache hit was past halfTtl
          msgs,     \* msgs[m]: the message object m, or None
          cache,    \* cache[d]: c.dnsCaches.caches[d], or None
          enabled,  \* c.dnsCaches != nil
          pac,      \* the names the policy list proxies
          routes,   \* the names routing was given an IPv4 address for
          replies,  \* replies[h]: what w.WriteMsg sent to h's client
          now       \* the clock

vars == <<dom, hpc, hit, refresh, msgs, cache, enabled, pac, routes,
          replies, now>>

TypeOK ==
  /\ dom \in [Handlers -> Domains]
  /\ hpc \in [Handlers -> HandlerPCs]
  /\ hit \in [Handlers -> Handlers \cup {None}]
  /\ refresh \in [Handlers -> BOOLEAN]
  /\ msgs \in [Handlers -> Msg \cup {None}]
  /\ cache \in [Domains -> Entry \cup {None}]
  /\ enabled \in BOOLEAN
  /\ pac \subseteq Domains
  /\ routes \subseteq Domains
  /\ replies \in [Handlers -> SUBSET Reply]
  /\ now \in 0..MaxTime

Init ==
  /\ dom \in [Handlers -> Domains]
  /\ hpc = [h \in Handlers |-> "start"]
  /\ hit = [h \in Handlers |-> None]
  /\ refresh = [h \in Handlers |-> FALSE]
  /\ msgs = [m \in Handlers |-> None]
  /\ cache = [d \in Domains |-> None]
  /\ enabled \in BOOLEAN
  /\ pac = InitPac
  /\ routes = {}
  /\ replies = [h \in Handlers |-> {}]
  /\ now = 0

\* The owner name of the A record of message m: behind a CNAME, the target.
AName(m) == IF msgs[m].cname THEN Cname[msgs[m].name] ELSE msgs[m].name

-----------------------------------------------------------------------------
(* ServeDNS                                                                *)

\* applyFilterChain returns nil; pacMgr.CheckDomain(name) decides between
\* the tunnel and a local resolver.
CheckDomain(h) ==
  /\ hpc[h] = "start"
  /\ hpc' = [hpc EXCEPT ![h] = IF dom[h] \in pac THEN "cache" ELSE "local"]
  /\ UNCHANGED <<dom, hit, refresh, msgs, cache, enabled, pac, routes,
                 replies, now>>

\* resolver.client.ExchangeContext with a local resolver; the answer, if
\* one arrives before the timeout, is written back verbatim.
LocalExchange(h) ==
  /\ hpc[h] = "local"
  /\ \/ replies' = [replies EXCEPT ![h] = {[id |-> h, msg |-> Local]}]
     \/ UNCHANGED replies
  /\ hpc' = [hpc EXCEPT ![h] = "done"]
  /\ UNCHANGED <<dom, hit, refresh, msgs, cache, enabled, pac, routes, now>>

\* checkCache -> GetDnsCache under dnsCacheMux: an entry before its ttl is
\* a hit, to be refreshed when past halfTtl; an expired entry is deleted.
CheckCache(h) ==
  /\ hpc[h] = "cache"
  /\ LET e == cache[dom[h]]
     IN IF enabled /\ e # None /\ now < e.ttl
          THEN /\ hit' = [hit EXCEPT ![h] = e.msg]
               /\ refresh' = [refresh EXCEPT ![h] = now > e.half]
               /\ hpc' = [hpc EXCEPT ![h] = "setId"]
               /\ UNCHANGED cache
          ELSE /\ cache' = IF enabled /\ e # None
                             THEN [cache EXCEPT ![dom[h]] = None]
                             ELSE cache
               /\ hpc' = [hpc EXCEPT ![h] = "exchange"]
               /\ UNCHANGED <<hit, refresh>>
  /\ UNCHANGED <<dom, msgs, enabled, pac, routes, replies, now>>

\* resDns.Id = r.Id: written into the cached message itself, outside the
\* lock.
SetCachedId(h) ==
  /\ hpc[h] = "setId"
  /\ msgs' = [msgs EXCEPT ![hit[h]].id = h]
  /\ hpc' = [hpc EXCEPT ![h] = "writeCached"]
  /\ UNCHANGED <<dom, hit, refresh, cache, enabled, pac, routes, replies, now>>

\* w.WriteMsg(resDns) packs the cached message with the Id it has now; a
\* fresh hit returns, a stale one goes on to refresh upstream.
WriteCached(h) ==
  /\ hpc[h] = "writeCached"
  /\ replies' = [replies EXCEPT ![h] = @ \cup {[id |-> msgs[hit[h]].id,
                                                 msg |-> hit[h]]}]
  /\ hpc' = [hpc EXCEPT ![h] = IF refresh[h] THEN "exchange" ELSE "done"]
  /\ UNCHANGED <<dom, hit, refresh, msgs, cache, enabled, pac, routes, now>>

\* r.Pack(), proxyClient.ExchangeDNS through the tunnel, resDns.Id = r.Id:
\* either an answer to the question, or an error and the handler returns.
ExchangeDNS(h) ==
  /\ hpc[h] = "exchange"
  /\ \/ /\ \E a, c \in BOOLEAN, t \in TTLs :
             msgs' = [msgs EXCEPT ![h] = [id |-> h, name |-> dom[h], a |-> a,
                                          cname |-> c, ttl |-> t]]
        /\ hpc' = [hpc EXCEPT ![h] = "update"]
     \/ /\ hpc' = [hpc EXCEPT ![h] = "done"]
        /\ UNCHANGED msgs
  /\ UNCHANGED <<dom, hit, refresh, cache, enabled, pac, routes, replies, now>>

\* Mutant of UpdateFromAnswer: a refresh also writes its answer back.
UpdateAlwaysWriteBack(h) ==
  /\ hpc[h] = "update"
  /\ LET m == msgs[h]
     IN /\ routes' = IF m.a THEN routes \cup {AName(h)} ELSE routes
        /\ pac' = IF m.cname THEN pac \cup {Cname[m.name]} ELSE pac
        /\ cache' = IF m.a /\ enabled
                      THEN [cache EXCEPT ![dom[h]] =
                              [msg |-> h, half |-> now + m.ttl \div 2,
                               ttl |-> now + m.ttl]]
                      ELSE cache
  /\ hpc' = [hpc EXCEPT ![h] = "writeBack"]
  /\ UNCHANGED <<dom, hit, refresh, msgs, enabled, replies, now>>

\* Mutant of UpdateFromAnswer: the A record is not given to routing.
UpdateNoRoute(h) ==
  /\ hpc[h] = "update"
  /\ LET m == msgs[h]
     IN /\ pac' = IF m.cname THEN pac \cup {Cname[m.name]} ELSE pac
        /\ cache' = IF m.a /\ enabled
                      THEN [cache EXCEPT ![dom[h]] =
                              [msg |-> h, half |-> now + m.ttl \div 2,
                               ttl |-> now + m.ttl]]
                      ELSE cache
  /\ hpc' = [hpc EXCEPT ![h] = IF refresh[h] THEN "done" ELSE "writeBack"]
  /\ UNCHANGED <<dom, hit, refresh, msgs, enabled, routes, replies, now>>

\* The loop over the answer: routingMgr.AddIp for the A record, pacMgr.
\* AddDomain for the CNAME target; then AddDnsCache under the queried name
\* when there was an A record and the cache is on.
UpdateFromAnswer(h) ==
  /\ hpc[h] = "update"
  /\ LET m == msgs[h]
     IN /\ routes' = IF m.a THEN routes \cup {AName(h)} ELSE routes
        /\ pac' = IF m.cname THEN pac \cup {Cname[m.name]} ELSE pac
        /\ cache' = IF m.a /\ enabled
                      THEN [cache EXCEPT ![dom[h]] =
                              [msg |-> h, half |-> now + m.ttl \div 2,
                               ttl |-> now + m.ttl]]
                      ELSE cache
  /\ hpc' = [hpc EXCEPT ![h] = IF refresh[h] THEN "done" ELSE "writeBack"]
  /\ UNCHANGED <<dom, hit, refresh, msgs, enabled, replies, now>>

\* w.WriteMsg(resDns) when the client has not been answered from cache.
WriteBack(h) ==
  /\ hpc[h] = "writeBack"
  /\ replies' = [replies EXCEPT ![h] = @ \cup {[id |-> msgs[h].id, msg |-> h]}]
  /\ hpc' = [hpc EXCEPT ![h] = "done"]
  /\ UNCHANGED <<dom, hit, refresh, msgs, cache, enabled, pac, routes, now>>

-----------------------------------------------------------------------------
\* Reload's cache part, under dnsCacheMux: turning the cache on creates an
\* empty one if there is none, turning it off drops it.
ReloadCache ==
  /\ \E on \in BOOLEAN :
       /\ enabled' = on
       /\ cache' = IF on /\ enabled THEN cache ELSE [d \in Domains |-> None]
  /\ UNCHANGED <<dom, hpc, hit, refresh, msgs, pac, routes, replies, now>>

\* One second passes.
Tick ==
  /\ now < MaxTime
  /\ now' = now + 1
  /\ UNCHANGED <<dom, hpc, hit, refresh, msgs, cache, enabled, pac, routes,
                 replies>>

Handler(h) ==
  \/ CheckDomain(h) \/ LocalExchange(h) \/ CheckCache(h) \/ SetCachedId(h)
  \/ WriteCached(h) \/ ExchangeDNS(h) \/ UpdateFromAnswer(h) \/ WriteBack(h)

Next ==
  \/ \E h \in Handlers : Handler(h)
  \/ ReloadCache
  \/ Tick

Spec == Init /\ [][Next]_vars

-----------------------------------------------------------------------------
(* Properties                                                              *)

\* Every reply a client receives carries the id of its own query (a DNS
\* client drops, or worse, mismatches, a reply with another id).
ReplyIdMatches ==
  \A h \in Handlers : \A r \in replies[h] : r.id = h

\* A query is answered at most once: a stale cache hit answers from the
\* cache and its upstream refresh is not written back (bWriteBack).
OneReplyPerQuery ==
  \A h \in Handlers : Cardinality(replies[h]) <= 1

\* When a client receives an A record from the tunnel, fresh or cached,
\* routing already holds its address, so the connection that follows is
\* routed through the tunnel.
RepliedAnswerRouted ==
  \A h \in Handlers : \A r \in replies[h] :
    (r.msg # Local /\ msgs[r.msg].a) => AName(r.msg) \in routes

=============================================================================
