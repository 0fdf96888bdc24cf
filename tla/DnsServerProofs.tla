--------------------------- MODULE DnsServerProofs ---------------------------
(***************************************************************************)
(* Proofs about the DNS server of DnsServer, for every set of handlers,    *)
(* names, TTLs and every clock bound.                                      *)
(***************************************************************************)
EXTENDS DnsServer, FiniteSetTheorems, TLAPS

\* The pcs before the upstream exchange has produced an answer, and those
\* at which a handler has written nothing yet.
BeforeAnswer == {"start", "local", "cache", "setId", "writeCached", "exchange"}
Unanswered == {"start", "local", "cache", "setId", "writeCached", "writeBack"}

\* A message object whose handler has passed its update: the answer has
\* been given to routing and the policy list.
Settled(m) == m \in Handlers /\ msgs[m] # None /\ hpc[m] \in {"writeBack", "done"}

\* A handler writes at most one reply, and none before its WriteMsg, nor
\* during an upstream exchange that no cache reply preceded.
Replied ==
  /\ \A h \in Handlers : replies[h] = {} \/ \E r \in Reply : replies[h] = {r}
  /\ \A h \in Handlers : hpc[h] \in Unanswered => replies[h] = {}
  /\ \A h \in Handlers :
       hpc[h] \in {"exchange", "update"} /\ ~refresh[h] => replies[h] = {}

\* Message m exists exactly once m's exchange has answered, and answers m's
\* question.
Answered ==
  /\ \A m \in Handlers : hpc[m] \in BeforeAnswer => msgs[m] = None
  /\ \A m \in Handlers : hpc[m] \in {"update", "writeBack"} => msgs[m] # None
  /\ \A m \in Handlers : msgs[m] # None => msgs[m].name = dom[m]

\* Once past its update, a message's A record is routed.
Routed ==
  \A m \in Handlers :
    msgs[m] # None /\ hpc[m] # "update" /\ msgs[m].a => AName(m) \in routes

\* The cache, a cache hit and a reply refer to settled messages of their
\* own name.
Referenced ==
  /\ \A d \in Domains :
       cache[d] # None => Settled(cache[d].msg) /\ dom[cache[d].msg] = d
  /\ \A h \in Handlers :
       hpc[h] \in {"setId", "writeCached"} =>
         Settled(hit[h]) /\ dom[hit[h]] = dom[h]
  /\ \A h \in Handlers : \A r \in replies[h] :
       r.msg # Local => Settled(r.msg) /\ dom[r.msg] = dom[h]

\* The inductive strengthening of OneReplyPerQuery and RepliedAnswerRouted.
IInv == TypeOK /\ Replied /\ Answered /\ Routed /\ Referenced

-----------------------------------------------------------------------------
\* The initial states satisfy the strengthening.
LEMMA InitIInv == Init => IInv
<1> SUFFICES ASSUME Init PROVE IInv
  OBVIOUS
<1> USE DnsServerAssumption
<1>1. TypeOK
  BY DEF Init, TypeOK, HandlerPCs
<1>2. QED
  BY <1>1 DEF Init, IInv, Replied, Answered, Routed, Referenced,
              BeforeAnswer, Unanswered, Settled

\* A step that touches no handler and no message, and at most drops cache
\* entries, keeps the strengthening.
LEMMA QuietStep ==
  ASSUME IInv, TypeOK',
         UNCHANGED <<dom, hpc, hit, refresh, msgs, routes, replies>>,
         \A d \in Domains : cache'[d] \in {cache[d], None}
  PROVE  IInv'
<1>2. Replied' /\ Answered'
  BY DEF IInv, Replied, Answered, Unanswered, BeforeAnswer
<1>3. Routed'
  BY DEF IInv, Routed, AName
<1>4. Referenced'
  BY DEF IInv, Referenced, TypeOK, Settled
<1>5. QED
  BY <1>2, <1>3, <1>4 DEF IInv

\* Every step keeps the strengthening.
LEMMA IInvStep == IInv /\ [Next]_vars => IInv'
<1> SUFFICES ASSUME IInv, [Next]_vars PROVE IInv'
  OBVIOUS
<1> USE DnsServerAssumption
<1>0. TypeOK /\ Replied /\ Answered /\ Routed /\ Referenced
  BY DEF IInv
<1> USE <1>0
<1>1. ASSUME NEW h \in Handlers, CheckDomain(h) PROVE IInv'
  <2>1. TypeOK'
    BY <1>1 DEF CheckDomain, TypeOK, HandlerPCs
  <2>2. Replied' /\ Answered'
    BY <1>1 DEF CheckDomain, TypeOK, Replied, Answered, Unanswered, BeforeAnswer
  <2>3. Routed'
    BY <1>1 DEF CheckDomain, TypeOK, Routed, Answered, BeforeAnswer, AName
  <2>4. Referenced'
    BY <1>1 DEF CheckDomain, TypeOK, Referenced, Settled
  <2>5. QED
    BY <2>1, <2>2, <2>3, <2>4 DEF IInv
<1>2. ASSUME NEW h \in Handlers, LocalExchange(h) PROVE IInv'
  <2>0. /\ hpc[h] = "local" /\ replies[h] = {} /\ msgs[h] = None
        /\ hpc' = [hpc EXCEPT ![h] = "done"]
        /\ replies' \in {replies, [replies EXCEPT ![h] = {[id |-> h, msg |-> Local]}]}
        /\ UNCHANGED <<dom, hit, refresh, msgs, cache, enabled, pac, routes, now>>
    BY <1>2 DEF LocalExchange, Replied, Answered, Unanswered, BeforeAnswer
  <2>1. [id |-> h, msg |-> Local] \in Reply
    BY DEF Reply
  <2>2. TypeOK'
    BY <2>0, <2>1 DEF TypeOK, HandlerPCs
  <2>3. Replied' /\ Answered'
    BY <2>0, <2>1 DEF TypeOK, Replied, Answered, Unanswered, BeforeAnswer
  <2>4. Routed'
    BY <2>0 DEF TypeOK, Routed, AName
  <2>5. Referenced'
    BY <2>0 DEF TypeOK, Referenced, Settled
  <2>6. QED
    BY <2>2, <2>3, <2>4, <2>5 DEF IInv
<1>3. ASSUME NEW h \in Handlers, CheckCache(h) PROVE IInv'
  <2> DEFINE e == cache[dom[h]]
  <2>0. /\ hpc[h] = "cache" /\ replies[h] = {} /\ msgs[h] = None
        /\ dom[h] \in Domains /\ e \in Entry \cup {None}
        /\ UNCHANGED <<dom, msgs, enabled, pac, routes, replies, now>>
    BY <1>3 DEF CheckCache, TypeOK, Replied, Answered, Unanswered, BeforeAnswer
  <2>1. CASE enabled /\ e # None /\ now < e.ttl
    <3>1. /\ hit' = [hit EXCEPT ![h] = e.msg]
          /\ refresh' = [refresh EXCEPT ![h] = now > e.half]
          /\ hpc' = [hpc EXCEPT ![h] = "setId"]
          /\ cache' = cache
      BY <1>3, <2>1 DEF CheckCache
    <3>2. Settled(e.msg) /\ dom[e.msg] = dom[h] /\ e.msg # h
      BY <2>0, <2>1 DEF Settled, Referenced
    <3>4. TypeOK'
      BY <2>0, <2>1, <3>1 DEF TypeOK, Entry, HandlerPCs
    <3>5. Replied'
      BY <2>0, <3>1 DEF TypeOK, Replied, Unanswered
    <3>6. Answered'
      BY <2>0, <3>1 DEF TypeOK, Answered, BeforeAnswer
    <3>7. Routed'
      BY <2>0, <3>1 DEF TypeOK, Routed, AName
    <3>8. Referenced'
      <4>1. \A m \in Handlers : Settled(m) => m # h
        BY <2>0 DEF Settled
      <4>2. QED
        BY <2>0, <3>1, <3>2, <4>1 DEF TypeOK, Settled, Referenced
    <3>9. QED
      BY <3>4, <3>5, <3>6, <3>7, <3>8 DEF IInv
  <2>2. CASE ~(enabled /\ e # None /\ now < e.ttl)
    <3>1. /\ cache' \in {cache, [cache EXCEPT ![dom[h]] = None]}
          /\ hpc' = [hpc EXCEPT ![h] = "exchange"]
          /\ hit' = hit /\ refresh' = refresh
      BY <1>3, <2>2 DEF CheckCache
    <3>4. TypeOK'
      BY <2>0, <3>1 DEF TypeOK, HandlerPCs
    <3>5. Replied'
      BY <2>0, <3>1 DEF TypeOK, Replied, Unanswered
    <3>6. Answered'
      BY <2>0, <3>1 DEF TypeOK, Answered, BeforeAnswer
    <3>7. Routed'
      BY <2>0, <3>1 DEF TypeOK, Routed, AName
    <3>8. Referenced'
      <4>1. \A d \in Domains : cache'[d] # None => cache'[d] = cache[d]
        BY <2>0, <3>1 DEF TypeOK
      <4>2. \A m \in Handlers : Settled(m) => m # h
        BY <2>0 DEF Settled
      <4>3. QED
        BY <2>0, <3>1, <4>1, <4>2 DEF TypeOK, Settled, Referenced
    <3>9. QED
      BY <3>4, <3>5, <3>6, <3>7, <3>8 DEF IInv
  <2>3. QED
    BY <2>1, <2>2
<1>4. ASSUME NEW h \in Handlers, SetCachedId(h) PROVE IInv'
  \* The Id is written into a settled message; nothing a property reads
  \* of it changes.
  <2> DEFINE m == hit[h]
  <2>0. /\ hpc[h] = "setId" /\ Settled(m) /\ m # h
        /\ hpc' = [hpc EXCEPT ![h] = "writeCached"]
        /\ UNCHANGED <<dom, hit, refresh, cache, enabled, pac, routes, replies, now>>
    BY <1>4 DEF SetCachedId, Settled, Referenced
  <2>1. /\ m \in Handlers /\ msgs[m] \in Msg
        /\ msgs' = [msgs EXCEPT ![m] = [msgs[m] EXCEPT !.id = h]]
    BY <1>4, <2>0 DEF SetCachedId, Settled, TypeOK
  <2>2. \A n \in Handlers :
          /\ msgs'[n] # None <=> msgs[n] # None
          /\ msgs[n] # None =>
               /\ msgs'[n].name = msgs[n].name /\ msgs'[n].a = msgs[n].a
               /\ msgs'[n].cname = msgs[n].cname
    <3>1. [msgs[m] EXCEPT !.id = h] \in Msg
      BY <2>1 DEF Msg
    <3>2. QED
      BY <2>1, <3>1 DEF TypeOK
  <2>3. TypeOK'
    BY <2>0, <2>1 DEF TypeOK, Msg, HandlerPCs
  <2>5. Replied' /\ Answered'
    BY <2>0, <2>2 DEF TypeOK, Replied, Answered, Unanswered, BeforeAnswer
  <2>6. Routed'
    BY <2>0, <2>2 DEF TypeOK, Routed, AName
  <2>7. Referenced'
    BY <2>0, <2>2 DEF TypeOK, Settled, Referenced
  <2>8. QED
    BY <2>3, <2>5, <2>6, <2>7 DEF IInv
<1>5. ASSUME NEW h \in Handlers, WriteCached(h) PROVE IInv'
  \* The reply is the first, and refers to the settled cached message.
  <2> DEFINE m == hit[h]
             r == [id |-> msgs[m].id, msg |-> m]
  <2>0. /\ hpc[h] = "writeCached" /\ replies[h] = {} /\ msgs[h] = None
        /\ Settled(m) /\ dom[m] = dom[h]
        /\ replies' = [replies EXCEPT ![h] = {r}]
        /\ hpc' = [hpc EXCEPT ![h] = IF refresh[h] THEN "exchange" ELSE "done"]
        /\ UNCHANGED <<dom, hit, refresh, msgs, cache, enabled, pac, routes, now>>
    BY <1>5 DEF WriteCached, Replied, Answered, Referenced, Unanswered,
                BeforeAnswer
  <2>1. r \in Reply /\ m # h /\ m # Local
    BY <2>0 DEF Settled, TypeOK, Msg, Reply
  <2>2. TypeOK'
    BY <2>0, <2>1 DEF TypeOK, HandlerPCs
  <2>3. Replied' /\ Answered'
    BY <2>0, <2>1 DEF TypeOK, Replied, Answered, Unanswered, BeforeAnswer
  <2>4. Routed'
    BY <2>0 DEF TypeOK, Routed, AName
  <2>5. Referenced'
    BY <2>0, <2>1 DEF TypeOK, Settled, Referenced
  <2>6. QED
    BY <2>2, <2>3, <2>4, <2>5 DEF IInv
<1>6. ASSUME NEW h \in Handlers, ExchangeDNS(h) PROVE IInv'
  \* The new message is h's own, and h is not settled before or after.
  <2>0. /\ hpc[h] = "exchange" /\ msgs[h] = None
        /\ hpc'[h] \in {"update", "done"}
        /\ hpc' = [hpc EXCEPT ![h] = hpc'[h]]
        /\ msgs' = [msgs EXCEPT ![h] = msgs'[h]]
        /\ hpc'[h] = "update" => msgs'[h] \in Msg /\ msgs'[h].name = dom[h]
        /\ hpc'[h] = "done" => msgs'[h] = None
        /\ UNCHANGED <<dom, hit, refresh, cache, enabled, pac, routes, replies, now>>
    BY <1>6 DEF ExchangeDNS, TypeOK, Msg, Answered, BeforeAnswer
  <2>3. TypeOK'
    BY <2>0 DEF TypeOK, HandlerPCs
  <2>4. Replied' /\ Answered'
    BY <2>0 DEF TypeOK, Replied, Answered, Unanswered, BeforeAnswer
  <2>5. Routed'
    BY <2>0 DEF TypeOK, Routed, AName
  <2>6. Referenced'
    BY <2>0 DEF TypeOK, Settled, Referenced
  <2>7. QED
    BY <2>3, <2>4, <2>5, <2>6 DEF IInv
<1>7. ASSUME NEW h \in Handlers, UpdateFromAnswer(h) PROVE IInv'
  \* h's answer is routed before h is settled and before it is cached.
  <2> DEFINE m == msgs[h]
  <2>0. /\ hpc[h] = "update" /\ m \in Msg /\ m.name = dom[h]
        /\ hpc' = [hpc EXCEPT ![h] = IF refresh[h] THEN "done" ELSE "writeBack"]
        /\ routes' = IF m.a THEN routes \cup {AName(h)} ELSE routes
        /\ pac' = IF m.cname THEN pac \cup {Cname[m.name]} ELSE pac
        /\ cache' = IF m.a /\ enabled
                      THEN [cache EXCEPT ![dom[h]] =
                              [msg |-> h, half |-> now + m.ttl \div 2,
                               ttl |-> now + m.ttl]]
                      ELSE cache
        /\ UNCHANGED <<dom, hit, refresh, msgs, enabled, replies, now>>
    BY <1>7 DEF UpdateFromAnswer, TypeOK, Answered
  <2>1. /\ AName(h) \in Domains /\ Cname[m.name] \in Domains
        /\ m.ttl \in Nat
    BY <2>0 DEF AName, Msg, TypeOK
  <2>4. TypeOK'
    BY <2>0, <2>1 DEF TypeOK, Entry, HandlerPCs
  <2>5. Replied' /\ Answered'
    BY <2>0 DEF TypeOK, Replied, Answered, Unanswered, BeforeAnswer
  <2>6. Routed'
    BY <2>0 DEF TypeOK, Routed, AName
  <2>7. Referenced'
    <3>1. \A d \in Domains : cache'[d] # None =>
            \/ cache'[d] = cache[d] /\ cache[d] # None
            \/ d = dom[h] /\ cache'[d].msg = h
      BY <2>0 DEF TypeOK
    <3>2. \A n \in Handlers : hpc[n] \in {"setId", "writeCached"} => n # h
      BY <2>0
    <3>3. \A n \in Handlers : Settled(n) => hpc'[n] \in {"writeBack", "done"}
      BY <2>0 DEF Settled, TypeOK
    <3>4. hpc'[h] \in {"writeBack", "done"} /\ msgs'[h] # None
      BY <2>0 DEF TypeOK, Msg
    <3>5. QED
      BY <2>0, <3>1, <3>2, <3>3, <3>4 DEF TypeOK, Settled, Referenced
  <2>8. QED
    BY <2>4, <2>5, <2>6, <2>7 DEF IInv
<1>8. ASSUME NEW h \in Handlers, WriteBack(h) PROVE IInv'
  \* The reply is the first, and refers to h's own settled message.
  <2> DEFINE r == [id |-> msgs[h].id, msg |-> h]
  <2>0. /\ hpc[h] = "writeBack" /\ replies[h] = {} /\ msgs[h] \in Msg
        /\ replies' = [replies EXCEPT ![h] = {r}]
        /\ hpc' = [hpc EXCEPT ![h] = "done"]
        /\ UNCHANGED <<dom, hit, refresh, msgs, cache, enabled, pac, routes, now>>
    BY <1>8 DEF WriteBack, TypeOK, Replied, Answered, Unanswered
  <2>1. r \in Reply /\ h # Local
    BY <2>0 DEF Reply, Msg
  <2>2. TypeOK'
    BY <2>0, <2>1 DEF TypeOK, HandlerPCs
  <2>3. Replied' /\ Answered'
    BY <2>0, <2>1 DEF TypeOK, Replied, Answered, Unanswered, BeforeAnswer
  <2>4. Routed'
    BY <2>0 DEF TypeOK, Routed, AName
  <2>5. Referenced'
    BY <2>0, <2>1 DEF TypeOK, Settled, Referenced
  <2>6. QED
    BY <2>2, <2>3, <2>4, <2>5 DEF IInv
<1>9. CASE ReloadCache
  <2>1. TypeOK'
    BY <1>9 DEF ReloadCache, TypeOK
  <2>2. \A d \in Domains : cache'[d] \in {cache[d], None}
    BY <1>9 DEF ReloadCache, TypeOK
  <2>3. QED
    BY <1>9, <2>1, <2>2, QuietStep DEF ReloadCache
<1>10. CASE Tick
  <2>1. TypeOK'
    BY <1>10 DEF Tick, TypeOK
  <2>2. QED
    BY <1>10, <2>1, QuietStep DEF Tick
<1>11. CASE UNCHANGED vars
  <2>1. TypeOK'
    BY <1>11 DEF vars, TypeOK
  <2>2. QED
    BY <1>11, <2>1, QuietStep DEF vars
<1>12. QED
  BY <1>1, <1>2, <1>3, <1>4, <1>5, <1>6, <1>7, <1>8, <1>9, <1>10, <1>11
     DEF Next, Handler

-----------------------------------------------------------------------------
\* The strengthening holds in every state of every behaviour.
LEMMA IInvInvariant == Spec => []IInv
  BY InitIInv, IInvStep, PTL DEF Spec

\* OneReplyPerQuery for every instance: ServeDNS writes at most one reply
\* per query, because a stale cache hit that has answered from the cache
\* does not write back the answer of its refresh (bWriteBack is false).
THEOREM OneReplyPerQueryInvariant == Spec => []OneReplyPerQuery
<1>1. IInv => OneReplyPerQuery
  <2> SUFFICES ASSUME IInv, NEW h \in Handlers
               PROVE  Cardinality(replies[h]) <= 1
    BY DEF OneReplyPerQuery
  <2>1. replies[h] = {} \/ \E r \in Reply : replies[h] = {r}
    BY DEF IInv, Replied
  <2>2. CASE replies[h] = {}
    BY <2>2, FS_EmptySet
  <2>3. CASE \E r \in Reply : replies[h] = {r}
    <3>1. PICK r \in Reply : replies[h] = {r}
      BY <2>3
    <3>2. Cardinality({r}) = 1
      BY FS_Singleton
    <3>3. QED
      BY <3>1, <3>2
  <2>4. QED
    BY <2>1, <2>2, <2>3
<1>2. QED
  BY <1>1, IInvInvariant, PTL

\* RepliedAnswerRouted for every instance: ServeDNS hands an answer's A
\* record to routingMgr.AddIp before it caches the answer or writes it
\* back, so a client never connects to an address routing lacks.
THEOREM RepliedAnswerRoutedInvariant == Spec => []RepliedAnswerRouted
<1>1. IInv => RepliedAnswerRouted
  BY DEF IInv, Referenced, Routed, Settled, RepliedAnswerRouted
<1>2. QED
  BY <1>1, IInvInvariant, PTL

=============================================================================
