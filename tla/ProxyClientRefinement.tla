------------------------ MODULE ProxyClientRefinement ------------------------
(***************************************************************************)
(* Proof that the buffer handling of ProxyClient implements               *)
(* BufferOwnership under the mapping OwnerOf, for every set of datagrams   *)
(* and connections and every pool size.                                    *)
(***************************************************************************)
EXTENDS ProxyClientProofs

\* What the mapping says of each buffer, given IInv: everything held or
\* pooled has been allocated, and an allocated buffer is the loop's, a
\* handler's, the pool's or dropped exactly as the state says.
Places ==
  /\ \A b \in LoopHolds : b \in AllocatedBuffers
  /\ \A d \in Datagrams : \A b \in HandlerHolds(d) : b \in AllocatedBuffers
  /\ \A p \in Pools : \A b \in Elems(pool[p]) : b \in AllocatedBuffers
  /\ \A b \in AllocatedBuffers :
       /\ b \in Buffers
       /\ b \in LoopHolds => OwnerOf[b] = LoopOwner
       /\ \A d \in Datagrams : b \in HandlerHolds(d) => OwnerOf[b] = HandlerOwner(d)
       /\ b \in Elems(pool[b[1]]) => OwnerOf[b] = PooledMark
       /\ b \notin LoopHolds /\ (\A d \in Datagrams : b \notin HandlerHolds(d))
          /\ b \notin Elems(pool[b[1]]) => OwnerOf[b] = DroppedMark

-----------------------------------------------------------------------------
\* The allocated buffers of counts na are the buffers numbered 1 to na[p]
\* in each pool p.
LEMMA AllocatedLemma ==
  ASSUME NEW na \in [Pools -> Nat]
  PROVE  \A b : b \in UNION {{<<p, n>> : n \in 1..na[p]} : p \in Pools}
                  <=> b \in Buffers /\ b[2] \in 1..na[b[1]]
<1> SUFFICES ASSUME NEW b
             PROVE  b \in UNION {{<<p, n>> : n \in 1..na[p]} : p \in Pools}
                      <=> b \in Buffers /\ b[2] \in 1..na[b[1]]
  OBVIOUS
<1>1. ASSUME b \in UNION {{<<p, n>> : n \in 1..na[p]} : p \in Pools}
      PROVE  b \in Buffers /\ b[2] \in 1..na[b[1]]
  <2>1. PICK p \in Pools : \E n \in 1..na[p] : b = <<p, n>>
    BY <1>1
  <2>2. PICK n \in 1..na[p] : b = <<p, n>>
    BY <2>1
  <2>3. QED
    BY <2>2 DEF Buffers
<1>2. ASSUME b \in Buffers, b[2] \in 1..na[b[1]]
      PROVE  b \in UNION {{<<p, n>> : n \in 1..na[p]} : p \in Pools}
  <2>1. b = <<b[1], b[2]>> /\ b[1] \in Pools
    BY <1>2 DEF Buffers
  <2>2. QED
    BY <1>2, <2>1
<1>3. QED
  BY <1>1, <1>2

\* The mapping under IInv.
LEMMA PlacesLemma == IInv => Places
<1> SUFFICES ASSUME IInv PROVE Places
  OBVIOUS
<1> USE ProxyClientAssumption
<1>1. \A b : b \in AllocatedBuffers <=> b \in Buffers /\ b[2] \in 1..nalloc[b[1]]
  <2>1. nalloc \in [Pools -> Nat]
    BY DEF IInv, TypeOK
  <2>2. QED
    BY <2>1, AllocatedLemma DEF AllocatedBuffers
<1>2. /\ \A b \in LoopHolds : b \in AllocatedBuffers
      /\ \A d \in Datagrams : \A b \in HandlerHolds(d) : b \in AllocatedBuffers
      /\ \A p \in Pools : \A b \in Elems(pool[p]) : b \in AllocatedBuffers
  <2>1. \A p \in Pools : \A b \in Elems(pool[p]) : b \in Buffers
    BY DEF IInv, TypeOK, Elems
  <2>2. /\ lbuf \in Held /\ loob \in Held
        /\ \A d \in Datagrams : hbuf[d] \in Held /\ hoob[d] \in Held /\ hnew[d] \in Held
    BY DEF IInv, TypeOK
  <2>3. QED
    BY <1>1, <2>1, <2>2 DEF IInv, Allocated, FromPool, LoopHolds, HandlerHolds, Held
<1>3. ASSUME NEW b \in AllocatedBuffers
      PROVE  /\ b \in Buffers
             /\ b \in LoopHolds => OwnerOf[b] = LoopOwner
             /\ \A d \in Datagrams : b \in HandlerHolds(d) => OwnerOf[b] = HandlerOwner(d)
             /\ b \in Elems(pool[b[1]]) => OwnerOf[b] = PooledMark
             /\ b \notin LoopHolds /\ (\A d \in Datagrams : b \notin HandlerHolds(d))
                /\ b \notin Elems(pool[b[1]]) => OwnerOf[b] = DroppedMark
  <2>0. b \in Buffers /\ b[1] \in Pools
    BY <1>1 DEF Buffers
  <2>1. OwnerOf[b] =
          IF b \in LoopHolds THEN LoopOwner
          ELSE IF \E d \in Datagrams : b \in HandlerHolds(d)
            THEN HandlerOwner(CHOOSE d \in Datagrams : b \in HandlerHolds(d))
          ELSE IF b \in Elems(pool[b[1]]) THEN PooledMark
          ELSE DroppedMark
    BY DEF OwnerOf
  <2>2. ASSUME NEW d \in Datagrams, b \in HandlerHolds(d)
        PROVE  OwnerOf[b] = HandlerOwner(d)
    <3>1. b \notin LoopHolds
      BY <2>2 DEF IInv, BufferExclusive
    <3>2. \A e \in Datagrams : b \in HandlerHolds(e) => e = d
      BY <2>2 DEF IInv, BufferExclusive
    <3>3. (CHOOSE e \in Datagrams : b \in HandlerHolds(e)) = d
      <4> DEFINE c == CHOOSE e \in Datagrams : b \in HandlerHolds(e)
      <4>1. c \in Datagrams /\ b \in HandlerHolds(c)
        BY <2>2
      <4>2. QED
        BY <3>2, <4>1
    <3>4. QED
      BY <2>1, <2>2, <3>1, <3>3
  <2>3. ASSUME b \in Elems(pool[b[1]]) PROVE OwnerOf[b] = PooledMark
    <3>1. b \notin LoopHolds /\ \A d \in Datagrams : b \notin HandlerHolds(d)
      BY <2>0, <2>3 DEF IInv, BufferExclusive
    <3>2. ~\E d \in Datagrams : b \in HandlerHolds(d)
      BY <3>1
    <3>3. QED
      BY <2>1, <2>3, <3>1, <3>2
  <2>4. QED
    BY <2>0, <2>1, <2>2, <2>3
<1>4. QED
  BY <1>2, <1>3 DEF Places

-----------------------------------------------------------------------------
(* One buffer across a step                                                *)

\* Owner o holds buffer b: the loop, or the handler o stands for.
Holds(o, b) ==
  \/ o = LoopOwner /\ b \in LoopHolds
  \/ \E d \in Datagrams : o = HandlerOwner(d) /\ b \in HandlerHolds(d)

\* No goroutine holds buffer b.
Free(b) == b \notin LoopHolds /\ \A d \in Datagrams : b \notin HandlerHolds(d)

\* A buffer that stays allocated, held by the same goroutines and in or
\* out of its pool as before, stays where it was.
LEMMA SamePlace ==
  ASSUME Places, Places', NEW b \in AllocatedBuffers, b \in AllocatedBuffers',
         (b \in LoopHolds) <=> (b \in LoopHolds'),
         \A d \in Datagrams : (b \in HandlerHolds(d)) <=> (b \in HandlerHolds(d)'),
         (b \in Elems(pool[b[1]])) <=> (b \in Elems(pool'[b[1]]))
  PROVE  OwnerOf'[b] = OwnerOf[b]
<1>1. CASE b \in LoopHolds
  BY <1>1 DEF Places
<1>2. CASE b \notin LoopHolds /\ \E d \in Datagrams : b \in HandlerHolds(d)
  <2>1. PICK d \in Datagrams : b \in HandlerHolds(d)
    BY <1>2
  <2>2. b \in HandlerHolds(d)'
    BY <2>1
  <2>3. QED
    BY <2>1, <2>2 DEF Places
<1>3. CASE Free(b) /\ b \in Elems(pool[b[1]])
  BY <1>3 DEF Places, Free
<1>4. CASE Free(b) /\ b \notin Elems(pool[b[1]])
  BY <1>4 DEF Places, Free
<1>5. QED
  BY <1>1, <1>2, <1>3, <1>4 DEF Free

\* The places of BufferOwnership are distinct.
LEMMA PlacesDistinct ==
  /\ \A d \in Datagrams : LoopOwner # HandlerOwner(d)
  /\ \A d, e \in Datagrams : HandlerOwner(d) = HandlerOwner(e) => d = e
  /\ \A o \in OwnerSet : o # PooledMark /\ o # DroppedMark
  /\ PooledMark # DroppedMark
BY DEF LoopOwner, HandlerOwner, PooledMark, DroppedMark, OwnerSet

\* Under Places, an allocated buffer that o holds is o's.
LEMMA HeldIsOwned ==
  ASSUME Places, NEW o \in OwnerSet, NEW b \in AllocatedBuffers, Holds(o, b)
  PROVE  OwnerOf[b] = o
<1>1. CASE o = LoopOwner /\ b \in LoopHolds
  BY <1>1 DEF Places
<1>2. ASSUME NEW d \in Datagrams, o = HandlerOwner(d), b \in HandlerHolds(d)
      PROVE  OwnerOf[b] = o
  BY <1>2 DEF Places
<1>3. QED
  BY <1>1, <1>2 DEF Holds

\* A buffer that is pooled or new and that o holds after the step is one
\* o takes.
LEMMA BufferTaken ==
  ASSUME Places, Places', NEW o \in OwnerSet, NEW b \in AllocatedBuffers',
         b \notin AllocatedBuffers \/ (b \in Elems(pool[b[1]]) /\ Free(b)),
         Holds(o, b)'
  PROVE  Ownership!Takes(o, b)
<1>1. OwnerOf'[b] = o
  <2>1. CASE o = LoopOwner /\ b \in LoopHolds'
    BY <2>1 DEF Places
  <2>2. ASSUME NEW d \in Datagrams, o = HandlerOwner(d), b \in HandlerHolds(d)'
        PROVE  OwnerOf'[b] = o
    BY <2>2 DEF Places
  <2>3. QED
    BY <2>1, <2>2 DEF Holds
<1>2. b \notin DOMAIN OwnerOf \/ OwnerOf[b] = PooledMark
  BY DEF Places, Free, OwnerOf
<1>3. QED
  BY <1>1, <1>2 DEF Ownership!Takes

\* A buffer o held and nobody holds after the step is one o gives back.
LEMMA BufferReturned ==
  ASSUME Places, Places', NEW o \in OwnerSet, NEW b \in AllocatedBuffers,
         b \in AllocatedBuffers', Holds(o, b), Free(b)'
  PROVE  Ownership!Returns(o, b)
<1>1. OwnerOf[b] = o
  BY HeldIsOwned
<1>2. OwnerOf'[b] \in {PooledMark, DroppedMark}
  BY DEF Places, Free
<1>3. QED
  BY <1>1, <1>2 DEF Ownership!Returns, OwnerOf

\* A buffer o held and another owner holds after the step is one o hands on.
LEMMA BufferHanded ==
  ASSUME Places, Places', NEW o \in OwnerSet, NEW o2 \in OwnerSet \ {o},
         NEW b \in AllocatedBuffers, b \in AllocatedBuffers',
         Holds(o, b), Holds(o2, b)'
  PROVE  Ownership!Hands(o, b)
<1>1. OwnerOf[b] = o
  BY HeldIsOwned
<1>2. OwnerOf'[b] = o2
  <2>1. CASE o2 = LoopOwner /\ b \in LoopHolds'
    BY <2>1 DEF Places
  <2>2. ASSUME NEW d \in Datagrams, o2 = HandlerOwner(d), b \in HandlerHolds(d)'
        PROVE  OwnerOf'[b] = o2
    BY <2>2 DEF Places
  <2>3. QED
    BY <2>1, <2>2 DEF Holds
<1>3. QED
  BY <1>1, <1>2 DEF Ownership!Hands, OwnerOf

\* A step in which every buffer stays where it was, or is one that owner o
\* takes, gives back or hands on, is a step of o.
LEMMA OwnerStep ==
  ASSUME Places, Places', NEW o \in OwnerSet,
         AllocatedBuffers \subseteq AllocatedBuffers',
         \A b \in AllocatedBuffers' :
           \/ b \in AllocatedBuffers /\ OwnerOf'[b] = OwnerOf[b]
           \/ Ownership!Takes(o, b)
           \/ Ownership!Returns(o, b)
           \/ Ownership!Hands(o, b)
  PROVE  Ownership!Next
<1>1. /\ DOMAIN OwnerOf = AllocatedBuffers
      /\ DOMAIN OwnerOf' = AllocatedBuffers'
  BY DEF OwnerOf
<1>2. AllocatedBuffers' \subseteq Buffers
  BY DEF Places
<1>3. Ownership!Step(o)
  BY <1>1, <1>2 DEF Ownership!Step
<1>4. QED
  BY <1>3 DEF Ownership!Next

-----------------------------------------------------------------------------
(* The pools across a Get and a Put                                        *)

\* Put keeps every buffer the pool held and adds at most the one put back.
LEMMA ReturnedElems ==
  ASSUME NEW s \in Seq(Buffers), NEW x \in Buffers
  PROVE  /\ Elems(s) \subseteq Elems(Returned(s, x))
         /\ Elems(Returned(s, x)) \subseteq Elems(s) \cup {x}
<1>1. CASE Len(s) < PoolSize
  <2>1. /\ Len(Append(s, x)) = Len(s) + 1
        /\ \A i \in 1..Len(s) : Append(s, x)[i] = s[i]
        /\ Append(s, x)[Len(s) + 1] = x
        /\ DOMAIN s = 1..Len(s)
        /\ Len(s) \in Nat
    BY AppendProperties, LenProperties
  <2>2. DOMAIN Append(s, x) = 1..Len(s) + 1
    BY <2>1, AppendProperties, LenProperties
  <2>3. QED
    BY <1>1, <2>1, <2>2 DEF Returned, Elems
<1>2. CASE ~(Len(s) < PoolSize)
  BY <1>2 DEF Returned
<1>3. QED
  BY <1>1, <1>2

\* Putting back x changes the pool membership of no other buffer.
LEMMA PutBackElems ==
  ASSUME IInv, NEW x \in Buffers, NEW b \in Buffers, b # x
  PROVE  (b \in Elems(PutBack(x)[b[1]])) <=> (b \in Elems(pool[b[1]]))
<1>1. /\ pool \in [Pools -> Seq(Buffers)]
      /\ b[1] \in Pools /\ x[1] \in Pools
  BY DEF IInv, TypeOK, Buffers
<1>2. CASE b[1] = x[1]
  <2>1. PutBack(x)[b[1]] = Returned(pool[x[1]], x)
    BY <1>1, <1>2 DEF PutBack
  <2>2. /\ Elems(pool[x[1]]) \subseteq Elems(Returned(pool[x[1]], x))
        /\ Elems(Returned(pool[x[1]], x)) \subseteq Elems(pool[x[1]]) \cup {x}
    BY <1>1, ReturnedElems
  <2>3. QED
    BY <1>2, <2>1, <2>2
<1>3. CASE b[1] # x[1]
  BY <1>1, <1>3 DEF PutBack
<1>4. QED
  BY <1>2, <1>3

\* A Get from pool p changes the pool membership of no buffer but the
\* one it hands out.
LEMMA GetElems ==
  ASSUME IInv, NEW p \in Pools, NEW b \in Buffers, b # Taken(p)
  PROVE  (b \in Elems(PoolsAfterGet({p})[p])) <=> (b \in Elems(pool[p]))
<1>1. CASE pool[p] # <<>>
  <2>1. Elems(Tail(pool[p])) = Elems(pool[p]) \ {Head(pool[p])}
    BY <1>1, TailLemma DEF IInv, TypeOK, BufferExclusive
  <2>2. PoolsAfterGet({p})[p] = Tail(pool[p]) /\ Taken(p) = Head(pool[p])
    BY <1>1 DEF PoolsAfterGet, Taken
  <2>3. QED
    BY <2>1, <2>2
<1>2. CASE pool[p] = <<>>
  BY <1>2 DEF PoolsAfterGet
<1>3. QED
  BY <1>1, <1>2

-----------------------------------------------------------------------------
(* The steps of the goroutines                                             *)

\* A step that leaves the pools and every holder alone moves no buffer.
LEMMA QuietOwner ==
  ASSUME UNCHANGED <<pool, nalloc, lbuf, loob, hbuf, hoob, hnew>>
  PROVE  UNCHANGED OwnerOf
BY DEF OwnerOf, AllocatedBuffers, LoopHolds, HandlerHolds, Elems

\* Handler d puts back buffer x, which it no longer holds, and holds
\* otherwise what it held: a step of the handler that gives x back.
LEMMA HandlerReturn ==
  ASSUME IInv, Places, Places', NEW d \in Datagrams, NEW x \in HandlerHolds(d),
         pool' = PutBack(x),
         UNCHANGED <<nalloc, lbuf, loob>>,
         \A e \in Datagrams \ {d} :
           hbuf'[e] = hbuf[e] /\ hoob'[e] = hoob[e] /\ hnew'[e] = hnew[e],
         HandlerHolds(d)' = HandlerHolds(d) \ {x}
  PROVE  Ownership!Next
<1> DEFINE o == HandlerOwner(d)
<1>1. o \in OwnerSet
  BY DEF OwnerSet
<1>2. AllocatedBuffers' = AllocatedBuffers
  BY DEF AllocatedBuffers
<1>3. x \in Buffers /\ x \in AllocatedBuffers
  BY DEF Places
<1>4. /\ LoopHolds' = LoopHolds
      /\ \A e \in Datagrams \ {d} : HandlerHolds(e)' = HandlerHolds(e)
  BY DEF LoopHolds, HandlerHolds
<1>5. ASSUME NEW b \in AllocatedBuffers, b # x
      PROVE  OwnerOf'[b] = OwnerOf[b]
  <2>1. b \in Buffers
    BY DEF Places
  <2>2. (b \in Elems(pool[b[1]])) <=> (b \in Elems(pool'[b[1]]))
    BY <1>3, <1>5, <2>1, PutBackElems
  <2>3. \A e \in Datagrams : (b \in HandlerHolds(e)) <=> (b \in HandlerHolds(e)')
    BY <1>4, <1>5
  <2>4. QED
    BY <1>2, <1>4, <2>2, <2>3, SamePlace
<1>6. Ownership!Returns(o, x)
  <2>1. Holds(o, x)
    BY DEF Holds
  <2>2. Free(x)'
    BY <1>4 DEF IInv, BufferExclusive, Free
  <2>3. QED
    BY <1>1, <1>2, <1>3, <2>1, <2>2, BufferReturned
<1>7. QED
  BY <1>1, <1>2, <1>5, <1>6, OwnerStep

\* The buffer a Get hands out is new, or queued in its pool and held by
\* nobody.
LEMMA TakenFresh ==
  ASSUME IInv, NEW p \in Pools
  PROVE  /\ Taken(p) \in Buffers /\ Taken(p)[1] = p
         /\ \/ Taken(p) \notin AllocatedBuffers
            \/ Taken(p) \in Elems(pool[p]) /\ Free(Taken(p))
<1> USE ProxyClientAssumption
<1>1. /\ Taken(p) \in Buffers /\ Taken(p)[1] = p
      /\ Taken(p) \notin LoopHolds
      /\ \A d \in Datagrams : Taken(p) \notin HandlerHolds(d)
  BY GetLemma
<1>2. CASE pool[p] # <<>>
  <2>1. Taken(p) \in Elems(pool[p])
    BY <1>2, TailLemma DEF Taken, IInv, TypeOK, BufferExclusive
  <2>2. QED
    BY <1>1, <2>1 DEF Free
<1>3. CASE pool[p] = <<>>
  <2>1. Taken(p) = <<p, nalloc[p] + 1>> /\ nalloc[p] \in Nat
    BY <1>3 DEF Taken, IInv, TypeOK
  <2>2. Taken(p) \notin AllocatedBuffers
    <3>1. nalloc \in [Pools -> Nat]
      BY DEF IInv, TypeOK
    <3>2. Taken(p)[2] \notin 1..nalloc[Taken(p)[1]]
      BY <1>1, <2>1
    <3>3. QED
      BY <3>1, <3>2, AllocatedLemma DEF AllocatedBuffers
  <2>3. QED
    BY <1>1, <2>2
<1>4. QED
  BY <1>1, <1>2, <1>3

\* A Get from each pool of ps allocates only the buffers it hands out.
LEMMA GetAllocated ==
  ASSUME IInv, NEW ps \in SUBSET Pools, nalloc' = NallocAfterGet(ps)
  PROVE  /\ AllocatedBuffers \subseteq AllocatedBuffers'
         /\ \A b \in AllocatedBuffers' \ AllocatedBuffers : \E p \in ps : b = Taken(p)
<1>1. nalloc \in [Pools -> Nat] /\ nalloc' \in [Pools -> Nat]
  BY DEF IInv, TypeOK, NallocAfterGet
<1>2. /\ \A b : b \in AllocatedBuffers <=> b \in Buffers /\ b[2] \in 1..nalloc[b[1]]
      /\ \A b : b \in AllocatedBuffers' <=> b \in Buffers /\ b[2] \in 1..nalloc'[b[1]]
  BY <1>1, AllocatedLemma DEF AllocatedBuffers
<1>3. AllocatedBuffers \subseteq AllocatedBuffers'
  BY <1>1, <1>2 DEF NallocAfterGet, Buffers
<1>4. ASSUME NEW b \in AllocatedBuffers' \ AllocatedBuffers
      PROVE  \E p \in ps : b = Taken(p)
  <2>1. b \in Buffers /\ b[2] \in 1..nalloc'[b[1]] /\ b[2] \notin 1..nalloc[b[1]]
    BY <1>2, <1>4
  <2>2. b = <<b[1], b[2]>> /\ b[1] \in Pools
    BY <2>1 DEF Buffers
  <2>3. b[1] \in ps /\ pool[b[1]] = <<>> /\ b[2] = nalloc[b[1]] + 1
    BY <1>1, <2>1, <2>2 DEF NallocAfterGet
  <2>4. b = Taken(b[1])
    BY <2>2, <2>3 DEF Taken
  <2>5. QED
    BY <2>3, <2>4
<1>5. QED
  BY <1>3, <1>4

\* The loop's Get from both pools is a step of the loop that takes the
\* two buffers handed out.
LEMMA LoopGetOwner ==
  ASSUME IInv, Places, Places', LoopGet
  PROVE  Ownership!Next
<1> USE ProxyClientAssumption
<1> DEFINE o == LoopOwner
           T == {Taken("udp"), Taken("oob")}
<1>0. o \in OwnerSet
  BY DEF OwnerSet
<1>1. "udp" \in Pools /\ "oob" \in Pools /\ Pools = {"udp", "oob"}
  BY DEF Pools
<1>2. LoopHolds = {} /\ LoopHolds' = T
  <2>1. Taken("udp") \in Buffers /\ Taken("oob") \in Buffers
    BY <1>1, TakenFresh
  <2>2. QED
    BY <2>1 DEF LoopGet, IInv, Holding, LoopHolds
<1>3. \A e \in Datagrams : HandlerHolds(e)' = HandlerHolds(e)
  BY DEF LoopGet, HandlerHolds
<1>4. \A p \in Pools : pool'[p] = PoolsAfterGet({p})[p]
  BY DEF LoopGet, PoolsAfterGet
<1>5. /\ AllocatedBuffers \subseteq AllocatedBuffers'
      /\ \A b \in AllocatedBuffers' \ AllocatedBuffers : \E p \in Pools : b = Taken(p)
  BY GetAllocated DEF LoopGet
<1>6. ASSUME NEW b \in AllocatedBuffers', b \notin T
      PROVE  b \in AllocatedBuffers /\ OwnerOf'[b] = OwnerOf[b]
  <2>1. b \in AllocatedBuffers
    BY <1>1, <1>5, <1>6
  <2>2. b \in Buffers /\ b[1] \in Pools
    BY <2>1 DEF Places, Buffers
  <2>3. b # Taken(b[1])
    BY <1>1, <1>6, <2>2
  <2>4. (b \in Elems(pool[b[1]])) <=> (b \in Elems(pool'[b[1]]))
    BY <1>4, <2>2, <2>3, GetElems
  <2>5. QED
    BY <1>2, <1>3, <1>6, <2>1, <2>4, SamePlace
<1>7. ASSUME NEW b \in T
      PROVE  Ownership!Takes(o, b)
  <2>1. PICK p \in Pools : b = Taken(p)
    BY <1>1
  <2>2. /\ b[1] = p
        /\ \/ b \notin AllocatedBuffers
           \/ b \in Elems(pool[p]) /\ Free(b)
    BY <2>1, TakenFresh
  <2>3. b \in LoopHolds'
    BY <1>2
  <2>4. b \in AllocatedBuffers'
    BY <2>3 DEF Places
  <2>5. Holds(o, b)'
    BY <2>3 DEF Holds
  <2>6. QED
    BY <1>0, <2>2, <2>4, <2>5, BufferTaken
<1>8. QED
  BY <1>0, <1>1, <1>5, <1>6, <1>7, OwnerStep

\* The loop hands both its buffers to the handler of a new datagram: a
\* step of the loop that hands them on.
LEMMA LoopReceiveOwner ==
  ASSUME IInv, Places, Places', lpc = "read", NEW d \in Datagrams \ recv,
         hbuf' = [hbuf EXCEPT ![d] = lbuf],
         hoob' = [hoob EXCEPT ![d] = loob],
         lbuf' = None, loob' = None,
         UNCHANGED <<pool, nalloc, hnew>>
  PROVE  Ownership!Next
<1> DEFINE o == LoopOwner
<1>0. o \in OwnerSet /\ HandlerOwner(d) \in OwnerSet \ {o}
  BY PlacesDistinct DEF OwnerSet
<1>1. hbuf[d] = None /\ hoob[d] = None /\ hnew[d] = None
  BY DEF IInv, Holding
<1>2. /\ HandlerHolds(d) = {} /\ HandlerHolds(d)' = LoopHolds
      /\ \A e \in Datagrams \ {d} : HandlerHolds(e)' = HandlerHolds(e)
      /\ LoopHolds' = {}
  BY <1>1 DEF HandlerHolds, LoopHolds, IInv, TypeOK
<1>3. AllocatedBuffers' = AllocatedBuffers
  BY DEF AllocatedBuffers
<1>4. ASSUME NEW b \in AllocatedBuffers, b \notin LoopHolds
      PROVE  OwnerOf'[b] = OwnerOf[b]
  BY <1>2, <1>3, <1>4, SamePlace
<1>5. ASSUME NEW b \in LoopHolds
      PROVE  Ownership!Hands(o, b)
  <2>1. b \in AllocatedBuffers
    BY DEF Places
  <2>2. Holds(o, b) /\ Holds(HandlerOwner(d), b)'
    BY <1>2 DEF Holds
  <2>3. QED
    BY <1>0, <1>3, <2>1, <2>2, BufferHanded
<1>6. QED
  BY <1>0, <1>3, <1>4, <1>5, OwnerStep

\* The loop puts both its buffers back after a failed read: a step of the
\* loop that gives them back.
LEMMA LoopReturnOwner ==
  ASSUME IInv, Places, Places', lpc = "read",
         pool' = [p \in Pools |->
                    Returned(pool[p], IF p = "udp" THEN lbuf ELSE loob)],
         lbuf' = None, loob' = None,
         UNCHANGED <<nalloc, hbuf, hoob, hnew>>
  PROVE  Ownership!Next
<1> USE ProxyClientAssumption
<1> DEFINE o == LoopOwner
           Back(p) == IF p = "udp" THEN lbuf ELSE loob
<1>0. o \in OwnerSet
  BY DEF OwnerSet
<1>1. /\ \A p \in Pools : Back(p) \in Buffers /\ pool[p] \in Seq(Buffers)
      /\ LoopHolds = {lbuf, loob}
  BY DEF IInv, Holding, TypeOK, Held, LoopHolds, Pools
<1>2. /\ \A e \in Datagrams : HandlerHolds(e)' = HandlerHolds(e)
      /\ LoopHolds' = {}
      /\ AllocatedBuffers' = AllocatedBuffers
  BY DEF HandlerHolds, LoopHolds, AllocatedBuffers
<1>3. ASSUME NEW b \in AllocatedBuffers, b \notin LoopHolds
      PROVE  OwnerOf'[b] = OwnerOf[b]
  <2>1. b \in Buffers /\ b[1] \in Pools
    BY DEF Places, Buffers
  <2>2. b # Back(b[1])
    BY <1>1, <1>3
  <2>3. /\ Elems(pool[b[1]]) \subseteq Elems(Returned(pool[b[1]], Back(b[1])))
        /\ Elems(Returned(pool[b[1]], Back(b[1]))) \subseteq Elems(pool[b[1]]) \cup {Back(b[1])}
    BY <1>1, <2>1, ReturnedElems
  <2>4. (b \in Elems(pool[b[1]])) <=> (b \in Elems(pool'[b[1]]))
    BY <2>1, <2>2, <2>3
  <2>5. QED
    BY <1>2, <1>3, <2>4, SamePlace
<1>4. ASSUME NEW b \in LoopHolds
      PROVE  Ownership!Returns(o, b)
  <2>1. b \in AllocatedBuffers
    BY DEF Places
  <2>2. Holds(o, b)
    BY DEF Holds
  <2>3. Free(b)'
    BY <1>2 DEF IInv, BufferExclusive, Free
  <2>4. QED
    BY <1>0, <1>2, <2>1, <2>2, <2>3, BufferReturned
<1>5. QED
  BY <1>0, <1>2, <1>3, <1>4, OwnerStep

\* RelayUDPData borrows a buffer from the payload pool: a step of the
\* handler that takes it (and gives back one it held there before, if any).
LEMMA RelayGetOwner ==
  ASSUME IInv, Places, Places', NEW d \in Datagrams,
         hnew' = [hnew EXCEPT ![d] = Taken("udp")],
         pool' = PoolsAfterGet({"udp"}), nalloc' = NallocAfterGet({"udp"}),
         UNCHANGED <<lbuf, loob, hbuf, hoob>>
  PROVE  Ownership!Next
<1> USE ProxyClientAssumption
<1> DEFINE o == HandlerOwner(d)
           U == Taken("udp")
<1>0. o \in OwnerSet
  BY DEF OwnerSet
<1>1. "udp" \in Pools /\ "oob" \in Pools /\ Pools = {"udp", "oob"} /\ "udp" # "oob"
  BY DEF Pools
<1>2. /\ U \in Buffers /\ U[1] = "udp"
      /\ \/ U \notin AllocatedBuffers
         \/ U \in Elems(pool["udp"]) /\ Free(U)
      /\ U \notin LoopHolds /\ \A e \in Datagrams : U \notin HandlerHolds(e)
  BY <1>1, TakenFresh, GetLemma
<1>3. /\ hnew[d] # None => hnew[d] # hbuf[d] /\ hnew[d] # hoob[d]
      /\ hbuf[d] \in Held /\ hoob[d] \in Held /\ hnew[d] \in Held
  BY HolderLemma DEF IInv, TypeOK
<1>4. /\ HandlerHolds(d)' = {hbuf[d], hoob[d], U} \ {None}
      /\ \A e \in Datagrams \ {d} : HandlerHolds(e)' = HandlerHolds(e)
      /\ LoopHolds' = LoopHolds
  BY DEF HandlerHolds, LoopHolds, IInv, TypeOK
<1>5. /\ AllocatedBuffers \subseteq AllocatedBuffers'
      /\ \A b \in AllocatedBuffers' \ AllocatedBuffers : b = U
  BY <1>1, GetAllocated
<1>6. ASSUME NEW b \in AllocatedBuffers', b # U, b # hnew[d]
      PROVE  b \in AllocatedBuffers /\ OwnerOf'[b] = OwnerOf[b]
  <2>1. b \in AllocatedBuffers
    BY <1>5, <1>6
  <2>2. b \in Buffers /\ b[1] \in Pools
    BY <2>1 DEF Places, Buffers
  <2>3. (b \in Elems(pool[b[1]])) <=> (b \in Elems(pool'[b[1]]))
    <3>1. CASE b[1] = "udp"
      BY <1>6, <2>2, <3>1, GetElems
    <3>2. CASE b[1] = "oob"
      BY <1>1, <3>2 DEF PoolsAfterGet
    <3>3. QED
      BY <1>1, <2>2, <3>1, <3>2
  <2>4. (b \in HandlerHolds(d)) <=> (b \in HandlerHolds(d)')
    BY <1>4, <1>6, <2>2 DEF HandlerHolds
  <2>5. \A e \in Datagrams : (b \in HandlerHolds(e)) <=> (b \in HandlerHolds(e)')
    BY <1>4, <2>4
  <2>6. QED
    BY <1>4, <2>1, <2>3, <2>5, SamePlace
<1>7. ASSUME NEW b, b = U
      PROVE  Ownership!Takes(o, b)
  <2>1. b \in HandlerHolds(d)'
    BY <1>2, <1>4, <1>7
  <2>2. b \in AllocatedBuffers'
    BY <2>1 DEF Places
  <2>3. Holds(o, b)'
    BY <2>1 DEF Holds
  <2>4. QED
    BY <1>0, <1>2, <1>7, <2>2, <2>3, BufferTaken
<1>8. ASSUME NEW b \in AllocatedBuffers', b # U, b = hnew[d]
      PROVE  Ownership!Returns(o, b)
  <2>0. b \in Buffers
    BY DEF Places
  <2>1. b \in HandlerHolds(d) /\ b \in AllocatedBuffers
    <3>1. b \in HandlerHolds(d)
      BY <1>8, <2>0 DEF HandlerHolds
    <3>2. QED
      BY <3>1 DEF Places
  <2>2. b \notin HandlerHolds(d)'
    BY <1>3, <1>4, <1>8
  <2>3. Free(b)'
    BY <1>4, <2>1, <2>2 DEF IInv, BufferExclusive, Free
  <2>4. Holds(o, b)
    BY <2>1 DEF Holds
  <2>5. QED
    BY <1>0, <1>8, <2>1, <2>3, <2>4, BufferReturned
<1>9. QED
  BY <1>0, <1>5, <1>6, <1>7, <1>8, OwnerStep

\* A handler's Put of buffer x, which it holds apart from its other two.
LEMMA HandlerPutOwner ==
  ASSUME IInv, Places, Places', NEW d \in Datagrams,
         NEW x \in Buffers, x \in {hbuf[d], hoob[d], hnew[d]},
         pool' = PutBack(x),
         UNCHANGED <<nalloc, lbuf, loob>>,
         \A e \in Datagrams \ {d} :
           hbuf'[e] = hbuf[e] /\ hoob'[e] = hoob[e] /\ hnew'[e] = hnew[e],
         hbuf'[d] = IF hbuf[d] = x THEN None ELSE hbuf[d],
         hoob'[d] = IF hoob[d] = x THEN None ELSE hoob[d],
         hnew'[d] = IF hnew[d] = x THEN None ELSE hnew[d]
  PROVE  Ownership!Next
<1>1. x \in HandlerHolds(d)
  BY ProxyClientAssumption DEF HandlerHolds
<1>2. HandlerHolds(d)' = HandlerHolds(d) \ {x}
  BY DEF HandlerHolds
<1>3. QED
  BY <1>1, <1>2, HandlerReturn

\* Every step of ProxyClient is a step of one goroutine of
\* BufferOwnership, or leaves every buffer where it was.
LEMMA RefineStep ==
  ASSUME IInv, Places, Places', [Next]_vars
  PROVE  [Ownership!Next]_OwnerOf
<1> USE ProxyClientAssumption
<1>0. /\ TypeOK
      /\ "udp" \in Pools /\ "oob" \in Pools
  BY DEF IInv, Pools
<1>1. CASE StartUDP
  BY <1>1, QuietOwner DEF StartUDP
<1>2. CASE LoopGet
  BY <1>2, LoopGetOwner
<1>3. CASE LoopRead
  <2>1. CASE /\ udpOpen
             /\ \E d \in Datagrams \ recv :
                  /\ recv' = recv \cup {d}
                  /\ hpc' = [hpc EXCEPT ![d] = "extract"]
                  /\ hbuf' = [hbuf EXCEPT ![d] = lbuf]
                  /\ hoob' = [hoob EXCEPT ![d] = loob]
             /\ lpc' = "get"
             /\ UNCHANGED <<pool, errs, aerrs>>
    <3>1. PICK d \in Datagrams \ recv :
                  /\ hbuf' = [hbuf EXCEPT ![d] = lbuf]
                  /\ hoob' = [hoob EXCEPT ![d] = loob]
      BY <2>1
    <3>2. QED
      BY <1>3, <2>1, <3>1, LoopReceiveOwner DEF LoopRead
  <2>2. CASE /\ pool' = [p \in Pools |->
                          Returned(pool[p], IF p = "udp" THEN lbuf ELSE loob)]
             /\ UNCHANGED <<hbuf, hoob>>
    BY <1>3, <2>2, LoopReturnOwner DEF LoopRead
  <2>3. QED
    BY <1>3, <2>1, <2>2 DEF LoopRead
<1>4. ASSUME NEW d \in Datagrams, HandleUDP(d) PROVE [Ownership!Next]_OwnerOf
  <2>0. /\ hbuf[d] \in Held /\ hoob[d] \in Held /\ hnew[d] \in Held
        /\ hbuf \in [Datagrams -> Held] /\ hoob \in [Datagrams -> Held]
        /\ hnew \in [Datagrams -> Held]
    BY <1>0 DEF TypeOK
  <2>h. /\ hbuf[d] # None => hbuf[d] # hoob[d] /\ hbuf[d] # hnew[d]
        /\ hoob[d] # None => hoob[d] # hbuf[d] /\ hoob[d] # hnew[d]
        /\ hnew[d] # None => hnew[d] # hbuf[d] /\ hnew[d] # hoob[d]
    BY HolderLemma
  <2>1. CASE HandleExtract(d)
    <3>1. hoob[d] # None /\ hoob[d] \in Buffers
      BY <2>0, <2>1 DEF HandleExtract, IInv, Holding, Held
    <3>2. QED
      BY <2>0, <2>1, <2>h, <3>1, HandlerPutOwner DEF HandleExtract
  <2>2. CASE HandleLen(d) \/ HandleIndex(d) \/ (RelayGet(d) /\ big[d])
    BY <2>2, QuietOwner DEF HandleLen, HandleIndex, RelayGet
  <2>3. CASE RelayGet(d) /\ ~big[d]
    BY <2>3, RelayGetOwner DEF RelayGet
  <2>4. CASE RelayPut(d) /\ hnew[d] = None
    <3>1. hnew' = hnew
      BY <2>0, <2>4 DEF RelayPut
    <3>2. QED
      BY <2>4, <3>1, QuietOwner DEF RelayPut
  <2>5. CASE RelayPut(d) /\ hnew[d] # None
    <3>1. hnew[d] \in Buffers
      BY <2>0, <2>5 DEF Held
    <3>2. QED
      BY <2>0, <2>5, <2>h, <3>1, HandlerPutOwner DEF RelayPut
  <2>6. CASE HandlePut(d)
    <3>1. hbuf[d] # None /\ hbuf[d] \in Buffers
      BY <2>0, <2>6 DEF HandlePut, IInv, Holding, Held
    <3>2. QED
      BY <2>0, <2>6, <2>h, <3>1, HandlerPutOwner DEF HandlePut
  <2>7. QED
    BY <1>4, <2>1, <2>2, <2>3, <2>4, <2>5, <2>6 DEF HandleUDP
<1>5. CASE AcceptTCP \/ (\E t \in TcpConns : HandleTCP(t)) \/ Stop
  BY <1>5, QuietOwner DEF AcceptTCP, HandleTCP, TcpLen, TcpIndex, TcpRelayData,
                          Stop, StopCloseTCP, StopCloseUDP, StopClear
<1>6. CASE Terminated \/ UNCHANGED vars
  BY <1>6, QuietOwner DEF Terminated, vars
<1>7. QED
  BY <1>1, <1>2, <1>3, <1>4, <1>5, <1>6 DEF Next, UdpLoop

-----------------------------------------------------------------------------
(* The refinement                                                          *)

\* Before the first Get no buffer is allocated.
LEMMA InitOwner == Init => Ownership!Init
<1> SUFFICES ASSUME Init PROVE Ownership!Init
  OBVIOUS
<1>1. AllocatedBuffers = {}
  BY DEF Init, AllocatedBuffers
<1>2. QED
  BY <1>1 DEF OwnerOf, Ownership!Init

\* RefinesBufferOwnership for every set of datagrams and connections and
\* every pool size: each step of the receive loop, of a handleUDP
\* goroutine or of its RelayUDPData takes only pooled or new buffers,
\* gives back or hands on only buffers that goroutine holds, and no
\* dropped buffer is used again; every other step moves no buffer.
THEOREM RefinesBufferOwnershipSafety == Spec => RefinesBufferOwnership
<1>1. Init => Ownership!Init
  BY InitOwner
<1>2. IInv => Places
  BY PlacesLemma
<1>3. IInv /\ Places /\ Places' /\ [Next]_vars => [Ownership!Next]_OwnerOf
  BY RefineStep
<1>4. QED
  BY <1>1, <1>2, <1>3, InitIInv, IInvStep, PTL
     DEF Spec, RefinesBufferOwnership, Ownership!Spec

=============================================================================
