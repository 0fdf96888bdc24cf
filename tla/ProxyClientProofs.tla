------------------------- MODULE ProxyClientProofs -------------------------
(***************************************************************************)
(* Proofs about the buffer pools of ProxyClient, for every set of          *)
(* datagrams and connections and every pool size.                          *)
(***************************************************************************)
EXTENDS ProxyClient, SequenceTheorems, TLAPS

\* Buffer b came from pool p and has been allocated.
FromPool(b, p) == b[1] = p /\ b[2] \in 1..nalloc[p]

\* The strengthening of BufferExclusive.  Every buffer held or pooled came
\* from its own pool and was allocated already, so a new allocation is no
\* one's; the loop holds its two buffers exactly while it reads; a datagram
\* not yet received has no handler, and a handler that does not exist holds
\* nothing; a handler holds its payload buffer until its deferred Put and
\* its oob buffer while it extracts the destination.
Allocated ==
  /\ \A p \in Pools : \A b \in Elems(pool[p]) : FromPool(b, p)
  /\ lbuf # None => FromPool(lbuf, "udp")
  /\ loob # None => FromPool(loob, "oob")
  /\ \A d \in Datagrams :
       /\ hbuf[d] # None => FromPool(hbuf[d], "udp")
       /\ hoob[d] # None => FromPool(hoob[d], "oob")
       /\ hnew[d] # None => FromPool(hnew[d], "udp")

Holding ==
  /\ lpc = "read" => lbuf # None /\ loob # None
  /\ lpc # "read" => lbuf = None /\ loob = None
  /\ \A d \in Datagrams :
       /\ d \notin recv => hpc[d] = "unborn"
       /\ hpc[d] = "unborn" => hbuf[d] = None /\ hoob[d] = None /\ hnew[d] = None
       /\ hpc[d] \in {"extract", "len", "index", "relayGet", "relayPut", "put"}
            => hbuf[d] # None
       /\ hpc[d] = "extract" => hoob[d] # None
       /\ hpc[d] # "extract" => hoob[d] = None
       /\ hpc[d] # "relayPut" => hnew[d] = None
       /\ hpc[d] = "done" => hbuf[d] = None

IInv == TypeOK /\ BufferExclusive /\ Allocated /\ Holding


-----------------------------------------------------------------------------
(* Lemmas about the pools as sequences without duplicates                  *)

\* Taking the head of a pool leaves the other buffers, none twice.
LEMMA TailLemma ==
  ASSUME NEW S, NEW s \in Seq(S), s # <<>>, NoDup(s)
  PROVE  /\ Tail(s) \in Seq(S)
         /\ NoDup(Tail(s))
         /\ Head(s) \in Elems(s)
         /\ Elems(Tail(s)) = Elems(s) \ {Head(s)}
<1>1. /\ Tail(s) \in Seq(S)
      /\ Len(Tail(s)) = Len(s) - 1
      /\ \A i \in 1..Len(Tail(s)) : Tail(s)[i] = s[i + 1]
      /\ DOMAIN s = 1..Len(s)
      /\ Len(s) \in Nat \ {0}
  BY HeadTailProperties, LenProperties, EmptySeq
<1>2. DOMAIN Tail(s) = 1..Len(s) - 1
  BY <1>1, LenProperties
<1>3. Head(s) = s[1]
  OBVIOUS
<1>4. NoDup(Tail(s))
  BY <1>1, <1>2 DEF NoDup
<1>5. Elems(Tail(s)) = Elems(s) \ {Head(s)}
  <2>1. ASSUME NEW i \in DOMAIN Tail(s)
        PROVE  Tail(s)[i] \in Elems(s) \ {Head(s)}
    <3>1. i + 1 \in DOMAIN s /\ i + 1 # 1 /\ Tail(s)[i] = s[i + 1]
      BY <1>1, <1>2
    <3>2. QED
      BY <3>1, <1>1, <1>3 DEF NoDup, Elems
  <2>2. ASSUME NEW j \in DOMAIN s, s[j] # Head(s)
        PROVE  s[j] \in Elems(Tail(s))
    <3>1. j # 1 /\ j - 1 \in DOMAIN Tail(s) /\ Tail(s)[j - 1] = s[j]
      BY <2>2, <1>1, <1>2, <1>3
    <3>2. QED
      BY <3>1 DEF Elems
  <2>3. QED
    BY <2>1, <2>2 DEF Elems
<1>6. Head(s) \in Elems(s)
  <2>1. 1 \in DOMAIN s
    BY <1>1
  <2>2. QED
    BY <2>1, <1>3 DEF Elems
<1>7. QED
  BY <1>1, <1>4, <1>5, <1>6

\* Putting back a buffer the pool does not hold keeps it free of
\* duplicates, whether the buffer is kept or dropped.
LEMMA ReturnedLemma ==
  ASSUME NEW s \in Seq(Buffers), NEW b \in Buffers, NoDup(s), b \notin Elems(s)
  PROVE  /\ Returned(s, b) \in Seq(Buffers)
         /\ NoDup(Returned(s, b))
         /\ Elems(Returned(s, b)) \subseteq Elems(s) \cup {b}
<1>1. CASE Len(s) < PoolSize
  <2>1. /\ Append(s, b) \in Seq(Buffers)
        /\ Len(Append(s, b)) = Len(s) + 1
        /\ \A i \in 1..Len(s) : Append(s, b)[i] = s[i]
        /\ Append(s, b)[Len(s) + 1] = b
        /\ DOMAIN s = 1..Len(s)
        /\ Len(s) \in Nat
    BY AppendProperties, LenProperties
  <2>2. DOMAIN Append(s, b) = 1..Len(s) + 1
    BY <2>1, LenProperties
  <2>3. QED
    BY <1>1, <2>1, <2>2 DEF Returned, NoDup, Elems
<1>2. CASE ~(Len(s) < PoolSize)
  BY <1>2 DEF Returned
<1>3. QED
  BY <1>1, <1>2


\* A Get from pool p hands out a buffer of p that no goroutine holds and
\* the rest of the pool does not hold: the head of a pool is owned by the
\* pool alone, and a new allocation is numbered past every buffer so far.
LEMMA GetLemma ==
  ASSUME IInv, NEW p \in Pools
  PROVE  /\ Taken(p) \in Buffers
         /\ Taken(p)[1] = p
         /\ Taken(p)[2] \in 1..NallocAfterGet({p})[p]
         /\ NallocAfterGet({p})[p] \in Nat
         /\ nalloc[p] <= NallocAfterGet({p})[p]
         /\ PoolsAfterGet({p})[p] \in Seq(Buffers)
         /\ NoDup(PoolsAfterGet({p})[p])
         /\ Elems(PoolsAfterGet({p})[p]) \subseteq Elems(pool[p])
         /\ Taken(p) \notin Elems(PoolsAfterGet({p})[p])
         /\ Taken(p) \notin LoopHolds
         /\ \A d \in Datagrams : Taken(p) \notin HandlerHolds(d)
         /\ \A q \in Pools \ {p} : Taken(p) \notin Elems(pool[q])
<1> USE ProxyClientAssumption
<1>1. CASE pool[p] # <<>>
  <2>1. /\ Tail(pool[p]) \in Seq(Buffers)
        /\ NoDup(Tail(pool[p]))
        /\ Head(pool[p]) \in Elems(pool[p])
        /\ Elems(Tail(pool[p])) = Elems(pool[p]) \ {Head(pool[p])}
    BY <1>1, TailLemma DEF IInv, Allocated, Holding, TypeOK, BufferExclusive
  <2>2. /\ Taken(p) = Head(pool[p])
        /\ PoolsAfterGet({p})[p] = Tail(pool[p])
        /\ NallocAfterGet({p})[p] = nalloc[p]
    BY <1>1 DEF Taken, PoolsAfterGet, NallocAfterGet
  <2>3. FromPool(Head(pool[p]), p)
    BY <2>1 DEF IInv, Allocated, Holding
  <2>4. Head(pool[p]) \notin LoopHolds
        /\ \A d \in Datagrams : Head(pool[p]) \notin HandlerHolds(d)
    BY <2>1 DEF IInv, Allocated, Holding, BufferExclusive
  <2>5. \A q \in Pools \ {p} : Head(pool[p]) \notin Elems(pool[q])
    BY <2>3 DEF IInv, Allocated, Holding, FromPool
  <2>6. Head(pool[p]) \in Buffers /\ nalloc[p] \in Nat
    BY <2>1 DEF Elems, IInv, TypeOK
  <2>7. Taken(p)[2] \in 1..NallocAfterGet({p})[p]
    BY <2>2, <2>3 DEF FromPool
  <2>8. /\ PoolsAfterGet({p})[p] \in Seq(Buffers)
        /\ NoDup(PoolsAfterGet({p})[p])
        /\ Elems(PoolsAfterGet({p})[p]) \subseteq Elems(pool[p])
        /\ Taken(p) \notin Elems(PoolsAfterGet({p})[p])
    BY <2>1, <2>2
  <2>9. /\ Taken(p) \notin LoopHolds
        /\ \A d \in Datagrams : Taken(p) \notin HandlerHolds(d)
        /\ \A q \in Pools \ {p} : Taken(p) \notin Elems(pool[q])
    BY <2>2, <2>4, <2>5
  <2>10. /\ Taken(p) \in Buffers /\ Taken(p)[1] = p
         /\ NallocAfterGet({p})[p] \in Nat
         /\ nalloc[p] <= NallocAfterGet({p})[p]
    BY <2>2, <2>3, <2>6 DEF FromPool
  <2>11. QED
    BY <2>7, <2>8, <2>9, <2>10
<1>2. CASE pool[p] = <<>>
  <2>1. /\ Taken(p) = <<p, nalloc[p] + 1>>
        /\ PoolsAfterGet({p})[p] = <<>>
        /\ NallocAfterGet({p})[p] = nalloc[p] + 1
    BY <1>2 DEF Taken, PoolsAfterGet, NallocAfterGet
  <2>2. nalloc[p] \in Nat
    BY DEF IInv, Allocated, Holding, TypeOK
  <2>3. Taken(p) \notin LoopHolds
    BY <2>1, <2>2 DEF IInv, Allocated, Holding, TypeOK, FromPool, LoopHolds
  <2>4. \A d \in Datagrams : Taken(p) \notin HandlerHolds(d)
    <3> SUFFICES ASSUME NEW d \in Datagrams PROVE Taken(p) \notin HandlerHolds(d)
      OBVIOUS
    <3>1. hbuf[d] # None => FromPool(hbuf[d], "udp")
      BY DEF IInv, Allocated, Holding
    <3>2. hoob[d] # None => FromPool(hoob[d], "oob")
      BY DEF IInv, Allocated, Holding
    <3>3. hnew[d] # None => FromPool(hnew[d], "udp")
      BY DEF IInv, Allocated, Holding
    <3>4. QED
      BY <2>1, <2>2, <3>1, <3>2, <3>3 DEF FromPool, HandlerHolds
  <2>5. \A q \in Pools \ {p} : Taken(p) \notin Elems(pool[q])
    BY <2>1 DEF IInv, Allocated, Holding, FromPool
  <2>6. <<>> \in Seq(Buffers) /\ NoDup(<<>>) /\ Elems(<<>>) = {}
    BY DEF NoDup, Elems
  <2>7. Taken(p) \in Buffers /\ Taken(p)[1] = p
        /\ Taken(p)[2] \in 1..NallocAfterGet({p})[p]
    BY <2>1, <2>2 DEF Buffers
  <2>8. /\ PoolsAfterGet({p})[p] \in Seq(Buffers)
        /\ NoDup(PoolsAfterGet({p})[p])
        /\ Elems(PoolsAfterGet({p})[p]) \subseteq Elems(pool[p])
        /\ Taken(p) \notin Elems(PoolsAfterGet({p})[p])
    BY <2>1, <2>6
  <2>9. NallocAfterGet({p})[p] \in Nat /\ nalloc[p] <= NallocAfterGet({p})[p]
    BY <2>1, <2>2
  <2>10. QED
    BY <2>3, <2>4, <2>5, <2>7, <2>8, <2>9
<1>3. QED
  BY <1>1, <1>2


\* Putting back a buffer that its pool does not hold changes only that
\* pool, which then holds, besides what it held, at most that buffer.
LEMMA PutLemma ==
  ASSUME IInv, NEW b \in Buffers, b[1] \in Pools, b \notin Elems(pool[b[1]])
  PROVE  /\ PutBack(b)[b[1]] \in Seq(Buffers)
         /\ NoDup(PutBack(b)[b[1]])
         /\ Elems(PutBack(b)[b[1]]) \subseteq Elems(pool[b[1]]) \cup {b}
         /\ \A q \in Pools \ {b[1]} : PutBack(b)[q] = pool[q]
         /\ PutBack(b) \in [Pools -> Seq(Buffers)]
<1>1. pool[b[1]] \in Seq(Buffers) /\ NoDup(pool[b[1]])
  BY DEF IInv, Allocated, Holding, TypeOK, BufferExclusive
<1>2. /\ Returned(pool[b[1]], b) \in Seq(Buffers)
      /\ NoDup(Returned(pool[b[1]], b))
      /\ Elems(Returned(pool[b[1]], b)) \subseteq Elems(pool[b[1]]) \cup {b}
  BY <1>1, ReturnedLemma
<1>3. PutBack(b) = [pool EXCEPT ![b[1]] = Returned(pool[b[1]], b)]
  BY DEF PutBack
<1>4. QED
  BY <1>2, <1>3 DEF IInv, Allocated, Holding, TypeOK

-----------------------------------------------------------------------------
(* The invariant                                                           *)

\* The initial state has no buffer yet.
LEMMA InitIInv == Init => IInv
<1> SUFFICES ASSUME Init PROVE IInv
  OBVIOUS
<1> USE ProxyClientAssumption
<1>1. TypeOK
  <2>1. pool \in [Pools -> Seq(Buffers)] /\ nalloc \in [Pools -> Nat]
    BY EmptySeq DEF Init
  <2>2. /\ lbuf \in Held /\ loob \in Held
        /\ hbuf \in [Datagrams -> Held] /\ hoob \in [Datagrams -> Held]
        /\ hnew \in [Datagrams -> Held]
    BY DEF Init, Held
  <2>3. errs \in 0..MaxReadErrors /\ aerrs \in 0..MaxReadErrors
    BY DEF Init
  <2>4. /\ hpc \in [Datagrams -> HandlerPCs] /\ tpc \in [TcpConns -> TcpPCs]
        /\ spc \in StopPCs /\ lpc \in LoopPCs
    BY DEF Init, LoopPCs, HandlerPCs, TcpPCs, StopPCs
  <2>5. QED
    BY <2>1, <2>2, <2>3, <2>4 DEF Init, TypeOK
<1>2. BufferExclusive
  BY DEF Init, BufferExclusive, NoDup, Elems, LoopHolds, HandlerHolds
<1>3. Allocated
  BY DEF Init, Allocated, Elems
<1>4. Holding
  BY DEF Init, Holding
<1>5. QED
  BY <1>1, <1>2, <1>3, <1>4 DEF IInv

\* The steps that leave the pools and every buffer holder alone.
LEMMA QuietStep ==
  ASSUME IInv,
         UNCHANGED <<pool, nalloc, lbuf, loob, hbuf, hoob, hnew, lpc, recv>>,
         TypeOK',
         \A d \in Datagrams : hpc'[d] # hpc[d] =>
           /\ hpc[d] \in {"len", "index", "relayGet", "relayPut"}
           /\ hpc'[d] \in {"index", "relayGet", "relayPut", "put"}
           /\ hpc[d] = "relayPut" => hnew[d] = None
  PROVE  IInv'
<1>0. /\ pool' = pool /\ nalloc' = nalloc /\ lbuf' = lbuf /\ loob' = loob
      /\ hbuf' = hbuf /\ hoob' = hoob /\ hnew' = hnew /\ lpc' = lpc
      /\ recv' = recv
  OBVIOUS
<1>1. BufferExclusive'
  BY <1>0 DEF IInv, BufferExclusive, LoopHolds, HandlerHolds
<1>2. Allocated'
  BY <1>0 DEF IInv, Allocated, FromPool
<1>3. Holding'
  BY <1>0 DEF IInv, Holding
<1>4. QED
  BY <1>1, <1>2, <1>3 DEF IInv


\* The UDP loop takes one buffer from each pool.
LEMMA LoopGetStep ==
  ASSUME IInv, LoopGet
  PROVE  IInv'
<1> USE ProxyClientAssumption
<1> DEFINE U == Taken("udp")
           O == Taken("oob")
<1>1. lbuf = None /\ loob = None
  BY DEF LoopGet, IInv, Holding
<1>2. \A p \in Pools :
        /\ pool'[p] = PoolsAfterGet({p})[p]
        /\ nalloc'[p] = NallocAfterGet({p})[p]
  BY DEF LoopGet, PoolsAfterGet, NallocAfterGet
<1>3. /\ "udp" \in Pools /\ "oob" \in Pools /\ "udp" # "oob"
      /\ Pools \ {"udp"} = {"oob"} /\ Pools \ {"oob"} = {"udp"}
  BY DEF Pools
<1>4. \A p \in Pools :
        /\ Taken(p) \in Buffers
        /\ Taken(p)[1] = p
        /\ Taken(p)[2] \in 1..nalloc'[p]
        /\ nalloc'[p] \in Nat
        /\ nalloc[p] <= nalloc'[p]
        /\ pool'[p] \in Seq(Buffers)
        /\ NoDup(pool'[p])
        /\ Elems(pool'[p]) \subseteq Elems(pool[p])
        /\ Taken(p) \notin Elems(pool'[p])
        /\ Taken(p) \notin LoopHolds
        /\ \A d \in Datagrams : Taken(p) \notin HandlerHolds(d)
        /\ \A q \in Pools \ {p} : Taken(p) \notin Elems(pool[q])
  BY <1>2, GetLemma
<1>5. lbuf' = U /\ loob' = O /\ LoopHolds' = {U, O}
  <2>1. U \in Buffers /\ O \in Buffers
    BY <1>3, <1>4
  <2>2. QED
    BY <2>1 DEF LoopGet, LoopHolds
<1>6. UNCHANGED <<hbuf, hoob, hnew, hpc, recv>>
  BY DEF LoopGet
<1>7. TypeOK'
  <2>1. pool' \in [Pools -> Seq(Buffers)] /\ nalloc' \in [Pools -> Nat]
    BY <1>4 DEF LoopGet, PoolsAfterGet, NallocAfterGet
  <2>2. QED
    BY <1>3, <1>4, <2>1 DEF LoopGet, IInv, TypeOK, Held, LoopPCs
<1>8. BufferExclusive'
  <2>1. ASSUME NEW p \in Pools
        PROVE  /\ NoDup(pool'[p])
               /\ Elems(pool'[p]) \cap LoopHolds' = {}
               /\ \A d \in Datagrams : Elems(pool'[p]) \cap HandlerHolds(d)' = {}
    <3>1. Elems(pool'[p]) \cap {U, O} = {}
      BY <1>3, <1>4
    <3>2. \A d \in Datagrams : Elems(pool[p]) \cap HandlerHolds(d) = {}
      BY DEF IInv, BufferExclusive
    <3>3. \A d \in Datagrams : HandlerHolds(d)' = HandlerHolds(d)
      BY <1>6 DEF HandlerHolds
    <3>4. QED
      BY <1>4, <1>5, <3>1, <3>2, <3>3
  <2>2. \A d \in Datagrams : LoopHolds' \cap HandlerHolds(d)' = {}
    <3>1. \A d \in Datagrams : HandlerHolds(d)' = HandlerHolds(d)
      BY <1>6 DEF HandlerHolds
    <3>2. QED
      BY <1>3, <1>4, <1>5, <3>1
  <2>3. /\ \A d, e \in Datagrams : d # e => HandlerHolds(d)' \cap HandlerHolds(e)' = {}
        /\ \A d \in Datagrams : hnew'[d] # None => hnew'[d] # hbuf'[d]
    BY <1>6 DEF IInv, BufferExclusive, HandlerHolds
  <2>4. QED
    BY <2>1, <2>2, <2>3 DEF BufferExclusive
<1>9. Allocated'
  <2>0. \A p \in Pools : 1..nalloc[p] \subseteq 1..nalloc'[p]
    BY <1>4 DEF IInv, TypeOK
  <2>1. \A p \in Pools : \A b \in Elems(pool'[p]) : b[1] = p /\ b[2] \in 1..nalloc'[p]
    <3> SUFFICES ASSUME NEW p \in Pools, NEW b \in Elems(pool'[p])
                 PROVE  b[1] = p /\ b[2] \in 1..nalloc'[p]
      OBVIOUS
    <3>1. b \in Elems(pool[p])
      BY <1>4
    <3>2. QED
      BY <2>0, <3>1 DEF IInv, Allocated, FromPool
  <2>2. /\ lbuf' # None => lbuf'[1] = "udp" /\ lbuf'[2] \in 1..nalloc'["udp"]
        /\ loob' # None => loob'[1] = "oob" /\ loob'[2] \in 1..nalloc'["oob"]
    BY <1>3, <1>4, <1>5
  <2>3. \A d \in Datagrams :
          /\ hbuf'[d] # None => hbuf'[d][1] = "udp" /\ hbuf'[d][2] \in 1..nalloc'["udp"]
          /\ hoob'[d] # None => hoob'[d][1] = "oob" /\ hoob'[d][2] \in 1..nalloc'["oob"]
          /\ hnew'[d] # None => hnew'[d][1] = "udp" /\ hnew'[d][2] \in 1..nalloc'["udp"]
    BY <1>3, <1>6, <2>0 DEF IInv, Allocated, FromPool
  <2>4. QED
    BY <2>1, <2>2, <2>3 DEF Allocated, FromPool
<1>10. Holding'
  <2>1. lbuf' # None /\ loob' # None /\ lpc' = "read"
    BY <1>3, <1>4, <1>5 DEF LoopGet
  <2>2. QED
    BY <1>6, <2>1 DEF IInv, Holding
<1>11. QED
  BY <1>7, <1>8, <1>9, <1>10 DEF IInv


\* The UDP loop hands its two buffers to the handler of a new datagram.
LEMMA LoopReceiveStep ==
  ASSUME IInv, lpc = "read", NEW d \in Datagrams \ recv,
         recv' = recv \cup {d},
         hpc' = [hpc EXCEPT ![d] = "extract"],
         hbuf' = [hbuf EXCEPT ![d] = lbuf],
         hoob' = [hoob EXCEPT ![d] = loob],
         lpc' = "get", lbuf' = None, loob' = None,
         UNCHANGED <<pool, nalloc, hnew>>,
         TypeOK'
  PROVE  IInv'
<1>1. /\ hpc[d] = "unborn"
      /\ hbuf[d] = None /\ hoob[d] = None /\ hnew[d] = None
      /\ lbuf # None /\ loob # None
  BY DEF IInv, Holding
<1>2. /\ HandlerHolds(d)' = LoopHolds
      /\ \A e \in Datagrams \ {d} : HandlerHolds(e)' = HandlerHolds(e)
      /\ LoopHolds' = {}
  BY <1>1 DEF HandlerHolds, LoopHolds, IInv, TypeOK
<1>3. BufferExclusive'
  <2>1. \A e \in Datagrams : HandlerHolds(e) \cap HandlerHolds(d) = {}
    BY <1>1 DEF HandlerHolds
  <2>2. \A e \in Datagrams : hnew'[e] # None => hnew'[e] # hbuf'[e]
    BY <1>1 DEF IInv, BufferExclusive, TypeOK
  <2>3. QED
    BY <1>2, <2>1, <2>2 DEF IInv, BufferExclusive
<1>4. Allocated'
  BY <1>1 DEF IInv, Allocated, FromPool, TypeOK
<1>5. Holding'
  BY <1>1 DEF IInv, Holding, TypeOK
<1>6. QED
  BY <1>3, <1>4, <1>5 DEF IInv

\* The UDP loop puts both buffers back after a failed read.
LEMMA LoopReturnStep ==
  ASSUME IInv, lpc = "read",
         pool' = [p \in Pools |->
                    Returned(pool[p], IF p = "udp" THEN lbuf ELSE loob)],
         lbuf' = None, loob' = None, lpc' # "read",
         UNCHANGED <<nalloc, hbuf, hoob, hnew, hpc, recv>>,
         TypeOK'
  PROVE  IInv'
<1> USE ProxyClientAssumption
<1> DEFINE Back(p) == IF p = "udp" THEN lbuf ELSE loob
<1>1. \A p \in Pools :
        /\ Back(p) \in Buffers
        /\ Back(p) \in LoopHolds
        /\ Back(p)[1] = p /\ Back(p)[2] \in 1..nalloc[p]
        /\ Back(p) \notin Elems(pool[p])
  BY DEF IInv, Holding, Allocated, FromPool, TypeOK, Held, LoopHolds,
         BufferExclusive, Pools
<1>2. \A p \in Pools :
        /\ pool'[p] \in Seq(Buffers)
        /\ NoDup(pool'[p])
        /\ Elems(pool'[p]) \subseteq Elems(pool[p]) \cup {Back(p)}
  <2> SUFFICES ASSUME NEW p \in Pools
               PROVE  /\ pool'[p] \in Seq(Buffers)
                      /\ NoDup(pool'[p])
                      /\ Elems(pool'[p]) \subseteq Elems(pool[p]) \cup {Back(p)}
    OBVIOUS
  <2>1. pool[p] \in Seq(Buffers) /\ NoDup(pool[p])
    BY DEF IInv, TypeOK, BufferExclusive
  <2>2. pool'[p] = Returned(pool[p], Back(p))
    OBVIOUS
  <2>3. QED
    BY <1>1, <2>1, <2>2, ReturnedLemma
<1>3. BufferExclusive'
  <2>1. \A p \in Pools, e \in Datagrams : Elems(pool'[p]) \cap HandlerHolds(e) = {}
    BY <1>1, <1>2 DEF IInv, BufferExclusive
  <2>2. LoopHolds' = {}
    BY DEF LoopHolds
  <2>3. \A e \in Datagrams : HandlerHolds(e)' = HandlerHolds(e)
    BY DEF HandlerHolds
  <2>4. QED
    BY <1>2, <2>1, <2>2, <2>3 DEF IInv, BufferExclusive
<1>4. Allocated'
  BY <1>1, <1>2 DEF IInv, Allocated, FromPool
<1>5. Holding'
  BY DEF IInv, Holding
<1>6. QED
  BY <1>3, <1>4, <1>5 DEF IInv


\* A handler puts one of its buffers back into its pool and drops it,
\* holding otherwise what it held.
LEMMA HandlerPutStep ==
  ASSUME IInv, NEW d \in Datagrams, NEW b \in HandlerHolds(d),
         pool' = PutBack(b),
         UNCHANGED <<nalloc, lbuf, loob, lpc, recv>>,
         \A e \in Datagrams \ {d} :
           hbuf'[e] = hbuf[e] /\ hoob'[e] = hoob[e] /\ hnew'[e] = hnew[e],
         hbuf'[d] \in {hbuf[d], None}, hoob'[d] \in {hoob[d], None},
         hnew'[d] \in {hnew[d], None},
         b \notin HandlerHolds(d)',
         TypeOK', Holding'
  PROVE  IInv'
<1> USE ProxyClientAssumption
<1>1. /\ b \in Buffers /\ b[1] \in Pools /\ b[2] \in 1..nalloc[b[1]]
      /\ b \notin Elems(pool[b[1]])
  <2>1. b \in {hbuf[d], hoob[d], hnew[d]} /\ b # None
    BY DEF HandlerHolds
  <2>2. b \in Buffers
    BY <2>1 DEF IInv, TypeOK, Held
  <2>3. FromPool(b, b[1]) /\ b[1] \in Pools
    BY <2>1 DEF IInv, Allocated, FromPool, Pools
  <2>4. b \notin Elems(pool[b[1]])
    BY <2>3 DEF IInv, BufferExclusive
  <2>5. QED
    BY <2>2, <2>3, <2>4 DEF FromPool
<1>2. /\ PutBack(b)[b[1]] \in Seq(Buffers)
      /\ NoDup(PutBack(b)[b[1]])
      /\ Elems(PutBack(b)[b[1]]) \subseteq Elems(pool[b[1]]) \cup {b}
      /\ \A q \in Pools \ {b[1]} : PutBack(b)[q] = pool[q]
  BY <1>1, PutLemma
<1>3. \A p \in Pools : /\ NoDup(pool'[p])
                       /\ Elems(pool'[p]) \subseteq Elems(pool[p]) \cup {b}
  BY <1>2 DEF IInv, BufferExclusive
<1>4. /\ \A e \in Datagrams : HandlerHolds(e)' \subseteq HandlerHolds(e)
      /\ LoopHolds' = LoopHolds
  BY DEF HandlerHolds, LoopHolds
<1>5. /\ b \notin LoopHolds
      /\ \A e \in Datagrams \ {d} : b \notin HandlerHolds(e)
  BY DEF IInv, BufferExclusive
<1>6. BufferExclusive'
  <2>1. \A p \in Pools : Elems(pool'[p]) \cap LoopHolds' = {}
    BY <1>3, <1>4, <1>5 DEF IInv, BufferExclusive
  <2>2. \A p \in Pools, e \in Datagrams : Elems(pool'[p]) \cap HandlerHolds(e)' = {}
    BY <1>3, <1>4, <1>5 DEF IInv, BufferExclusive
  <2>3. /\ \A e \in Datagrams : LoopHolds' \cap HandlerHolds(e)' = {}
        /\ \A e, f \in Datagrams : e # f => HandlerHolds(e)' \cap HandlerHolds(f)' = {}
    BY <1>4 DEF IInv, BufferExclusive
  <2>4. \A e \in Datagrams : hnew'[e] # None => hnew'[e] # hbuf'[e]
    BY DEF IInv, BufferExclusive, HandlerHolds
  <2>5. QED
    BY <1>3, <2>1, <2>2, <2>3, <2>4 DEF BufferExclusive
<1>7. Allocated'
  <2>1. \A p \in Pools : \A c \in Elems(pool'[p]) : FromPool(c, p)'
    <3> SUFFICES ASSUME NEW p \in Pools, NEW c \in Elems(pool'[p])
                 PROVE  FromPool(c, p)'
      OBVIOUS
    <3>1. CASE p = b[1]
      BY <1>1, <1>3, <3>1 DEF IInv, Allocated, FromPool
    <3>2. CASE p # b[1]
      BY <1>2, <3>2 DEF IInv, Allocated, FromPool
    <3>3. QED
      BY <3>1, <3>2
  <2>2. QED
    BY <2>1 DEF IInv, Allocated, FromPool
<1>8. QED
  BY <1>6, <1>7 DEF IInv


\* RelayUDPData borrows a buffer from the payload pool.
LEMMA RelayBorrowStep ==
  ASSUME IInv, NEW d \in Datagrams, hpc[d] = "relayGet",
         hnew' = [hnew EXCEPT ![d] = Taken("udp")],
         pool' = PoolsAfterGet({"udp"}), nalloc' = NallocAfterGet({"udp"}),
         hpc' = [hpc EXCEPT ![d] = "relayPut"],
         UNCHANGED <<lbuf, loob, lpc, recv, hbuf, hoob>>,
         TypeOK'
  PROVE  IInv'
<1> USE ProxyClientAssumption
<1> DEFINE U == Taken("udp")
<1>1. /\ "udp" \in Pools /\ "oob" \in Pools /\ "udp" # "oob"
      /\ Pools \ {"udp"} = {"oob"}
  BY DEF Pools
<1>2. /\ U \in Buffers /\ U[1] = "udp" /\ U[2] \in 1..nalloc'["udp"]
      /\ nalloc'["udp"] \in Nat /\ nalloc["udp"] <= nalloc'["udp"]
      /\ nalloc'["oob"] = nalloc["oob"]
      /\ pool'["udp"] \in Seq(Buffers)
      /\ NoDup(pool'["udp"])
      /\ Elems(pool'["udp"]) \subseteq Elems(pool["udp"])
      /\ U \notin Elems(pool'["udp"])
      /\ U \notin LoopHolds
      /\ \A e \in Datagrams : U \notin HandlerHolds(e)
      /\ U \notin Elems(pool["oob"])
      /\ pool'["oob"] = pool["oob"]
  BY <1>1, GetLemma DEF PoolsAfterGet, NallocAfterGet
<1>3. /\ \A p \in Pools : 1..nalloc[p] \subseteq 1..nalloc'[p]
      /\ \A p \in Pools : Elems(pool'[p]) \subseteq Elems(pool[p])
      /\ \A p \in Pools : NoDup(pool'[p])
  BY <1>1, <1>2 DEF IInv, TypeOK, BufferExclusive, Pools
<1>4. /\ HandlerHolds(d)' \subseteq HandlerHolds(d) \cup {U}
      /\ \A e \in Datagrams \ {d} : HandlerHolds(e)' = HandlerHolds(e)
      /\ LoopHolds' = LoopHolds
      /\ hnew'[d] = U
  BY DEF HandlerHolds, LoopHolds, IInv, TypeOK
<1>5. BufferExclusive'
  <2>1. \A p \in Pools : U \notin Elems(pool'[p])
    BY <1>1, <1>2
  <2>2. \A p \in Pools, e \in Datagrams : Elems(pool'[p]) \cap HandlerHolds(e)' = {}
    BY <1>3, <1>4, <2>1 DEF IInv, BufferExclusive
  <2>3. \A p \in Pools : Elems(pool'[p]) \cap LoopHolds' = {}
    BY <1>3, <1>4 DEF IInv, BufferExclusive
  <2>4. \A e \in Datagrams : LoopHolds' \cap HandlerHolds(e)' = {}
    BY <1>2, <1>4 DEF IInv, BufferExclusive
  <2>5. \A e, f \in Datagrams : e # f => HandlerHolds(e)' \cap HandlerHolds(f)' = {}
    BY <1>2, <1>4 DEF IInv, BufferExclusive
  <2>6. \A e \in Datagrams : hnew'[e] # None => hnew'[e] # hbuf'[e]
    <3>1. U # hbuf[d]
      BY <1>2 DEF HandlerHolds
    <3>2. QED
      BY <1>4, <3>1 DEF IInv, BufferExclusive, TypeOK
  <2>7. QED
    BY <1>3, <2>2, <2>3, <2>4, <2>5, <2>6 DEF BufferExclusive
<1>6. Allocated'
  <2>1. \A p \in Pools : \A c \in Elems(pool'[p]) : FromPool(c, p)'
    BY <1>3 DEF IInv, Allocated, FromPool
  <2>2. /\ lbuf' # None => FromPool(lbuf, "udp")'
        /\ loob' # None => FromPool(loob, "oob")'
    BY <1>1, <1>3 DEF IInv, Allocated, FromPool
  <2>3. ASSUME NEW e \in Datagrams
        PROVE  (\A d2 \in {e} :
                  /\ hbuf[d2] # None => FromPool(hbuf[d2], "udp")
                  /\ hoob[d2] # None => FromPool(hoob[d2], "oob")
                  /\ hnew[d2] # None => FromPool(hnew[d2], "udp"))'
    <3>1. /\ hbuf'[e] # None => hbuf'[e][1] = "udp" /\ hbuf'[e][2] \in 1..nalloc'["udp"]
          /\ hoob'[e] # None => hoob'[e][1] = "oob" /\ hoob'[e][2] \in 1..nalloc'["oob"]
      BY <1>1, <1>3 DEF IInv, Allocated, FromPool
    <3>2. hnew'[e] # None => hnew'[e][1] = "udp" /\ hnew'[e][2] \in 1..nalloc'["udp"]
      <4>1. CASE e = d
        BY <1>2, <1>4, <4>1
      <4>2. CASE e # d
        BY <1>1, <1>3, <4>2 DEF IInv, Allocated, FromPool, TypeOK
      <4>3. QED
        BY <4>1, <4>2
    <3>3. QED
      BY <3>1, <3>2 DEF FromPool
  <2>4. QED
    BY <2>1, <2>2, <2>3 DEF Allocated
<1>7. Holding'
  BY <1>2 DEF IInv, Holding, TypeOK
<1>8. QED
  BY <1>5, <1>6, <1>7 DEF IInv


\* What IInv says of the buffers one handler holds: each is a buffer of
\* its own pool, not in that pool, and distinct from the handler's others.
LEMMA HolderLemma ==
  ASSUME IInv, NEW d \in Datagrams
  PROVE  /\ hbuf[d] # None =>
              /\ hbuf[d] \in Buffers /\ hbuf[d][1] = "udp"
              /\ hbuf[d] \notin Elems(pool["udp"])
              /\ hbuf[d] # hoob[d] /\ hbuf[d] # hnew[d]
         /\ hoob[d] # None =>
              /\ hoob[d] \in Buffers /\ hoob[d][1] = "oob"
              /\ hoob[d] \notin Elems(pool["oob"])
              /\ hoob[d] # hbuf[d] /\ hoob[d] # hnew[d]
         /\ hnew[d] # None =>
              /\ hnew[d] \in Buffers /\ hnew[d][1] = "udp"
              /\ hnew[d] \notin Elems(pool["udp"])
              /\ hnew[d] # hbuf[d] /\ hnew[d] # hoob[d]
<1> USE ProxyClientAssumption
<1>1. "udp" \in Pools /\ "oob" \in Pools /\ "udp" # "oob"
  BY DEF Pools
<1>2. /\ hbuf[d] \in Held /\ hoob[d] \in Held /\ hnew[d] \in Held
  BY DEF IInv, TypeOK
<1>3. /\ hbuf[d] # None => FromPool(hbuf[d], "udp")
      /\ hoob[d] # None => FromPool(hoob[d], "oob")
      /\ hnew[d] # None => FromPool(hnew[d], "udp")
  BY DEF IInv, Allocated
<1>4. /\ hbuf[d] # None => hbuf[d] \in HandlerHolds(d)
      /\ hoob[d] # None => hoob[d] \in HandlerHolds(d)
      /\ hnew[d] # None => hnew[d] \in HandlerHolds(d)
  BY DEF HandlerHolds
<1>5. \A p \in Pools : Elems(pool[p]) \cap HandlerHolds(d) = {}
  BY DEF IInv, BufferExclusive
<1>6. hnew[d] # None => hnew[d] # hbuf[d]
  BY DEF IInv, BufferExclusive
<1>7. QED
  BY <1>1, <1>2, <1>3, <1>4, <1>5, <1>6 DEF Held, FromPool

\* Every step keeps IInv.
LEMMA IInvStep == IInv /\ [Next]_vars => IInv'
<1> SUFFICES ASSUME IInv, [Next]_vars PROVE IInv'
  OBVIOUS
<1> USE ProxyClientAssumption
<1>0. /\ TypeOK
      /\ "udp" \in Pools /\ "oob" \in Pools
  BY DEF IInv, Pools
<1>1. CASE StartUDP
  BY <1>0, <1>1, QuietStep DEF StartUDP, TypeOK
<1>2. CASE LoopGet
  BY <1>2, LoopGetStep
<1>3. CASE LoopRead
  <2>1. lbuf \in Buffers /\ loob \in Buffers
    BY <1>3 DEF LoopRead, IInv, Holding, TypeOK, Held
  <2>2. CASE /\ udpOpen
             /\ \E d \in Datagrams \ recv :
                  /\ recv' = recv \cup {d}
                  /\ hpc' = [hpc EXCEPT ![d] = "extract"]
                  /\ hbuf' = [hbuf EXCEPT ![d] = lbuf]
                  /\ hoob' = [hoob EXCEPT ![d] = loob]
             /\ lpc' = "get"
             /\ UNCHANGED <<pool, errs, aerrs>>
    <3>1. PICK d \in Datagrams \ recv :
                  /\ recv' = recv \cup {d}
                  /\ hpc' = [hpc EXCEPT ![d] = "extract"]
                  /\ hbuf' = [hbuf EXCEPT ![d] = lbuf]
                  /\ hoob' = [hoob EXCEPT ![d] = loob]
      BY <2>2
    <3>2. TypeOK'
      BY <1>0, <1>3, <2>1, <2>2, <3>1 DEF LoopRead, TypeOK, Held, HandlerPCs, LoopPCs
    <3>3. QED
      BY <1>3, <2>2, <3>1, <3>2, LoopReceiveStep DEF LoopRead
  <2>3. CASE /\ pool' = [p \in Pools |->
                          Returned(pool[p], IF p = "udp" THEN lbuf ELSE loob)]
             /\ lpc' \in {"get", "exit"}
             /\ UNCHANGED <<recv, hpc, hbuf, hoob>>
    <3>1. \A p \in Pools : Returned(pool[p], IF p = "udp" THEN lbuf ELSE loob) \in Seq(Buffers)
      <4>1. SUFFICES ASSUME NEW p \in Pools
                     PROVE  Returned(pool[p], IF p = "udp" THEN lbuf ELSE loob) \in Seq(Buffers)
        OBVIOUS
      <4>2. pool[p] \in Seq(Buffers) /\ (IF p = "udp" THEN lbuf ELSE loob) \in Buffers
        BY <1>0, <2>1 DEF TypeOK
      <4>3. QED
        BY <4>2, AppendProperties DEF Returned
    <3>2. TypeOK'
      BY <1>0, <1>3, <2>3, <3>1 DEF LoopRead, TypeOK, Held, LoopPCs
    <3>3. QED
      BY <1>3, <2>3, <3>2, LoopReturnStep DEF LoopRead
  <2>4. QED
    BY <1>3, <2>2, <2>3 DEF LoopRead
<1>4. ASSUME NEW d \in Datagrams, HandleUDP(d) PROVE IInv'
  <2>0. /\ hbuf[d] \in Held /\ hoob[d] \in Held /\ hnew[d] \in Held
        /\ pool["udp"] \in Seq(Buffers) /\ pool["oob"] \in Seq(Buffers)
    BY <1>0 DEF TypeOK
  <2>h. /\ hbuf[d] # None => /\ hbuf[d] \in Buffers /\ hbuf[d][1] = "udp"
                             /\ hbuf[d] \notin Elems(pool["udp"])
                             /\ hbuf[d] # hoob[d] /\ hbuf[d] # hnew[d]
        /\ hoob[d] # None => /\ hoob[d] \in Buffers /\ hoob[d][1] = "oob"
                             /\ hoob[d] \notin Elems(pool["oob"])
                             /\ hoob[d] # hbuf[d] /\ hoob[d] # hnew[d]
        /\ hnew[d] # None => /\ hnew[d] \in Buffers /\ hnew[d][1] = "udp"
                             /\ hnew[d] \notin Elems(pool["udp"])
                             /\ hnew[d] # hbuf[d] /\ hnew[d] # hoob[d]
    BY HolderLemma
  <2>1. CASE HandleExtract(d)
    <3>1. hoob[d] # None
      BY <2>1 DEF HandleExtract, IInv, Holding
    <3>2. /\ hoob[d] \in HandlerHolds(d)
          /\ hoob' = [hoob EXCEPT ![d] = None] /\ hbuf' = hbuf /\ hnew' = hnew
      BY <2>1, <3>1 DEF HandleExtract, HandlerHolds
    <3>3. PutBack(hoob[d]) \in [Pools -> Seq(Buffers)]
      BY <1>0, <2>h, <3>1, PutLemma
    <3>4. hoob[d] \notin HandlerHolds(d)'
      <4>1. /\ hoob'[d] = None /\ hbuf'[d] = hbuf[d] /\ hnew'[d] = hnew[d]
        BY <1>0, <3>2 DEF TypeOK
      <4>2. HandlerHolds(d)' = {hbuf[d], hnew[d]} \ {None}
        BY <4>1 DEF HandlerHolds
      <4>3. QED
        BY <2>h, <3>1, <4>2
    <3>5. TypeOK'
      BY <1>0, <2>1, <3>3 DEF HandleExtract, TypeOK, Held, HandlerPCs
    <3>6. Holding'
      BY <2>1 DEF HandleExtract, IInv, Holding, TypeOK
    <3>7. QED
      BY <2>1, <3>2, <3>4, <3>5, <3>6, <1>0, HandlerPutStep DEF HandleExtract, TypeOK
  <2>2. CASE HandleLen(d)
    BY <1>0, <2>2, QuietStep DEF HandleLen, TypeOK, HandlerPCs
  <2>3. CASE HandleIndex(d)
    BY <1>0, <2>3, QuietStep DEF HandleIndex, TypeOK, HandlerPCs, IndexPanics
  <2>4. CASE RelayGet(d) /\ big[d]
    BY <1>0, <2>4, QuietStep DEF RelayGet, TypeOK, HandlerPCs
  <2>5. CASE RelayGet(d) /\ ~big[d]
    <3>1. Taken("udp") \in Buffers
      BY <1>0, GetLemma
    <3>2. /\ PoolsAfterGet({"udp"}) \in [Pools -> Seq(Buffers)]
          /\ NallocAfterGet({"udp"}) \in [Pools -> Nat]
      <4>1. /\ PoolsAfterGet({"udp"})["udp"] \in Seq(Buffers)
            /\ NallocAfterGet({"udp"})["udp"] \in Nat
        BY <1>0, GetLemma
      <4>2. QED
        BY <1>0, <4>1 DEF PoolsAfterGet, NallocAfterGet, TypeOK
    <3>3. TypeOK'
      BY <1>0, <2>5, <3>1, <3>2 DEF RelayGet, TypeOK, Held, HandlerPCs
    <3>4. QED
      BY <2>5, <3>3, RelayBorrowStep DEF RelayGet
  <2>6. CASE RelayPut(d) /\ hnew[d] = None
    <3>1. hnew' = hnew
      BY <1>0, <2>6 DEF RelayPut, TypeOK
    <3>2. QED
      BY <1>0, <2>6, <3>1, QuietStep DEF RelayPut, TypeOK, HandlerPCs
  <2>7. CASE RelayPut(d) /\ hnew[d] # None
    <3>2. /\ hnew[d] \in HandlerHolds(d)
          /\ hnew' = [hnew EXCEPT ![d] = None] /\ hbuf' = hbuf /\ hoob' = hoob
      BY <2>7 DEF RelayPut, HandlerHolds
    <3>3. PutBack(hnew[d]) \in [Pools -> Seq(Buffers)]
      BY <1>0, <2>h, <2>7, PutLemma
    <3>4. hnew[d] \notin HandlerHolds(d)'
      <4>1. /\ hnew'[d] = None /\ hbuf'[d] = hbuf[d] /\ hoob'[d] = hoob[d]
        BY <1>0, <3>2 DEF TypeOK
      <4>2. HandlerHolds(d)' = {hbuf[d], hoob[d]} \ {None}
        BY <4>1 DEF HandlerHolds
      <4>3. QED
        BY <2>h, <2>7, <4>2
    <3>5. TypeOK'
      BY <1>0, <2>7, <3>3 DEF RelayPut, TypeOK, Held, HandlerPCs
    <3>6. Holding'
      BY <2>7 DEF RelayPut, IInv, Holding, TypeOK
    <3>7. QED
      BY <2>7, <3>2, <3>4, <3>5, <3>6, <1>0, HandlerPutStep DEF RelayPut, TypeOK
  <2>8. CASE HandlePut(d)
    <3>1. hbuf[d] # None
      BY <2>8 DEF HandlePut, IInv, Holding
    <3>2. /\ hbuf[d] \in HandlerHolds(d)
          /\ hbuf' = [hbuf EXCEPT ![d] = None] /\ hoob' = hoob /\ hnew' = hnew
      BY <2>8, <3>1 DEF HandlePut, HandlerHolds
    <3>3. PutBack(hbuf[d]) \in [Pools -> Seq(Buffers)]
      BY <1>0, <2>h, <3>1, PutLemma
    <3>4. hbuf[d] \notin HandlerHolds(d)'
      <4>1. /\ hbuf'[d] = None /\ hoob'[d] = hoob[d] /\ hnew'[d] = hnew[d]
        BY <1>0, <3>2 DEF TypeOK
      <4>2. HandlerHolds(d)' = {hoob[d], hnew[d]} \ {None}
        BY <4>1 DEF HandlerHolds
      <4>3. QED
        BY <2>h, <3>1, <4>2
    <3>5. TypeOK'
      BY <1>0, <2>8, <3>3 DEF HandlePut, TypeOK, Held, HandlerPCs
    <3>6. Holding'
      BY <2>8 DEF HandlePut, IInv, Holding, TypeOK
    <3>7. QED
      BY <2>8, <3>2, <3>4, <3>5, <3>6, <1>0, HandlerPutStep DEF HandlePut, TypeOK
  <2>9. QED
    BY <1>4, <2>1, <2>2, <2>3, <2>4, <2>5, <2>6, <2>7, <2>8 DEF HandleUDP

<1>5. CASE AcceptTCP
  <2>1. ASSUME /\ tcpOpen
               /\ \E t \in TcpConns : tpc[t] = "unborn" /\ tpc' = [tpc EXCEPT ![t] = "len"]
               /\ UNCHANGED <<apc, aerrs>>
        PROVE  TypeOK'
    BY <1>0, <1>5, <2>1 DEF AcceptTCP, TypeOK, TcpPCs
  <2>2. ASSUME /\ tcpOpen /\ aerrs < MaxReadErrors
               /\ aerrs' = aerrs + 1
               /\ UNCHANGED <<apc, tpc>>
        PROVE  TypeOK'
    BY <1>0, <1>5, <2>2 DEF AcceptTCP, TypeOK
  <2>3. ASSUME /\ ~tcpOpen
               /\ apc' = "exit"
               /\ UNCHANGED <<aerrs, tpc>>
        PROVE  TypeOK'
    BY <1>0, <1>5, <2>3 DEF AcceptTCP, TypeOK
  <2>4. TypeOK'
    BY <1>5, <2>1, <2>2, <2>3 DEF AcceptTCP
  <2>5. QED
    BY <1>5, <2>4, QuietStep DEF AcceptTCP
<1>6. ASSUME NEW t \in TcpConns, HandleTCP(t) PROVE IInv'
  BY <1>0, <1>6, QuietStep DEF HandleTCP, TcpLen, TcpIndex, TcpRelayData,
                               TypeOK, TcpPCs, IndexPanics
<1>7. CASE Stop
  BY <1>0, <1>7, QuietStep DEF Stop, StopCloseTCP, StopCloseUDP, StopClear,
                               TypeOK, StopPCs
<1>8. CASE Terminated \/ UNCHANGED vars
  BY <1>0, <1>8, QuietStep DEF Terminated, vars, TypeOK
<1>9. QED
  BY <1>1, <1>2, <1>3, <1>4, <1>5, <1>6, <1>7, <1>8 DEF Next, UdpLoop

\* BufferExclusive for every set of datagrams and connections and every
\* pool size: the receive loop, handleUDP and RelayUDPData never put back a
\* buffer twice or use one after putting it back, so a leaky pool never
\* hands one buffer to two goroutines.
THEOREM BufferExclusiveInvariant == Spec => []BufferExclusive
<1>1. IInv => BufferExclusive
  BY DEF IInv
<1>2. QED
  BY <1>1, InitIInv, IInvStep, PTL DEF Spec

\* NoBufferLeak for every instance: each return path of handleUDP runs the
\* Put of the oob buffer, of newBuffer and of the payload buffer before
\* the handler is done, and the receive loop returns only after putting
\* both of its buffers back.
THEOREM NoBufferLeakInvariant == Spec => []NoBufferLeak
<1>1. IInv => NoBufferLeak
  BY DEF IInv, Holding, NoBufferLeak, LoopHolds, HandlerHolds
<1>2. QED
  BY <1>1, InitIInv, IInvStep, PTL DEF Spec

=============================================================================
