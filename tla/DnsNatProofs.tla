---------------------------- MODULE DnsNatProofs ----------------------------
(***************************************************************************)
(* Proofs about the DNS NAT table of DnsNat, for every set of calls and    *)
(* client idents.                                                          *)
(***************************************************************************)
EXTENDS DnsNat, TLAPS

-----------------------------------------------------------------------------
\* TypeOK with what keeps it inductive: a call past the look-up holds a
\* socket, so the answer it reads is an answer to some call.
TypeInv ==
  /\ TypeOK
  /\ \A c \in Calls : pc[c] \in {"write", "read", "del", "close"} => conn[c] # None

\* The inductive strengthening of DnsNatEntryLive.  A call past the look-up
\* holds a socket; the socket a call holds was opened by a call of the same
\* ident that is past ListenPacket; an entry in the map is the socket of a
\* call of that ident that has not passed its deferred Del; a call about to
\* close its socket no longer finds it in the map; and before Stop every
\* socket in the map is open.
IInv ==
  /\ TypeInv
  /\ \A c \in Calls :
       conn[c] # None =>
         /\ ident[conn[c]] = ident[c]
         /\ pc[conn[c]] \notin {"get", "listen"}
  /\ \A i \in Idents :
       nat[i] # None =>
         /\ ident[nat[i]] = i
         /\ pc[nat[i]] \in {"write", "read", "del"}
  /\ \A c \in Calls, i \in Idents : pc[c] = "close" => nat[i] # conn[c]
  /\ ~stopped => \A i \in Idents : nat[i] # None => sock[nat[i]] = "open"

\* The initial states are well typed.
LEMMA TypeInit == Init => TypeInv
  BY DEF Init, TypeInv, TypeOK, CallPCs

\* Every step keeps the variables in their types.
LEMMA TypeStep == TypeInv /\ [Next]_vars => TypeInv'
<1> SUFFICES ASSUME TypeInv, [Next]_vars PROVE TypeInv'
  OBVIOUS
<1> USE DEF TypeInv
<1> USE DnsNatAssumption
<1>1. ASSUME NEW c \in Calls, Call(c) PROVE TypeInv'
  <2>1. CASE RelayDNSGet(c)
    <3>1. CASE /\ conn' = [conn EXCEPT ![c] = NatLookup(ident[c])]
               /\ pc' = [pc EXCEPT ![c] =
                          IF NatLookup(ident[c]) = None THEN "listen" ELSE "write"]
      BY <2>1, <3>1 DEF RelayDNSGet, NatLookup, TypeOK, CallPCs
    <3>2. CASE pc' = [pc EXCEPT ![c] = "done"] /\ UNCHANGED conn
      BY <2>1, <3>2 DEF RelayDNSGet, TypeOK, CallPCs
    <3>3. QED
      BY <2>1, <3>1, <3>2 DEF RelayDNSGet
  <2>2. CASE ListenPacket(c)
    <3>1. CASE /\ sock' = [sock EXCEPT ![c] = "open"]
               /\ nat' = NatInsert(ident[c], c)
               /\ conn' = [conn EXCEPT ![c] = c]
               /\ pc' = [pc EXCEPT ![c] = "write"]
      BY <2>2, <3>1 DEF ListenPacket, NatInsert, TypeOK, CallPCs
    <3>2. CASE pc' = [pc EXCEPT ![c] = "done"] /\ UNCHANGED <<sock, nat, conn>>
      BY <2>2, <3>2 DEF ListenPacket, TypeOK, CallPCs
    <3>3. QED
      BY <2>2, <3>1, <3>2 DEF ListenPacket
  <2>3. CASE WriteTo(c)
    BY <2>3 DEF WriteTo, TypeOK, CallPCs
  <2>4. CASE ReadFrom(c)
    BY <2>4 DEF ReadFrom, TypeOK, CallPCs
  <2>5. CASE DeferredDel(c)
    BY <2>5 DEF DeferredDel, NatRemove, TypeOK, CallPCs
  <2>6. CASE DeferredClose(c)
    BY <2>6 DEF DeferredClose, TypeOK, CallPCs
  <2>7. QED
    BY <1>1, <2>1, <2>2, <2>3, <2>4, <2>5, <2>6 DEF Call
<1>2. CASE Stop
  BY <1>2 DEF Stop, TypeOK
<1>3. CASE Terminated \/ UNCHANGED vars
  BY <1>3 DEF Terminated, vars, TypeOK
<1>4. QED
  BY <1>1, <1>2, <1>3 DEF Next

\* Type correctness of the DNS NAT table model.
LEMMA TypeCorrect == Spec => []TypeOK
<1>1. TypeInv => TypeOK
  BY DEF TypeInv
<1>2. QED
  BY <1>1, TypeInit, TypeStep, PTL DEF Spec

-----------------------------------------------------------------------------
\* The strengthening holds initially and is kept by every step.
LEMMA IInvInductive == Spec => []IInv
<1> USE DnsNatAssumption
<1>1. Init => IInv
  BY TypeInit DEF Init, IInv
<1>2. IInv /\ [Next]_vars => IInv'
  <2> SUFFICES ASSUME IInv, [Next]_vars PROVE IInv'
    OBVIOUS
  <2>0. TypeInv'
    BY TypeStep DEF IInv
  <2> USE DEF TypeInv
  <2>1. ASSUME NEW c \in Calls, Call(c) PROVE IInv'
    <3>1. CASE RelayDNSGet(c)
      BY <2>0, <3>1 DEF RelayDNSGet, NatLookup, IInv, TypeOK
    <3>2. CASE ListenPacket(c)
      \* No call holds the new socket yet, and the map does not hold it.
      <4>1. \A d \in Calls : conn[d] # c
        BY <3>2 DEF ListenPacket, IInv, TypeOK
      <4>2. \A i \in Idents : nat[i] # c
        BY <3>2 DEF ListenPacket, IInv, TypeOK
      <4>3. CASE /\ sock' = [sock EXCEPT ![c] = "open"]
                 /\ nat' = NatInsert(ident[c], c)
                 /\ conn' = [conn EXCEPT ![c] = c]
                 /\ pc' = [pc EXCEPT ![c] = "write"]
        BY <2>0, <3>2, <4>1, <4>2, <4>3 DEF ListenPacket, NatInsert, IInv, TypeOK
      <4>4. CASE /\ pc' = [pc EXCEPT ![c] = "done"]
                 /\ UNCHANGED <<sock, nat, conn>>
        BY <2>0, <3>2, <4>2, <4>4 DEF ListenPacket, IInv, TypeOK
      <4>5. QED
        BY <3>2, <4>3, <4>4 DEF ListenPacket
    <3>3. CASE WriteTo(c)
      BY <2>0, <3>3 DEF WriteTo, IInv, TypeOK
    <3>4. CASE ReadFrom(c)
      BY <2>0, <3>4 DEF ReadFrom, IInv, TypeOK
    <3>5. CASE DeferredDel(c)
      \* The socket c holds is mapped, if at all, under c's own ident,
      \* which the Del removes.
      <4>1. \A i \in Idents : nat[i] = conn[c] => i = ident[c]
        BY <3>5 DEF DeferredDel, IInv, TypeOK
      <4>2. QED
        BY <2>0, <3>5, <4>1 DEF DeferredDel, NatRemove, IInv, TypeOK
    <3>6. CASE DeferredClose(c)
      BY <2>0, <3>6 DEF DeferredClose, IInv, TypeOK
    <3>7. QED
      BY <2>1, <3>1, <3>2, <3>3, <3>4, <3>5, <3>6 DEF Call
  <2>2. CASE Stop
    BY <2>0, <2>2 DEF Stop, IInv
  <2>3. CASE Terminated \/ UNCHANGED vars
    BY <2>3 DEF Terminated, vars, IInv, TypeOK
  <2>4. QED
    BY <2>1, <2>2, <2>3 DEF Next
<1>3. QED
  BY <1>1, <1>2, PTL DEF Spec

\* DnsNatEntryLive for every set of calls and idents: before Stop, the
\* socket dnsNatMap hands to a RelayDNS call is open and its opener has not
\* yet run its deferred Del, because that cleanup deletes the key before it
\* closes the socket.
THEOREM DnsNatEntryLiveInvariant == Spec => []DnsNatEntryLive
<1>1. IInv => DnsNatEntryLive
  BY DEF IInv, DnsNatEntryLive, NatLookup
<1>2. QED
  BY <1>1, IInvInductive, PTL
=============================================================================
