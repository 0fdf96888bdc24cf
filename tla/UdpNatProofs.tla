---------------------------- MODULE UdpNatProofs ----------------------------
(***************************************************************************)
(* Proofs about the UDP NAT table of UdpNat, for every set of senders and  *)
(* keys.                                                                   *)
(***************************************************************************)
EXTENDS UdpNat, TLAPS

\* The inductive strengthening of NatEntryLive.  A sender that has not yet
\* spawned its reader has a reader in state "none" and, when it is about to
\* create the entry, both sockets open; an entry in the map is the entry of
\* its own key with its reader inside copyFromRemote; and before Stop, the
\* sockets of a running reader are open.
IInv ==
  /\ TypeOK
  /\ \A s \in Senders :
       pc[s] \in {"get", "listen", "dial", "entry"} => reader[s] = "none"
  /\ \A s \in Senders :
       pc[s] = "dial" => sock[<<s, "dst">>] = "open"
  /\ \A s \in Senders :
       pc[s] = "entry" => \A side \in Sides : sock[<<s, side>>] = "open"
  /\ \A k \in Keys :
       nat[k] # None => reader[nat[k]] \in {"reading", "del"} /\ key[nat[k]] = k
  /\ ~stopped =>
       \A e \in Senders :
         reader[e] \in {"adding", "reading", "del"} =>
           \A side \in Sides : sock[<<e, side>>] = "open"

-----------------------------------------------------------------------------
\* The initial states are well typed.
LEMMA TypeInit == Init => TypeOK
  BY DEF Init, TypeOK, SenderPCs, ReaderPCs, Socks

\* Every step keeps the variables in their types.
LEMMA TypeStep == TypeOK /\ [Next]_vars => TypeOK'
<1> SUFFICES ASSUME TypeOK, [Next]_vars PROVE TypeOK'
  OBVIOUS
<1>1. ASSUME NEW s \in Senders, Sender(s) PROVE TypeOK'
  <2>1. CASE NatGet(s)
    BY <2>1 DEF NatGet, TypeOK, SenderPCs
  <2>2. CASE ListenPacket(s)
    BY <2>2 DEF ListenPacket, TypeOK, SenderPCs, Socks
  <2>3. CASE DialTransparentUDP(s)
    BY <2>3 DEF DialTransparentUDP, TypeOK, SenderPCs, Socks
  <2>4. CASE CreateEntry(s)
    BY <2>4 DEF CreateEntry, TypeOK, SenderPCs, ReaderPCs, Socks
  <2>5. CASE WriteToRemote(s)
    BY <2>5 DEF WriteToRemote, TypeOK, SenderPCs
  <2>6. QED
    BY <1>1, <2>1, <2>2, <2>3, <2>4, <2>5 DEF Sender
<1>2. ASSUME NEW e \in Senders, Reader(e) PROVE TypeOK'
  BY <1>2 DEF Reader, NatAdd, CopyFromRemoteExit, NatDel, CloseEntry,
              TypeOK, Socks, ReaderPCs
<1>3. CASE Stop
  BY <1>3 DEF Stop, TypeOK, Socks
<1>4. CASE Terminated \/ UNCHANGED vars
  BY <1>4 DEF Terminated, vars, TypeOK
<1>5. QED
  BY <1>1, <1>2, <1>3, <1>4 DEF Next

\* Type correctness of the NAT table model.
LEMMA TypeCorrect == Spec => []TypeOK
  BY TypeInit, TypeStep, PTL DEF Spec

-----------------------------------------------------------------------------
\* The strengthening holds initially and is kept by every step.
LEMMA IInvInductive == Spec => []IInv
<1> USE UdpNatAssumption
<1>1. Init => IInv
  BY TypeInit DEF Init, IInv
<1>2. IInv /\ [Next]_vars => IInv'
  <2> SUFFICES ASSUME IInv, [Next]_vars PROVE IInv'
    OBVIOUS
  <2>0. TypeOK'
    BY TypeStep DEF IInv
  <2>1. ASSUME NEW s \in Senders, Sender(s) PROVE IInv'
    <3>1. CASE NatGet(s)
      BY <2>0, <3>1 DEF NatGet, IInv, TypeOK
    <3>2. CASE ListenPacket(s)
      <4>1. CASE sock' = [sock EXCEPT ![<<s, "dst">>] = "open"]
                 /\ pc' = [pc EXCEPT ![s] = "dial"]
        BY <2>0, <3>2, <4>1 DEF ListenPacket, IInv, TypeOK, Socks, Sides
      <4>2. CASE pc' = [pc EXCEPT ![s] = "done"] /\ UNCHANGED sock
        BY <2>0, <3>2, <4>2 DEF ListenPacket, IInv, TypeOK
      <4>3. QED
        BY <3>2, <4>1, <4>2 DEF ListenPacket
    <3>3. CASE DialTransparentUDP(s)
      <4>1. CASE sock' = [sock EXCEPT ![<<s, "src">>] = "open"]
                 /\ pc' = [pc EXCEPT ![s] = "entry"]
        BY <2>0, <3>3, <4>1 DEF DialTransparentUDP, IInv, TypeOK, Socks, Sides
      <4>2. CASE sock' = [sock EXCEPT ![<<s, "dst">>] = "closed"]
                 /\ pc' = [pc EXCEPT ![s] = "done"]
        BY <2>0, <3>3, <4>2 DEF DialTransparentUDP, IInv, TypeOK, Socks, Sides
      <4>3. QED
        BY <3>3, <4>1, <4>2 DEF DialTransparentUDP
    <3>4. CASE CreateEntry(s)
      BY <2>0, <3>4 DEF CreateEntry, IInv, TypeOK, Socks, Sides
    <3>5. CASE WriteToRemote(s)
      BY <2>0, <3>5 DEF WriteToRemote, IInv, TypeOK
    <3>6. QED
      BY <2>1, <3>1, <3>2, <3>3, <3>4, <3>5 DEF Sender
  <2>2. ASSUME NEW e \in Senders, Reader(e) PROVE IInv'
    <3>1. CASE NatAdd(e)
      BY <2>0, <3>1 DEF NatAdd, IInv, TypeOK
    <3>2. CASE CopyFromRemoteExit(e)
      BY <2>0, <3>2 DEF CopyFromRemoteExit, IInv, TypeOK
    <3>3. CASE NatDel(e)
      BY <2>0, <3>3 DEF NatDel, IInv, TypeOK
    <3>4. CASE CloseEntry(e)
      BY <2>0, <3>4 DEF CloseEntry, IInv, TypeOK, Socks, Sides
    <3>5. QED
      BY <2>2, <3>1, <3>2, <3>3, <3>4 DEF Reader
  <2>3. CASE Stop
    \* Stop closes only sockets of entries in the map, whose readers are
    \* past NatAdd, so the sockets of a sender still creating its entry stay
    \* open; the conjunct about running readers now holds vacuously.
    <3> DEFINE inMap == {nat[k] : k \in Keys} \ {None}
    <3>1. sock' = [x \in Socks |-> IF x[1] \in inMap THEN "closed" ELSE sock[x]]
      BY <2>3 DEF Stop
    <3>2. \A s \in Senders : reader[s] = "none" => s \notin inMap
      BY DEF IInv, TypeOK
    <3>3. \A s \in Senders, side \in Sides : reader[s] = "none" =>
                sock'[<<s, side>>] = sock[<<s, side>>]
      BY <3>1, <3>2 DEF Socks
    <3>4. UNCHANGED <<pc, nat, reader, key>> /\ stopped'
      BY <2>3 DEF Stop
    <3>5. \A s \in Senders : pc'[s] = "dial" => sock'[<<s, "dst">>] = "open"
      BY <3>3, <3>4 DEF IInv, Sides
    <3>6. \A s \in Senders :
            pc'[s] = "entry" => \A side \in Sides : sock'[<<s, side>>] = "open"
      BY <3>3, <3>4 DEF IInv
    <3>7. QED
      BY <2>0, <3>4, <3>5, <3>6 DEF IInv
  <2>4. CASE Terminated \/ UNCHANGED vars
    BY <2>4 DEF Terminated, vars, IInv, TypeOK
  <2>5. QED
    BY <2>1, <2>2, <2>3, <2>4 DEF Next
<1>3. QED
  BY <1>1, <1>2, PTL DEF Spec

\* NatEntryLive for every set of senders and keys: before Stop, an entry
\* udpNatMap_ hands to a datagram has a running reader and open sockets,
\* because copyFromRemote's cleanup deletes the key before closing.
THEOREM NatEntryLiveInvariant == Spec => []NatEntryLive
<1>1. IInv => NatEntryLive
  BY DEF IInv, NatEntryLive, TypeOK
<1>2. QED
  BY <1>1, IInvInductive, PTL
=============================================================================
