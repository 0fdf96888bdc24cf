--------------------------- MODULE TcpRelayProofs ---------------------------
(***************************************************************************)
(* Proofs about the TCP relay of TcpRelay, with or without a KCP backend.  *)
(***************************************************************************)
EXTENDS TcpRelay, TLAPS

\* The inductive strengthening of ClosedAfterBothHalves: the goroutine is
\* spawned only by the header write and runs only while the handler is
\* copying, waking or waiting on ch; once the handler is past the receive
\* (or never spawned it) the goroutine is not running; and a connection is
\* closed only by the handler's deferred Closes.  The last four conjuncts
\* say which connections are open at each point of the handler; the
\* refinement proof needs them.
IInv ==
  /\ TypeOK
  /\ mpc \in {"parse", "kcp", "dial", "deadline", "header"} => gpc = "none"
  /\ gpc \in {"copy", "wake", "send"} => mpc \in {"copy", "wake", "wait"}
  /\ mpc \in {"closeDst", "closeSrc", "done"} => gpc \in {"none", "done"}
  /\ conn["dst"] = "closed" => mpc \in {"closeSrc", "done"}
  /\ conn["src"] = "closed" => mpc = "done"
  /\ mpc \in {"parse", "kcp", "dial"} => conn["dst"] = "unused"
  /\ mpc \in {"deadline", "header", "copy", "wake", "wait", "closeDst"} =>
       conn["dst"] = "open"
  /\ mpc = "closeSrc" => conn["dst"] # "open"
  /\ mpc # "done" => conn["src"] = "open"

-----------------------------------------------------------------------------
\* The initial state is well typed.
LEMMA TypeInit == Init => TypeOK
  BY DEF Init, TypeOK, MainPCs, GoPCs, Conns, Dirs

\* One step of io.Copy keeps the pending flags boolean.
LEMMA CopyStepType ==
  ASSUME TypeOK, NEW d \in Dirs, NEW hpc, NEW hpcNext, CopyStep(d, hpc, hpcNext)
  PROVE  pending' \in [Dirs -> BOOLEAN]
  BY DEF CopyStep, TypeOK

\* Every step keeps the variables in their types.
LEMMA TypeStep == TypeOK /\ [Next]_vars => TypeOK'
<1> SUFFICES ASSUME TypeOK, [Next]_vars PROVE TypeOK'
  OBVIOUS
<1>1. CASE Main
  <2>1. CASE MainCopy
    <3>1. PICK next \in {"copy", "wake"} : CopyStep("down", mpc, next) /\ mpc' = next
      BY <2>1 DEF MainCopy
    <3>2. pending' \in [Dirs -> BOOLEAN]
      BY <3>1, CopyStepType DEF Dirs
    <3>3. QED
      BY <2>1, <3>1, <3>2 DEF MainCopy, TypeOK, MainPCs
  <2>2. CASE ~MainCopy
    BY <1>1, <2>2 DEF Main, ParseOriginDst, GetKcpConn, CreateTCPConn,
       SetWriteDeadlines, WriteHeader, MainWake, WakeBoth, MainWait,
       CloseDst, CloseSrc, TypeOK, MainPCs, GoPCs, Conns
  <2>3. QED
    BY <2>1, <2>2
<1>2. CASE Go
  <2>1. CASE GoCopy
    <3>1. PICK next \in {"copy", "wake"} : CopyStep("up", gpc, next) /\ gpc' = next
      BY <2>1 DEF GoCopy
    <3>2. pending' \in [Dirs -> BOOLEAN]
      BY <3>1, CopyStepType DEF Dirs
    <3>3. QED
      BY <2>1, <3>1, <3>2 DEF GoCopy, TypeOK, GoPCs
  <2>2. CASE GoWake
    BY <2>2 DEF GoWake, WakeBoth, TypeOK, GoPCs, Conns
  <2>3. QED
    BY <1>2, <2>1, <2>2 DEF Go
<1>3. ASSUME NEW d \in Dirs, PeerSend(d) \/ PeerClose(d) PROVE TypeOK'
  BY <1>3 DEF PeerSend, PeerClose, TypeOK
<1>4. CASE Tick \/ Terminated \/ UNCHANGED vars
  BY <1>4 DEF Tick, Terminated, vars, TypeOK
<1>5. QED
  BY <1>1, <1>2, <1>3, <1>4 DEF Next

-----------------------------------------------------------------------------
\* The strengthening holds initially and is kept by every step.
LEMMA IInvInductive == Spec => []IInv
<1>1. Init => IInv
  BY TypeInit DEF Init, IInv, Conns
<1>2. IInv /\ [Next]_vars => IInv'
  <2> SUFFICES ASSUME IInv, [Next]_vars PROVE IInv'
    OBVIOUS
  <2>0. TypeOK'
    BY TypeStep DEF IInv
  <2>1. CASE ParseOriginDst
    BY <2>0, <2>1 DEF ParseOriginDst, IInv
  <2>2. CASE GetKcpConn \/ CreateTCPConn
    \* Only "dst" is opened, and the goroutine is not spawned yet.
    <3>1. UNCHANGED gpc /\ mpc' \in {"deadline", "dial", "closeSrc"}
      BY <2>2 DEF GetKcpConn, CreateTCPConn
    <3>2. mpc \in {"kcp", "dial"}
      BY <2>2 DEF GetKcpConn, CreateTCPConn
    <3>3. CASE conn' = [conn EXCEPT !["dst"] = "open"] /\ mpc' = "deadline"
      BY <2>0, <3>1, <3>2, <3>3 DEF IInv, TypeOK, Conns
    <3>4. CASE UNCHANGED conn /\ mpc' \in {"dial", "closeSrc"}
      BY <2>0, <3>1, <3>2, <3>4 DEF IInv, TypeOK, Conns
    <3>5. QED
      BY <2>2, <3>3, <3>4 DEF GetKcpConn, CreateTCPConn
  <2>3. CASE SetWriteDeadlines \/ WriteHeader
    BY <2>0, <2>3 DEF SetWriteDeadlines, WriteHeader, IInv
  <2>4. CASE MainCopy \/ MainWake
    BY <2>0, <2>4 DEF MainCopy, MainWake, WakeBoth, IInv
  <2>5. CASE MainWait
    \* The receive completes the goroutine's send: both leave together.
    BY <2>0, <2>5 DEF MainWait, IInv
  <2>6. CASE CloseDst
    BY <2>0, <2>6 DEF CloseDst, IInv, TypeOK, Conns
  <2>7. CASE CloseSrc
    BY <2>0, <2>7 DEF CloseSrc, IInv, TypeOK, Conns
  <2>8. CASE Go
    BY <2>0, <2>8 DEF Go, GoCopy, GoWake, IInv
  <2>9. ASSUME NEW d \in Dirs, PeerSend(d) \/ PeerClose(d) PROVE IInv'
    BY <2>0, <2>9 DEF PeerSend, PeerClose, IInv
  <2>10. CASE Tick \/ Terminated \/ UNCHANGED vars
    BY <2>0, <2>10 DEF Tick, Terminated, vars, IInv
  <2>11. QED
    BY <2>1, <2>2, <2>3, <2>4, <2>5, <2>6, <2>7, <2>8, <2>9, <2>10 DEF Next, Main
<1>3. QED
  BY <1>1, <1>2, PTL DEF Spec

\* ClosedAfterBothHalves on both paths, with or without a KCP backend:
\* neither connection is closed while the copy goroutine may still use
\* it, because the deferred Closes run only after the receive from ch.
THEOREM ClosedAfterBothHalvesInvariant == Spec => []ClosedAfterBothHalves
<1>1. IInv => ClosedAfterBothHalves
  BY DEF IInv, ClosedAfterBothHalves
<1>2. QED
  BY <1>1, IInvInductive, PTL
-----------------------------------------------------------------------------
\* Every step of the relay is a step of its lifecycle or leaves the
\* lifecycle unchanged.
LEMMA LifecycleStep == IInv /\ [Next]_vars => [Lifecycle!Next]_Lifecycle!avars
<1> SUFFICES ASSUME IInv, [Next]_vars PROVE [Lifecycle!Next]_Lifecycle!avars
  OBVIOUS
<1> DEFINE Stutter == UNCHANGED <<StageOf, HalvesOf, conn>>
<1>0. Stutter => [Lifecycle!Next]_Lifecycle!avars
  BY DEF Lifecycle!avars
<1>1. CASE ParseOriginDst
  <2>1. CASE mpc' = "kcp"
    BY <1>0, <1>1, <2>1 DEF ParseOriginDst, StageOf, HalvesOf
  <2>2. CASE mpc' = "closeSrc"
    BY <1>1, <2>2 DEF ParseOriginDst, IInv, StageOf, HalvesOf,
       Lifecycle!Next, Lifecycle!SetupStep, Lifecycle!Abort
  <2>3. QED
    BY <1>1, <2>1, <2>2 DEF ParseOriginDst
<1>2. CASE GetKcpConn \/ CreateTCPConn
  <2>1. CASE conn' = [conn EXCEPT !["dst"] = "open"] /\ mpc' = "deadline"
    BY <1>2, <2>1 DEF GetKcpConn, CreateTCPConn, IInv, StageOf, HalvesOf,
       Lifecycle!Next, Lifecycle!SetupStep, Lifecycle!OpenDst
  <2>2. CASE UNCHANGED conn /\ mpc' = "dial"
    BY <1>0, <1>2, <2>2 DEF GetKcpConn, CreateTCPConn, StageOf, HalvesOf
  <2>3. CASE UNCHANGED conn /\ mpc' = "closeSrc"
    BY <1>2, <2>3 DEF GetKcpConn, CreateTCPConn, IInv, StageOf, HalvesOf,
       Lifecycle!Next, Lifecycle!SetupStep, Lifecycle!Abort
  <2>4. QED
    BY <1>2, <2>1, <2>2, <2>3 DEF GetKcpConn, CreateTCPConn
<1>3. CASE SetWriteDeadlines
  BY <1>0, <1>3 DEF SetWriteDeadlines, StageOf, HalvesOf
<1>4. CASE WriteHeader
  <2>1. CASE mpc' = "copy" /\ gpc' = "copy"
    BY <1>4, <2>1 DEF WriteHeader, IInv, StageOf, HalvesOf,
       Lifecycle!Next, Lifecycle!SetupStep, Lifecycle!StartRelay
  <2>2. CASE mpc' = "closeDst" /\ UNCHANGED gpc
    BY <1>4, <2>2 DEF WriteHeader, IInv, StageOf, HalvesOf,
       Lifecycle!Next, Lifecycle!SetupStep, Lifecycle!Abort
  <2>3. QED
    BY <1>4, <2>1, <2>2 DEF WriteHeader
<1>5. CASE MainCopy \/ GoCopy
  \* A copy step either continues, or returns and ends its half.
  <2>1. CASE UNCHANGED <<mpc, gpc>>
    BY <1>0, <1>5, <2>1 DEF MainCopy, GoCopy, StageOf, HalvesOf
  <2>2. CASE (mpc = "copy" /\ mpc' = "wake" /\ UNCHANGED gpc)
             \/ (gpc = "copy" /\ gpc' = "wake" /\ UNCHANGED mpc)
    BY <1>5, <2>2 DEF MainCopy, GoCopy, IInv, TypeOK, StageOf, HalvesOf,
       Lifecycle!Next, Lifecycle!HalfEnds
  <2>3. QED
    BY <1>5, <2>1, <2>2 DEF MainCopy, GoCopy
<1>6. CASE MainWake \/ GoWake
  BY <1>0, <1>6 DEF MainWake, GoWake, StageOf, HalvesOf
<1>7. CASE MainWait
  BY <1>7 DEF MainWait, IInv, StageOf, HalvesOf, Lifecycle!Next,
     Lifecycle!Teardown
<1>8. CASE CloseDst
  <2>1. Lifecycle!Close("dst")
    BY <1>8 DEF CloseDst, IInv, StageOf, HalvesOf, Lifecycle!Close,
       Lifecycle!Conns
  <2>2. QED
    BY <2>1 DEF Lifecycle!Next, Lifecycle!Conns
<1>9. CASE CloseSrc
  <2>1. Lifecycle!Close("src")
    BY <1>9 DEF CloseSrc, IInv, StageOf, HalvesOf, Lifecycle!Close,
       Lifecycle!Conns
  <2>2. QED
    BY <2>1 DEF Lifecycle!Next, Lifecycle!Conns
<1>10. ASSUME NEW d \in Dirs, PeerSend(d) \/ PeerClose(d) PROVE Stutter
  BY <1>10 DEF PeerSend, PeerClose, StageOf, HalvesOf
<1>11. CASE Tick \/ Terminated \/ UNCHANGED vars
  BY <1>0, <1>11 DEF Tick, Terminated, vars, StageOf, HalvesOf
<1>12. QED
  BY <1>0, <1>1, <1>2, <1>3, <1>4, <1>5, <1>6, <1>7, <1>8, <1>9, <1>10, <1>11
     DEF Next, Main, Go

\* The relay implements the safety part of its lifecycle: it tears down
\* only after both io.Copy halves have returned, closes only connections
\* it opened, and never relays again after a teardown.
THEOREM RefinesLifecycleSafety == Spec => Lifecycle!Spec
<1>1. Init => Lifecycle!Init
  BY DEF Init, StageOf, HalvesOf, Lifecycle!Init, Lifecycle!Conns, Conns
<1>2. QED
  BY <1>1, LifecycleStep, IInvInductive, PTL DEF Spec, Lifecycle!Spec
=============================================================================
