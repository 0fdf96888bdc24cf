------------------------------ MODULE TcpRelay ------------------------------
(***************************************************************************)
(* One redirected TCP connection (src/unnamed/part_000 handleTCP, and      *)
(* RelayTCPData, createTCPConn and relayKCPData of src/proxy_client/       *)
(* proxy_backend.go).  The handler goroutine recovers the original         *)
(* destination, opens the remote connection (a KCP stream when the KCP     *)
(* backend hands one out, a cipher-wrapped TCP connection otherwise),      *)
(* writes the address header and then copies remote -> client itself,     *)
(* while a spawned goroutine copies client -> remote.  The half that       *)
(* returns first sets both connections' deadlines to "now" to wake the     *)
(* other; the handler waits for the goroutine's result on a channel, then  *)
(* the deferred Closes run.                                                *)
(*                                                                         *)
(* The client and the remote server are the environment: they may send,    *)
(* half-close, or stay silent forever.  The connection "src" is the        *)
(* accepted client connection, "dst" the remote one.  Data is abstracted   *)
(* to whether a direction has bytes waiting to be copied.  Time is one     *)
(* event: tcpTimeout has passed since the write deadlines were set.        *)
(***************************************************************************)
EXTENDS Naturals

CONSTANT KcpEnabled   \* c.kcpBackend != nil

ASSUME TcpRelayAssumption == KcpEnabled \in BOOLEAN

Conns == {"src", "dst"}
\* "up": client -> remote, copied by the goroutine; "down": remote ->
\* client, copied by the handler.
Dirs == {"up", "down"}
From == [up |-> "src", down |-> "dst"]
To == [up |-> "dst", down |-> "src"]

MainPCs == {"parse", "kcp", "dial", "deadline", "header", "copy", "wake",
            "wait", "closeDst", "closeSrc", "done"}
GoPCs == {"none", "copy", "wake", "send", "done"}

VARIABLES mpc,      \* the handler goroutine
          gpc,      \* the copy goroutine spawned by RelayTCPData
          conn,     \* conn[c]: "unused", "open" or "closed"
          rdl,      \* rdl[c]: read deadline of c, "none" or "now"
          wdl,      \* wdl[c]: write deadline, "none", "timeout" or "now"
          expired,  \* tcpTimeout has passed since the write deadlines
          pending,  \* pending[d]: bytes in direction d wait to be copied
          eof       \* eof[d]: the sender of direction d has closed it

vars == <<mpc, gpc, conn, rdl, wdl, expired, pending, eof>>

TypeOK ==
  /\ mpc \in MainPCs
  /\ gpc \in GoPCs
  /\ conn \in [Conns -> {"unused", "open", "closed"}]
  /\ rdl \in [Conns -> {"none", "now"}]
  /\ wdl \in [Conns -> {"none", "timeout", "now"}]
  /\ expired \in BOOLEAN
  /\ pending \in [Dirs -> BOOLEAN]
  /\ eof \in [Dirs -> BOOLEAN]

Init ==
  /\ mpc = "parse"
  /\ gpc = "none"
  /\ conn = [c \in Conns |-> IF c = "src" THEN "open" ELSE "unused"]
  /\ rdl = [c \in Conns |-> "none"]
  /\ wdl = [c \in Conns |-> "none"]
  /\ expired = FALSE
  /\ pending = [d \in Dirs |-> FALSE]
  /\ eof = [d \in Dirs |-> FALSE]

\* A write on c fails once its write deadline has passed.
WriteFails(c) == wdl[c] = "now" \/ (wdl[c] = "timeout" /\ expired)

\* SetDeadline(time.Now()) on both connections.
WakeBoth ==
  /\ rdl' = [c \in Conns |-> "now"]
  /\ wdl' = [c \in Conns |-> "now"]

-----------------------------------------------------------------------------
(* The handler: handleTCP -> RelayTCPData / relayKCPData                   *)

\* ConvertShadowSocksAddr(src.LocalAddr().String()); on error RelayTCPData
\* returns and handleTCP's deferred conn.Close runs.
ParseOriginDst ==
  /\ mpc = "parse"
  /\ mpc' \in {"kcp", "closeSrc"}
  /\ UNCHANGED <<gpc, conn, rdl, wdl, expired, pending, eof>>

\* With a KCP backend, GetKcpConn either hands out a stream, used in place
\* of a dialled connection, or fails and the relay falls back to dialling.
GetKcpConn ==
  /\ mpc = "kcp"
  /\ \/ /\ KcpEnabled
        /\ conn' = [conn EXCEPT !["dst"] = "open"]
        /\ mpc' = "deadline"
     \/ /\ mpc' = "dial"
        /\ UNCHANGED conn
  /\ UNCHANGED <<gpc, rdl, wdl, expired, pending, eof>>

\* createTCPConn: DialTCP, keep-alive, cipher StreamConn; on a dial error
\* the relay returns.
CreateTCPConn ==
  /\ mpc = "dial"
  /\ \/ /\ conn' = [conn EXCEPT !["dst"] = "open"]
        /\ mpc' = "deadline"
     \/ /\ mpc' = "closeSrc"
        /\ UNCHANGED conn
  /\ UNCHANGED <<gpc, rdl, wdl, expired, pending, eof>>

\* SetWriteDeadline(time.Now().Add(tcpTimeout)) on both connections: the
\* only deadlines set before the copy, and only on writes.
SetWriteDeadlines ==
  /\ mpc = "deadline"
  /\ wdl' = [c \in Conns |-> "timeout"]
  /\ mpc' = "header"
  /\ UNCHANGED <<gpc, conn, rdl, expired, pending, eof>>

\* dst.Write(originDst) (kcpConn.Write(header)); on success the copy
\* goroutine is spawned and the handler starts io.Copy(src, dst).  A write
\* may also fail because the remote reset the connection.
WriteHeader ==
  /\ mpc = "header"
  /\ \/ /\ ~WriteFails("dst")
        /\ mpc' = "copy"
        /\ gpc' = "copy"
     \/ /\ mpc' = "closeDst"
        /\ UNCHANGED gpc
  /\ UNCHANGED <<conn, rdl, wdl, expired, pending, eof>>

\* One step of io.Copy in direction d, run by the half whose state is
\* hpc: the read of From[d] fails at its deadline or at end of stream and
\* the copy returns; otherwise waiting bytes are written to To[d], and a
\* failed write also ends the copy.  With nothing to read the half blocks.
CopyStep(d, hpc, hpcNext) ==
  \/ /\ rdl[From[d]] = "now" \/ (eof[d] /\ ~pending[d])
     /\ hpcNext = "wake"
     /\ UNCHANGED pending
  \/ /\ rdl[From[d]] = "none"
     /\ pending[d]
     /\ IF WriteFails(To[d])
          THEN hpcNext = "wake" /\ UNCHANGED pending
          ELSE hpcNext = hpc /\ pending' = [pending EXCEPT ![d] = FALSE]

\* inboundSize, err = io.Copy(src, dst)
MainCopy ==
  /\ mpc = "copy"
  /\ \E next \in {"copy", "wake"} : CopyStep("down", mpc, next) /\ mpc' = next
  /\ UNCHANGED <<gpc, conn, rdl, wdl, expired, eof>>

\* dst.SetDeadline(time.Now()); src.SetDeadline(time.Now())
MainWake ==
  /\ mpc = "wake"
  /\ WakeBoth
  /\ mpc' = "wait"
  /\ UNCHANGED <<gpc, conn, expired, pending, eof>>

\* Mutant of MainWait: the handler returns without receiving from ch.
MainWaitSkipped ==
  /\ mpc = "wait"
  /\ mpc' = "closeDst"
  /\ UNCHANGED <<gpc, conn, rdl, wdl, expired, pending, eof>>

\* rs := <-ch: the rendezvous with the goroutine's send.
MainWait ==
  /\ mpc = "wait"
  /\ gpc = "send"
  /\ mpc' = "closeDst"
  /\ gpc' = "done"
  /\ UNCHANGED <<conn, rdl, wdl, expired, pending, eof>>

\* The deferred dst.Close() (kcpConn.Close() on the KCP path).
CloseDst ==
  /\ mpc = "closeDst"
  /\ conn' = [conn EXCEPT !["dst"] = "closed"]
  /\ mpc' = "closeSrc"
  /\ UNCHANGED <<gpc, rdl, wdl, expired, pending, eof>>

\* handleTCP's deferred conn.Close().
CloseSrc ==
  /\ mpc = "closeSrc"
  /\ conn' = [conn EXCEPT !["src"] = "closed"]
  /\ mpc' = "done"
  /\ UNCHANGED <<gpc, rdl, wdl, expired, pending, eof>>

-----------------------------------------------------------------------------
(* The copy goroutine                                                      *)

\* res.outboundSize, res.Err = io.Copy(dst, src)
GoCopy ==
  /\ gpc = "copy"
  /\ \E next \in {"copy", "wake"} : CopyStep("up", gpc, next) /\ gpc' = next
  /\ UNCHANGED <<mpc, conn, rdl, wdl, expired, eof>>

\* Mutant of GoWake: the goroutine does not touch the deadlines.
GoWakeNoDeadline ==
  /\ gpc = "wake"
  /\ gpc' = "send"
  /\ UNCHANGED <<mpc, conn, rdl, wdl, expired, pending, eof>>

\* dst.SetDeadline(time.Now()); src.SetDeadline(time.Now()), then the
\* goroutine blocks on ch <- res until the handler receives.
GoWake ==
  /\ gpc = "wake"
  /\ WakeBoth
  /\ gpc' = "send"
  /\ UNCHANGED <<mpc, conn, expired, pending, eof>>

-----------------------------------------------------------------------------
(* The environment                                                         *)

\* The peer writing direction d sends bytes.
PeerSend(d) ==
  /\ conn[From[d]] = "open"
  /\ ~eof[d]
  /\ ~pending[d]
  /\ pending' = [pending EXCEPT ![d] = TRUE]
  /\ UNCHANGED <<mpc, gpc, conn, rdl, wdl, expired, eof>>

\* The peer writing direction d closes it (FIN, or a reset).
PeerClose(d) ==
  /\ ~eof[d]
  /\ eof' = [eof EXCEPT ![d] = TRUE]
  /\ UNCHANGED <<mpc, gpc, conn, rdl, wdl, expired, pending>>

\* tcpTimeout passes after SetWriteDeadlines.
Tick ==
  /\ ~expired
  /\ wdl["src"] # "none"
  /\ expired' = TRUE
  /\ UNCHANGED <<mpc, gpc, conn, rdl, wdl, pending, eof>>

Terminated ==
  /\ mpc = "done"
  /\ UNCHANGED vars

Main ==
  \/ ParseOriginDst \/ GetKcpConn \/ CreateTCPConn \/ SetWriteDeadlines
  \/ WriteHeader \/ MainCopy \/ MainWake \/ MainWait \/ CloseDst \/ CloseSrc

Go == GoCopy \/ GoWake

Next ==
  \/ Main
  \/ Go
  \/ \E d \in Dirs : PeerSend(d) \/ PeerClose(d)
  \/ Tick
  \/ Terminated

\* Both goroutines are scheduled by the Go runtime, and time passes; the
\* client and the remote server owe the relay nothing.
Fairness == WF_vars(Main) /\ WF_vars(Go) /\ WF_vars(Tick)

Spec == Init /\ [][Next]_vars

FairSpec == Spec /\ Fairness

-----------------------------------------------------------------------------
(* Properties                                                              *)

\* Neither connection is closed while the copy goroutine may still use it:
\* the deferred Closes run only after the goroutine has delivered its
\* result on ch.
ClosedAfterBothHalves ==
  (conn["src"] = "closed" \/ conn["dst"] = "closed") => gpc \in {"none", "done"}

\* Once either io.Copy has returned, the relay returns and both
\* connections get closed, whatever the peers do: the half that finished
\* first sets both deadlines to now, which unblocks the other half.
RelayReturns ==
  (mpc = "wake" \/ gpc = "wake") ~> (conn["src"] = "closed" /\ conn["dst"] = "closed")

PeersSilent == \A d \in Dirs : ~pending[d] /\ ~eof[d]

\* Spec section 8: "The TCP copy routine always returns after at most
\* tcpTimeout of idleness on either half": a relay whose peers both stay
\* silent still returns.
IdleRelayReturns == []PeersSilent => <>(mpc = "done")

-----------------------------------------------------------------------------
(* Refinement of the relay's lifecycle                                     *)

\* The stage of the relay the handler's position stands for.
StageOf ==
  CASE mpc \in {"parse", "kcp", "dial", "deadline", "header"} -> "setup"
    [] mpc \in {"copy", "wake", "wait"}                        -> "relay"
    [] mpc \in {"closeDst", "closeSrc"}                        -> "teardown"
    [] mpc = "done"                                            -> "done"

\* The io.Copy halves that have not returned.
HalvesOf == (IF mpc = "copy" THEN 1 ELSE 0) + (IF gpc = "copy" THEN 1 ELSE 0)

Lifecycle == INSTANCE TcpRelayLifecycle
               WITH stage <- StageOf, halves <- HalvesOf, conns <- conn

\* handleTCP and RelayTCPData implement the relay lifecycle: the deferred
\* Closes run only after both io.Copy calls have returned, every opened
\* connection is closed, and once one half returns (and wakes the other
\* through the deadlines) the relay tears down.
RefinesLifecycle == Lifecycle!FairSpec

=============================================================================
