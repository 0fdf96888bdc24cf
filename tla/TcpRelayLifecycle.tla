-------------------------- MODULE TcpRelayLifecycle --------------------------
(***************************************************************************)
(* What the relay of one redirected TCP connection promises, without its  *)
(* goroutines, deadlines or peers: it sets up the tunnel or gives up,      *)
(* relays with two copy halves, tears down only once both halves have      *)
(* returned, and closes every connection it opened.  Once one half has     *)
(* returned the other returns too, and a teardown always completes; while  *)
(* both halves run, nothing obliges either to return.                      *)
(***************************************************************************)
EXTENDS Naturals

Conns == {"src", "dst"}

VARIABLES stage,   \* "setup", "relay", "teardown" or "done"
          halves,  \* the number of copy halves still running
          conns    \* conns[c]: "unused", "open" or "closed"

avars == <<stage, halves, conns>>

Init ==
  /\ stage = "setup"
  /\ halves = 0
  /\ conns = [c \in Conns |-> IF c = "src" THEN "open" ELSE "unused"]

\* The remote connection is opened.
OpenDst ==
  /\ stage = "setup"
  /\ conns["dst"] = "unused"
  /\ conns' = [conns EXCEPT !["dst"] = "open"]
  /\ UNCHANGED <<stage, halves>>

\* Both copy halves start, over an open remote connection.
StartRelay ==
  /\ stage = "setup"
  /\ conns["dst"] = "open"
  /\ stage' = "relay"
  /\ halves' = 2
  /\ UNCHANGED conns

\* Setting up fails and the relay goes straight to its teardown.
Abort ==
  /\ stage = "setup"
  /\ stage' = "teardown"
  /\ UNCHANGED <<halves, conns>>

SetupStep == OpenDst \/ StartRelay \/ Abort

\* A copy half returns.
HalfEnds ==
  /\ stage = "relay"
  /\ halves > 0
  /\ halves' = halves - 1
  /\ UNCHANGED <<stage, conns>>

\* The second half returns, the first having returned already.
LastHalfEnds == HalfEnds /\ halves = 1

\* Both halves have returned: the relay tears down.
Teardown ==
  /\ stage = "relay"
  /\ halves = 0
  /\ stage' = "teardown"
  /\ UNCHANGED <<halves, conns>>

\* A connection is closed; closing the last open one ends the relay.
Close(c) ==
  /\ stage = "teardown"
  /\ conns[c] = "open"
  /\ conns' = [conns EXCEPT ![c] = "closed"]
  /\ stage' = IF \A o \in Conns \ {c} : conns[o] # "open" THEN "done" ELSE "teardown"
  /\ UNCHANGED halves

Next ==
  \/ SetupStep
  \/ HalfEnds
  \/ Teardown
  \/ \E c \in Conns : Close(c)

Spec == Init /\ [][Next]_avars

FairSpec ==
  /\ Spec
  /\ WF_avars(SetupStep)
  /\ WF_avars(LastHalfEnds)
  /\ WF_avars(Teardown)
  /\ WF_avars(\E c \in Conns : Close(c))

=============================================================================
