--------------------------- MODULE BufferOwnership ---------------------------
(***************************************************************************)
(* What a leaky buffer pool promises the goroutines that share it, when    *)
(* they use it as they should: every buffer the pool has handed out is in  *)
(* one place at a time, the pool, one owner, or dropped.  A step of an     *)
(* owner takes pooled or new buffers, gives back buffers it owns (the pool *)
(* keeps each one or drops it), or hands buffers it owns to another owner; *)
(* a dropped buffer is garbage and never comes back.                       *)
(***************************************************************************)
CONSTANTS Buffers,  \* the buffers a pool can allocate
          Owners,   \* the goroutines that borrow buffers
          Pooled,   \* the place of a buffer queued in its pool
          Dropped   \* the place of a buffer the pool did not keep

VARIABLE owner      \* owner[b]: where allocated buffer b is

\* Owner o takes buffer b, queued in the pool or newly allocated.
Takes(o, b) ==
  /\ b \notin DOMAIN owner \/ owner[b] = Pooled
  /\ owner'[b] = o

\* Owner o gives back buffer b; the pool keeps it or drops it.
Returns(o, b) ==
  /\ b \in DOMAIN owner
  /\ owner[b] = o
  /\ owner'[b] \in {Pooled, Dropped}

\* Owner o hands buffer b to another owner.
Hands(o, b) ==
  /\ b \in DOMAIN owner
  /\ owner[b] = o
  /\ owner'[b] \in Owners \ {o}

Init == owner = [b \in {} |-> Pooled]

\* One step of owner o: every buffer whose place changes, or that is new,
\* is one o takes, gives back or hands on.
Step(o) ==
  /\ DOMAIN owner \subseteq DOMAIN owner'
  /\ DOMAIN owner' \subseteq Buffers
  /\ \A b \in DOMAIN owner' :
       (b \notin DOMAIN owner \/ owner'[b] # owner[b]) =>
         Takes(o, b) \/ Returns(o, b) \/ Hands(o, b)

Next == \E o \in Owners : Step(o)

Spec == Init /\ [][Next]_owner

=============================================================================
