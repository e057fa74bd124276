----------------------------- MODULE GhostQueue -----------------------------
(***************************************************************************)
(* The ghost queue of the S3-FIFO policy (eviction/ghost.rs): hashes of    *)
(* keys dropped from the admission pool, in a VecDeque (the order of       *)
(* eviction) and an AHashSet (membership).  The eviction mutex guards each *)
(* call, so a call is one step; the insert path holds the mutex twice, once*)
(* for ghost_contains and once for ghost_remove, and other threads run in  *)
(* between.  A batch of s3fifo_ghost_remaining runs under one lock; here   *)
(* each hash of the batch is a step, which only adds interleavings.        *)
(***************************************************************************)
EXTENDS Integers, Sequences, FiniteSets

CONSTANTS
  Hashes,    \* 64-bit key hashes
  NoHash,    \* a thread that is not between contains and remove
  Inserters, \* threads inserting items
  Capacity   \* ghost_capacity: max(1024, nseg * 64) under S3Fifo

ASSUME CapacityPositive == Capacity \in Nat \ {0}
ASSUME NoHashIsNone == NoHash \notin Hashes

VARIABLES
  queue,     \* GhostQueue.queue
  set,       \* GhostQueue.set
  routing,   \* per thread: the hash ghost_contains answered true for
  order      \* history: the members of set, first inserted first

ghostVars == <<queue, set, routing, order>>

GhostInit ==
  /\ queue = <<>>
  /\ set = {}
  /\ routing = [t \in Inserters |-> NoHash]
  /\ order = <<>>

\* What the first k pops of the eviction loop of insert take off the queue.
Popped(k) == {queue[i] : i \in 1..k}

\* Slip: the loop runs while the set is over capacity, not at it.
HasRoomOffByOne(k) == Cardinality(set \ Popped(k)) <= Capacity

\* Slip: the loop measures the queue, stale copies included.
HasRoomInQueue(k) == Len(queue) - k < Capacity

\* The loop's exit test after k pops.
HasRoom(k) == Cardinality(set \ Popped(k)) < Capacity

\* How many times the loop pops: until there is room or the queue is empty.
Pops ==
  CHOOSE k \in 0..Len(queue) :
    /\ HasRoom(k) \/ k = Len(queue)
    /\ \A j \in 0..Len(queue) : j < k => ~HasRoom(j)

\* GhostQueue::insert, from the eviction of an admission segment. A hash already
\* in the set returns early.
Insert(h) ==
  /\ h \notin set
  /\ queue' = Append(SubSeq(queue, Pops + 1, Len(queue)), h)
  /\ set' = (set \ Popped(Pops)) \cup {h}
  /\ order' = Append(SelectSeq(order, LAMBDA x : x \notin Popped(Pops)), h)
  /\ UNCHANGED routing

\* reserve_and_define: ghost_contains answered true. On false the insert goes to
\* the admission pool and leaves the ghost queue alone.
Contains(t, h) ==
  /\ routing[t] = NoHash
  /\ h \in set
  /\ routing' = [routing EXCEPT ![t] = h]
  /\ UNCHANGED <<queue, set, order>>

\* Slip: remove takes the front of the queue for the removed hash's entry.
RemovePopsFront(t) ==
  /\ routing[t] # NoHash
  /\ set' = set \ {routing[t]}
  /\ routing' = [routing EXCEPT ![t] = NoHash]
  /\ order' = SelectSeq(order, LAMBDA x : x # routing[t])
  /\ queue' = IF queue = <<>> THEN queue ELSE Tail(queue)

\* reserve_and_define: ghost_remove. The set forgets the hash, the queue keeps it.
Remove(t) ==
  /\ routing[t] # NoHash
  /\ set' = set \ {routing[t]}
  /\ routing' = [routing EXCEPT ![t] = NoHash]
  /\ order' = SelectSeq(order, LAMBDA x : x # routing[t])
  /\ UNCHANGED queue

GhostNext ==
  \/ \E h \in Hashes : Insert(h)
  \/ \E t \in Inserters : Remove(t) \/ \E h \in Hashes : Contains(t, h)

GhostSpec == GhostInit /\ [][GhostNext]_ghostVars

-----------------------------------------------------------------------------
\* What each variable holds. The queue is any sequence of hashes: a remove and a
\* later insert leave two copies of one hash in it.
GhostTypeOK ==
  /\ queue \in Seq(Hashes)
  /\ set \subseteq Hashes /\ IsFiniteSet(set)
  /\ routing \in [Inserters -> Hashes \cup {NoHash}]

\* docs/s3fifo.md: "A fixed-capacity set". insert's loop leaves room for the hash
\* it adds whatever stale copies it has to pop on the way.
GhostBounded == Cardinality(set) <= Capacity

\* Every remembered hash is still in the queue, so the loop of insert can always
\* find one to evict and its "queue is empty" exit is never taken with a full set.
MembersQueued == set \subseteq {queue[i] : i \in 1..Len(queue)}

\* A remembered hash is forgotten by the insert that hit it, or by an insert into
\* a full set, which forgets no other: stale copies popped from the queue
\* (hashes removed before) cost no live entry.
ForgetsOneWhenFull ==
  [][\A h \in set \ set' :
       /\ set \ set' = {h}
       /\ \/ \E t \in Inserters : routing[t] = h /\ routing'[t] = NoHash
          \/ Cardinality(set) = Capacity]_ghostVars

\* docs/s3fifo.md:35 "stored as a `VecDeque` (FIFO eviction)": a full set forgets
\* the hash inserted first.
EvictsOldest ==
  [][\A h \in set \ set' :
       \/ \E t \in Inserters : routing[t] = h /\ routing'[t] = NoHash
       \/ h = Head(order)]_ghostVars

=============================================================================
