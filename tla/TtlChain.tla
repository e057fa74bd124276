------------------------------ MODULE TtlChain ------------------------------
(***************************************************************************)
(* The segment chains of the TTL buckets (ttl_buckets/ttl_bucket.rs) and   *)
(* the surgery on them: a writer extends a chain past a full tail, expire  *)
(* and clear drain it from the head, an evictor drops one Sealed segment,  *)
(* an S3-FIFO pass puts a copy in a segment's place, a merge folds a run of*)
(* segments into a spare.  A bucket's chain_lock serializes the surgery on *)
(* its chain; what a thread learned before it took the lock (a tail, a     *)
(* generation, a segment id, a TTL) may be stale by then, and a segment may*)
(* have moved to another bucket.                                           *)
(*                                                                         *)
(* One step is what a thread does between two points where another thread  *)
(* can change what it looks at.  Pins are the subject of SegmentLifecycle; *)
(* here a drained segment is either recycled or, if a reader holds it,     *)
(* condemned, and a condemned segment is freed at any later time.          *)
(***************************************************************************)
EXTENDS Integers, FiniteSets

CONSTANTS
  Segments, Buckets, Threads,
  None,        \* no segment, no bucket, no thread (0 in the packed words)
  Ttl,         \* what bucket.ttl adds to create_at, one value for all buckets
  MaxMerge,    \* Policy::Merge.max
  MaxTime,     \* bound: the coarse clock stops here
  MaxGen       \* bound: a segment past this generation is not reserved again

ASSUME NoneIsNone == None \notin Segments \cup Buckets \cup Threads
ASSUME ChainBounds ==
  Ttl \in Nat /\ MaxMerge \in Nat /\ MaxTime \in Nat /\ MaxGen \in Nat

VARIABLES
  state, next, prev,   \* header.metadata: state and chain links
  ttl,                 \* header.ttl, as the bucket it identifies
  created,             \* header.create_at
  gen,                 \* header.generation
  full,                \* write_offset leaves no room for the next item
  head, tail, lock,    \* per bucket: head and tail words, holder of chain_lock
  clock,               \* the coarse clock
  pc, job, bk, cur,    \* per thread: step, kind of pass, bucket, segment
  mine,                \* per thread: the segment it has reserved
  obs,                 \* per thread: generation or time read before the lock
  nx, pv,              \* per thread: links captured before a segment leaves
  merged,              \* per thread: candidates consumed by this merge pass
  limit                \* history: the earliest create_at that the items in a segment
                       \* had in the segment they were written to (MaxTime: no items)

header == <<state, next, prev, ttl, created, gen, full, limit>>
bucket == <<head, tail, lock>>
local  == <<pc, job, bk, cur, mine, obs, nx, pv, merged>>
vars   == <<header, bucket, clock, local>>

Jobs == {"none", "expand", "expire", "clear", "drop", "promote", "merge"}
Pcs == {"idle", "read_gen", "try_alloc", "expand_reserve", "expand_lock",
        "drain_lock", "drain_walk", "spare", "evict_lock", "member_ttl", "claim",
        "dest", "link", "copy", "finalize", "release", "splice", "after"}
\* Where a thread holds the chain lock of the bucket it works in.
LockedPcs == {"drain_walk", "member_ttl", "claim", "dest", "link", "copy", "finalize",
              "release", "splice", "after"}
States == {"Free", "Reserved", "Live", "Sealed", "Relinking", "Draining",
           "AwaitingRelease"}

Init ==
  /\ state = [s \in Segments |-> "Free"]
  /\ next = [s \in Segments |-> None]
  /\ prev = [s \in Segments |-> None]
  /\ ttl = [s \in Segments |-> None]
  /\ created = [s \in Segments |-> 0]
  /\ gen = [s \in Segments |-> 0]
  /\ full = [s \in Segments |-> FALSE]
  /\ limit = [s \in Segments |-> MaxTime]
  /\ head = [b \in Buckets |-> None]
  /\ tail = [b \in Buckets |-> None]
  /\ lock = [b \in Buckets |-> None]
  /\ clock = 0
  /\ pc = [t \in Threads |-> "idle"]
  /\ job = [t \in Threads |-> "none"]
  /\ bk = [t \in Threads |-> None]
  /\ cur = [t \in Threads |-> None]
  /\ mine = [t \in Threads |-> None]
  /\ obs = [t \in Threads |-> 0]
  /\ nx = [t \in Threads |-> None]
  /\ pv = [t \in Threads |-> None]
  /\ merged = [t \in Threads |-> 0]

-----------------------------------------------------------------------------
Go(t, p) ==
  /\ pc' = [pc EXCEPT ![t] = p]
  /\ UNCHANGED <<job, bk, cur, mine, obs, nx, pv, merged>>

\* The operation is over; the thread forgets what it learned.
Finish(t) ==
  /\ pc' = [pc EXCEPT ![t] = "idle"]
  /\ job' = [job EXCEPT ![t] = "none"]
  /\ bk' = [bk EXCEPT ![t] = None]
  /\ cur' = [cur EXCEPT ![t] = None]
  /\ mine' = [mine EXCEPT ![t] = None]
  /\ obs' = [obs EXCEPT ![t] = 0]
  /\ nx' = [nx EXCEPT ![t] = None]
  /\ pv' = [pv EXCEPT ![t] = None]
  /\ merged' = [merged EXCEPT ![t] = 0]

Begin(t, p, j, b, s, o) ==
  /\ pc[t] = "idle"
  /\ pc' = [pc EXCEPT ![t] = p]
  /\ job' = [job EXCEPT ![t] = j]
  /\ bk' = [bk EXCEPT ![t] = b]
  /\ cur' = [cur EXCEPT ![t] = s]
  /\ obs' = [obs EXCEPT ![t] = o]
  /\ UNCHANGED <<mine, nx, pv, merged>>

\* Slip: the guard outlives the pass.
UnlockForgotten(b) == lock' = lock

\* The drop of the chain lock's guard.
Unlock(b) == lock' = [lock EXCEPT ![b] = None]

\* Segments reserve_free or reserve_spare may hand out.
Reservable == {s \in Segments : state[s] = "Free" /\ gen[s] <= MaxGen}

\* try_reserve: links cleared, statistics reset, creation time stamped.
TryReserve(s, b) ==
  /\ state' = [state EXCEPT ![s] = "Reserved"]
  /\ next' = [next EXCEPT ![s] = None]
  /\ prev' = [prev EXCEPT ![s] = None]
  /\ created' = [created EXCEPT ![s] = clock]
  /\ limit' = [limit EXCEPT ![s] = MaxTime]
  /\ full' = [full EXCEPT ![s] = FALSE]
  /\ ttl' = [ttl EXCEPT ![s] = b]
  /\ UNCHANGED gen

\* release_unused: never published, so the generation stays.
ReleaseUnused(s) ==
  /\ state' = [state EXCEPT ![s] = "Free"]
  /\ UNCHANGED <<next, prev, ttl, created, gen, full, limit>>

Tick ==
  /\ clock < MaxTime
  /\ clock' = clock + 1
  /\ UNCHANGED <<header, bucket, local>>

\* Writers use up the tail (try_alloc_item answers Full from then on).
Fill(s) ==
  /\ state[s] = "Live" /\ ~full[s]
  /\ full' = [full EXCEPT ![s] = TRUE]
  /\ UNCHANGED <<state, next, prev, ttl, created, gen, limit, bucket, clock, local>>

-----------------------------------------------------------------------------
\* reserve: the tail word, read without the lock. An empty bucket has no
\* generation to observe.
ReadTail(t, b) ==
  /\ Begin(t, IF tail[b] = None THEN "expand_reserve" ELSE "read_gen",
           "expand", b, tail[b], 0)
  /\ UNCHANGED <<header, bucket, clock>>

\* reserve: the generation that guards the seal (H3), a second unlocked read.
ReadGen(t) ==
  /\ pc[t] = "read_gen"
  /\ pc' = [pc EXCEPT ![t] = "try_alloc"]
  /\ obs' = [obs EXCEPT ![t] = gen[cur[t]]]
  /\ UNCHANGED <<job, bk, cur, mine, nx, pv, merged, header, bucket, clock>>

\* reserve: try_alloc_item. Only a full Live tail leads to try_expand; a granted
\* reservation and NotWritable (the loop starts over) leave the chain alone.
TryAlloc(t) ==
  /\ pc[t] = "try_alloc"
  /\ IF state[cur[t]] = "Live" /\ full[cur[t]] THEN Go(t, "expand_reserve") ELSE Finish(t)
  /\ UNCHANGED <<header, bucket, clock>>

\* try_expand: a free segment, stamped with the bucket's TTL before the lock.
ExpandReserve(t) ==
  /\ pc[t] = "expand_reserve"
  /\ \E s \in Reservable :
       /\ TryReserve(s, bk[t])
       /\ mine' = [mine EXCEPT ![t] = s]
  /\ pc' = [pc EXCEPT ![t] = "expand_lock"]
  /\ UNCHANGED <<job, bk, cur, obs, nx, pv, merged, bucket, clock>>

\* try_expand: NoFreeSegments.
ExpandNoFree(t) ==
  /\ pc[t] = "expand_reserve"
  /\ Reservable = {}
  /\ Finish(t)
  /\ UNCHANGED <<header, bucket, clock>>

\* Slip: H3 without the generation.
TailUnchangedNoGen(t) == tail[bk[t]] = cur[t]

\* H3, under the lock: the observed tail is still this bucket's, in the same
\* incarnation (for an empty bucket, the tail word is still empty).
TailUnchanged(t) ==
  /\ tail[bk[t]] = cur[t]
  /\ cur[t] # None => gen[cur[t]] = obs[t]

\* try_expand under the lock: the tail moved, the reserved segment goes back.
ExpandBail(t) ==
  /\ pc[t] = "expand_lock" /\ lock[bk[t]] = None
  /\ ~TailUnchanged(t)
  /\ ReleaseUnused(mine[t])
  /\ Finish(t)
  /\ UNCHANGED <<bucket, clock>>

\* try_expand under the lock: seal the observed tail with its next pointer, link
\* the new segment behind it and publish it as Live; or elect the first segment of
\* an empty bucket.
ExpandSeal(t) ==
  LET b == bk[t]  old == cur[t]  s == mine[t] IN
  /\ pc[t] = "expand_lock" /\ lock[b] = None
  /\ TailUnchanged(t)
  /\ old # None => state[old] = "Live"
  /\ state' = [x \in Segments |-> CASE x = s -> "Live" [] x = old -> "Sealed"
                                    [] OTHER -> state[x]]
  /\ next' = [x \in Segments |-> CASE x = s -> None [] x = old -> s [] OTHER -> next[x]]
  /\ prev' = [prev EXCEPT ![s] = old]
  /\ tail' = [tail EXCEPT ![b] = s]
  /\ head' = IF old = None THEN [head EXCEPT ![b] = s] ELSE head
  /\ limit' = [limit EXCEPT ![s] = created[s]]
  /\ Finish(t)
  /\ UNCHANGED <<ttl, created, gen, full, lock, clock>>

-----------------------------------------------------------------------------
\* TtlBucket::expire reads the clock, then drain_chain waits for the lock;
\* TtlBucket::clear has no cutoff.
DrainBegin(t, b, j) ==
  /\ Begin(t, "drain_lock", j, b, None, IF j = "expire" THEN clock ELSE 0)
  /\ UNCHANGED <<header, bucket, clock>>

DrainLock(t) ==
  /\ pc[t] = "drain_lock" /\ lock[bk[t]] = None
  /\ lock' = [lock EXCEPT ![bk[t]] = t]
  /\ pc' = [pc EXCEPT ![t] = "drain_walk"]
  /\ cur' = [cur EXCEPT ![t] = head[bk[t]]]
  /\ UNCHANGED <<job, bk, mine, obs, nx, pv, merged, header, head, tail, clock>>

\* The walk ends: past the tail, or at the first segment not yet expired.
DrainEnd(t) ==
  cur[t] # None => job[t] = "expire" /\ created[cur[t]] + Ttl > obs[t]

DrainStop(t) ==
  /\ pc[t] = "drain_walk" /\ DrainEnd(t)
  /\ Unlock(bk[t])
  /\ Finish(t)
  /\ UNCHANGED <<header, head, tail, clock>>

\* drain_chain: claim the segment from Sealed or Live, then move the bucket's head
\* and tail words past it. The links are captured before anything is cleared.
DrainClaim(t) ==
  LET s == cur[t]  b == bk[t] IN
  /\ pc[t] = "drain_walk" /\ ~DrainEnd(t)
  /\ state[s] \in {"Sealed", "Live"}
  /\ state' = [state EXCEPT ![s] = "Draining"]
  /\ nx' = [nx EXCEPT ![t] = next[s]]
  /\ pv' = [pv EXCEPT ![t] = prev[s]]
  /\ head' = IF head[b] = s THEN [head EXCEPT ![b] = next[s]] ELSE head
  /\ tail' = IF tail[b] = s THEN [tail EXCEPT ![b] = prev[s]] ELSE tail
  /\ pc' = [pc EXCEPT ![t] = "finalize"]
  /\ UNCHANGED <<job, bk, cur, mine, obs, merged, next, prev, ttl, created, gen, full,
                 limit, lock, clock>>

-----------------------------------------------------------------------------
\* A pass over one segment, or the merge that starts at it. The segment id is a
\* hint read without the lock (a ranking, a random probe, an unlocked walk, the
\* merge cursor, a location), so it is any segment that was ever linked. The
\* bucket of a drop or a promotion is the one its TTL names now; a merge is given
\* the bucket along with the cursor.
PassBegin(t, s, b, j) ==
  /\ j \in {"drop", "promote"} => b = ttl[s]
  /\ Begin(t, IF j = "merge" THEN "spare" ELSE "evict_lock", j, b, s, 0)
  /\ UNCHANGED <<header, bucket, clock>>

\* merge_evict, merge_compact: reserve_spare. Without one, merge_evict drops the
\* start whole (merge_evict_fallback_drop) and merge_compact gives up.
MergeSpare(t) ==
  /\ pc[t] = "spare"
  /\ \E s \in Reservable :
       /\ TryReserve(s, ttl[s])
       /\ mine' = [mine EXCEPT ![t] = s]
  /\ pc' = [pc EXCEPT ![t] = "evict_lock"]
  /\ UNCHANGED <<job, bk, cur, obs, nx, pv, merged, bucket, clock>>

MergeFallback(t) ==
  /\ pc[t] = "spare" /\ Reservable = {}
  /\ pc' = [pc EXCEPT ![t] = "evict_lock"]
  /\ job' = [job EXCEPT ![t] = "drop"]
  /\ UNCHANGED <<bk, cur, mine, obs, nx, pv, merged, header, bucket, clock>>

MergeGiveUp(t) ==
  /\ pc[t] = "spare" /\ Reservable = {}
  /\ Finish(t)
  /\ UNCHANGED <<header, bucket, clock>>

\* Not a member, or the claim is lost: unlock, and return an unused spare.
Abandon(t) ==
  /\ Unlock(bk[t])
  /\ IF mine[t] = None THEN UNCHANGED header ELSE ReleaseUnused(mine[t])
  /\ Finish(t)
  /\ UNCHANGED <<head, tail, clock>>

\* The pass takes the bucket's lock. is_sealed_member reads the state, then the
\* TTL.
EvictLock(t) ==
  /\ pc[t] = "evict_lock" /\ lock[bk[t]] = None
  /\ state[cur[t]] = "Sealed"
  /\ lock' = [lock EXCEPT ![bk[t]] = t]
  /\ Go(t, "member_ttl")
  /\ UNCHANGED <<header, head, tail, clock>>

NotSealed(t) ==
  /\ pc[t] = "evict_lock" /\ lock[bk[t]] = None
  /\ state[cur[t]] # "Sealed"
  /\ Abandon(t)

\* Slip: the bucket is taken on trust from the TTL read before the lock.
MemberTtlTrusted(t) ==
  /\ pc[t] = "member_ttl"
  /\ Go(t, "claim")
  /\ UNCHANGED <<header, bucket, clock>>

MemberTtl(t) ==
  /\ pc[t] = "member_ttl"
  /\ \/ /\ ttl[cur[t]] = bk[t]
        /\ Go(t, "claim")
        /\ UNCHANGED <<header, bucket, clock>>
     \/ ttl[cur[t]] # bk[t] /\ Abandon(t)

\* claim_for_drain (a pinned candidate of a merge fails can_evict just before it).
Claim(t) ==
  LET s == cur[t] IN
  /\ pc[t] = "claim" /\ state[s] = "Sealed"
  /\ state' = [state EXCEPT ![s] = "Draining"]
  /\ nx' = [nx EXCEPT ![t] = next[s]]
  /\ pv' = [pv EXCEPT ![t] = prev[s]]
  /\ pc' = [pc EXCEPT ![t] = CASE job[t] = "drop" -> "finalize"
                                [] job[t] = "promote" -> "dest"
                                [] job[t] = "merge" -> "link"]
  /\ UNCHANGED <<job, bk, cur, mine, obs, merged, next, prev, ttl, created, gen, full,
                 limit, bucket, clock>>

ClaimLost(t) ==
  /\ pc[t] = "claim"
  /\ state[cur[t]] # "Sealed" \/ job[t] = "merge"
  /\ Abandon(t)

\* s3fifo_evict_admission, s3fifo_evict_main: a target for the survivors.
PromoteDest(t) ==
  /\ pc[t] = "dest"
  /\ \E s \in Reservable :
       /\ TryReserve(s, bk[t])
       /\ mine' = [mine EXCEPT ![t] = s]
  /\ pc' = [pc EXCEPT ![t] = "link"]
  /\ UNCHANGED <<job, bk, cur, obs, nx, pv, merged, bucket, clock>>

\* No target: every item is dropped with the segment.
PromoteNoDest(t) ==
  /\ pc[t] = "dest" /\ Reservable = {}
  /\ Go(t, "finalize")
  /\ UNCHANGED <<header, bucket, clock>>

\* Slip: the destination keeps its own creation time.
LinkDestFresh(t) ==
  LET s == cur[t]  d == mine[t]  p == prev[s]  b == bk[t] IN
  /\ pc[t] = "link"
  /\ state' = [state EXCEPT ![d] = "Relinking"]
  /\ ttl' = [ttl EXCEPT ![d] = ttl[s]]
  /\ next' = [x \in Segments |-> CASE x = d -> s [] x = p -> d [] OTHER -> next[x]]
  /\ prev' = [x \in Segments |-> CASE x = d -> p [] x = s -> d [] OTHER -> prev[x]]
  /\ head' = IF p = None THEN [head EXCEPT ![b] = d] ELSE head
  /\ Go(t, "copy")
  /\ UNCHANGED <<created, gen, full, limit, tail, lock, clock>>

\* Slip: the destination goes to the head of the chain.
LinkDestAtHead(t) ==
  LET s == cur[t]  d == mine[t]  h == head[bk[t]]  b == bk[t] IN
  /\ pc[t] = "link"
  /\ state' = [state EXCEPT ![d] = "Relinking"]
  /\ ttl' = [ttl EXCEPT ![d] = ttl[s]]
  /\ created' = [created EXCEPT ![d] = created[s]]
  /\ next' = [next EXCEPT ![d] = h]
  /\ prev' = [x \in Segments |-> CASE x = d -> None [] x = h -> d [] OTHER -> prev[x]]
  /\ head' = [head EXCEPT ![b] = d]
  /\ Go(t, "copy")
  /\ UNCHANGED <<gen, full, limit, tail, lock, clock>>

\* configure_spare or set_ttl, inherit_created, link_dest_before: the destination
\* takes the source's TTL, creation time and place in the chain, as Relinking.
LinkDest(t) ==
  LET s == cur[t]  d == mine[t]  p == prev[s]  b == bk[t] IN
  /\ pc[t] = "link"
  /\ state' = [state EXCEPT ![d] = "Relinking"]
  /\ ttl' = [ttl EXCEPT ![d] = ttl[s]]
  /\ created' = [created EXCEPT ![d] = created[s]]
  /\ next' = [x \in Segments |-> CASE x = d -> s [] x = p -> d [] OTHER -> next[x]]
  /\ prev' = [x \in Segments |-> CASE x = d -> p [] x = s -> d [] OTHER -> prev[x]]
  /\ head' = IF p = None THEN [head EXCEPT ![b] = d] ELSE head
  /\ Go(t, "copy")
  /\ UNCHANGED <<gen, full, limit, tail, lock, clock>>

Earlier(a, b) == IF a <= b THEN a ELSE b

\* copy_into or s3fifo_promote_from: items of the claimed segment move to the
\* destination. A promotion then seals its destination; a merge keeps filling it
\* and counts the candidate. The links are read again: LinkDest changed them.
CopyOut(t) ==
  LET s == cur[t]  d == mine[t] IN
  /\ pc[t] = "copy"
  /\ limit' = [limit EXCEPT ![d] = Earlier(limit[d], limit[s])]
  /\ state' = IF job[t] = "promote" THEN [state EXCEPT ![d] = "Sealed"] ELSE state
  /\ merged' = IF job[t] = "merge" THEN [merged EXCEPT ![t] = merged[t] + 1] ELSE merged
  /\ nx' = [nx EXCEPT ![t] = next[s]]
  /\ pv' = [pv EXCEPT ![t] = prev[s]]
  /\ pc' = [pc EXCEPT ![t] = "finalize"]
  /\ UNCHANGED <<job, bk, cur, mine, obs, next, prev, ttl, created, gen, full, bucket,
                 clock>>

-----------------------------------------------------------------------------
\* finalize_drained, drain_chain: with no reader, recycle. unlink patches the
\* neighbours the segment's own links name.
Unlink(t) ==
  LET s == cur[t]  n == next[s]  p == prev[s] IN
  /\ pc[t] = "finalize"
  /\ prev' = [x \in Segments |-> IF x = n THEN p ELSE prev[x]]
  /\ next' = [x \in Segments |-> IF x = p THEN n ELSE next[x]]
  /\ Go(t, "release")
  /\ UNCHANGED <<state, ttl, created, gen, full, limit, bucket, clock>>

\* A used incarnation ends: write statistics reset, generation bumped.
FreeUsed(s) ==
  /\ state' = [state EXCEPT ![s] = "Free"]
  /\ gen' = [gen EXCEPT ![s] = gen[s] + 1]
  /\ full' = [full EXCEPT ![s] = FALSE]
  /\ limit' = [limit EXCEPT ![s] = MaxTime]

\* recycle: try_release_drained, and the id goes back to a queue.
Release(t) ==
  LET s == cur[t] IN
  /\ pc[t] = "release"
  /\ FreeUsed(s)
  /\ next' = [next EXCEPT ![s] = None]
  /\ prev' = [prev EXCEPT ![s] = None]
  /\ Go(t, "after")
  /\ UNCHANGED <<ttl, created, bucket, clock>>

\* condemn: a reader holds the segment. cas_condemn clears its links.
Condemn(t) ==
  LET s == cur[t] IN
  /\ pc[t] = "finalize"
  /\ state' = [state EXCEPT ![s] = "AwaitingRelease"]
  /\ next' = [next EXCEPT ![s] = None]
  /\ prev' = [prev EXCEPT ![s] = None]
  /\ Go(t, "splice")
  /\ UNCHANGED <<ttl, created, gen, full, limit, bucket, clock>>

\* condemn: the neighbours are patched from the captured links. The segment may
\* be free, and in another bucket, by now.
Splice(t) ==
  LET n == nx[t]  p == pv[t] IN
  /\ pc[t] = "splice"
  /\ next' = [x \in Segments |-> IF x = p THEN n ELSE next[x]]
  /\ prev' = [x \in Segments |-> IF x = n THEN p ELSE prev[x]]
  /\ Go(t, "after")
  /\ UNCHANGED <<state, ttl, created, gen, full, limit, bucket, clock>>

\* The last reader, a backing-out reader or the condemner frees the segment.
CondemnedFreed(s) ==
  /\ state[s] = "AwaitingRelease"
  /\ FreeUsed(s)
  /\ UNCHANGED <<next, prev, ttl, created, bucket, clock, local>>

\* drain_chain goes on with the captured next.
DrainNext(t) ==
  /\ pc[t] = "after" /\ job[t] \in {"expire", "clear"}
  /\ pc' = [pc EXCEPT ![t] = "drain_walk"]
  /\ cur' = [cur EXCEPT ![t] = nx[t]]
  /\ nx' = [nx EXCEPT ![t] = None]
  /\ pv' = [pv EXCEPT ![t] = None]
  /\ UNCHANGED <<job, bk, mine, obs, merged, header, bucket, clock>>

\* Slip: the head word still names the segment that left.
PassEndNoFixup(t) ==
  /\ pc[t] = "after" /\ job[t] \in {"drop", "promote"}
  /\ Unlock(bk[t])
  /\ Finish(t)
  /\ UNCHANGED <<header, head, tail, clock>>

\* evict, remove_at, merge_evict_fallback_drop, s3fifo_evict_*: a segment that had
\* no predecessor was the head.
PassEnd(t) ==
  /\ pc[t] = "after" /\ job[t] \in {"drop", "promote"}
  /\ head' = IF pv[t] = None THEN [head EXCEPT ![bk[t]] = nx[t]] ELSE head
  /\ Unlock(bk[t])
  /\ Finish(t)
  /\ UNCHANGED <<header, tail, clock>>

\* The merge loop's own limits: a next candidate, and not past max_merge.
MayMerge(t) == nx[t] # None /\ merged[t] <= MaxMerge

\* merge_evict, merge_compact: claim the next candidate of the chain.
MergeClaimNext(t) ==
  /\ pc[t] = "after" /\ job[t] = "merge"
  /\ MayMerge(t)
  /\ state[nx[t]] = "Sealed"
  /\ state' = [state EXCEPT ![nx[t]] = "Draining"]
  /\ cur' = [cur EXCEPT ![t] = nx[t]]
  /\ pc' = [pc EXCEPT ![t] = "copy"]
  /\ UNCHANGED <<job, bk, mine, obs, nx, pv, merged, next, prev, ttl, created, gen, full,
                 limit, bucket, clock>>

\* merge_evict, merge_compact: the loop ends (no candidate, enough merged, the
\* candidate is the Live tail or pinned, or the spare is full) and
\* publish_dest_sealed makes the spare a candidate of later passes.
MergeEnd(t) ==
  /\ pc[t] = "after" /\ job[t] = "merge"
  /\ state' = [state EXCEPT ![mine[t]] = "Sealed"]
  /\ Unlock(bk[t])
  /\ Finish(t)
  /\ UNCHANGED <<next, prev, ttl, created, gen, full, limit, head, tail, clock>>

-----------------------------------------------------------------------------
Expand(t) ==
  \/ \E b \in Buckets : ReadTail(t, b)
  \/ ReadGen(t) \/ TryAlloc(t)
  \/ ExpandReserve(t) \/ ExpandNoFree(t) \/ ExpandBail(t) \/ ExpandSeal(t)

Drain(t) ==
  \/ \E b \in Buckets, j \in {"expire", "clear"} : DrainBegin(t, b, j)
  \/ DrainLock(t) \/ DrainStop(t) \/ DrainClaim(t) \/ DrainNext(t)

Pass(t) ==
  \/ \E s \in Segments, b \in Buckets, j \in {"drop", "promote", "merge"} :
       PassBegin(t, s, b, j)
  \/ MergeSpare(t) \/ MergeFallback(t) \/ MergeGiveUp(t)
  \/ EvictLock(t) \/ NotSealed(t) \/ MemberTtl(t) \/ Claim(t) \/ ClaimLost(t)
  \/ PromoteDest(t) \/ PromoteNoDest(t) \/ LinkDest(t) \/ CopyOut(t)
  \/ PassEnd(t) \/ MergeClaimNext(t) \/ MergeEnd(t)

Leave(t) ==
  Unlink(t) \/ Release(t) \/ Condemn(t) \/ Splice(t)

Next ==
  \/ Tick
  \/ \E s \in Segments : Fill(s) \/ CondemnedFreed(s)
  \/ \E t \in Threads : Expand(t) \/ Drain(t) \/ Pass(t) \/ Leave(t)

Spec == Init /\ [][Next]_vars

-----------------------------------------------------------------------------
\* What each variable holds. merged is bounded by the merge loop's own limit, one
\* past MaxMerge, and a chain lock is held by the threads in the locked part of a
\* pass over that bucket and by nobody else.
TypeOK ==
  /\ state \in [Segments -> States]
  /\ next \in [Segments -> Segments \cup {None}]
  /\ prev \in [Segments -> Segments \cup {None}]
  /\ ttl \in [Segments -> Buckets \cup {None}]
  /\ created \in [Segments -> 0..MaxTime]
  /\ limit \in [Segments -> 0..MaxTime]
  /\ gen \in [Segments -> Nat]
  /\ full \in [Segments -> BOOLEAN]
  /\ head \in [Buckets -> Segments \cup {None}]
  /\ tail \in [Buckets -> Segments \cup {None}]
  /\ lock \in [Buckets -> Threads \cup {None}]
  /\ clock \in 0..MaxTime
  /\ pc \in [Threads -> Pcs]
  /\ job \in [Threads -> Jobs]
  /\ bk \in [Threads -> Buckets \cup {None}]
  /\ cur \in [Threads -> Segments \cup {None}]
  /\ mine \in [Threads -> Segments \cup {None}]
  /\ obs \in [Threads -> Nat]
  /\ nx \in [Threads -> Segments \cup {None}]
  /\ pv \in [Threads -> Segments \cup {None}]
  /\ merged \in [Threads -> 0..MaxMerge + 1]
  /\ \A b \in Buckets, t \in Threads : lock[b] = t <=> bk[t] = b /\ pc[t] \in LockedPcs

\* The segments whose header says they are in bucket b's chain.
Members(b) ==
  {s \in Segments : state[s] \in {"Live", "Sealed", "Relinking", "Draining"} /\ ttl[s] = b}

\* ttl_bucket.rs, chain_lock: whenever nobody holds a bucket's lock its chain is
\* whole. Head and tail words agree on emptiness and name the ends; every segment
\* whose header claims the bucket hangs in the chain between them, linked both
\* ways; the tail is Live and all others Sealed.
ChainWellFormed ==
  \A b \in Buckets : lock[b] = None =>
    LET M == Members(b) IN
    /\ head[b] = None <=> M = {}
    /\ tail[b] = None <=> M = {}
    /\ M # {} => head[b] \in M /\ tail[b] \in M
    /\ \A s \in M :
         /\ state[s] = IF s = tail[b] THEN "Live" ELSE "Sealed"
         /\ IF s = tail[b] THEN next[s] = None ELSE next[s] \in M /\ prev[next[s]] = s
         /\ IF s = head[b] THEN prev[s] = None ELSE prev[s] \in M /\ next[prev[s]] = s
    /\ \A C \in SUBSET M : C = {} \/ \E s \in C : next[s] \notin C

\* ttl_bucket.rs: "the head segment is always the oldest". Walking a chain never
\* meets an earlier creation time, copy destinations included.
OldestFirst ==
  \A b \in Buckets : lock[b] = None =>
    \A s \in Members(b) : next[s] # None => created[s] <= created[next[s]]

\* drain_chain stops at the first segment that has not expired, and when it stops
\* there is no expired segment further down: everything due at the cutoff has
\* left the chain.
ExpiryMissesNothing ==
  \A t \in Threads : pc[t] = "drain_walk" /\ job[t] = "expire" /\ DrainEnd(t) =>
    \A s \in Members(bk[t]) : created[s] + Ttl > obs[t]

\* drain_chain's debug_assert: a segment reached through a locked chain is Sealed
\* or Live. No other mutator is ever caught half way through a claim.
DrainMeetsOnlyMembers ==
  \A t \in Threads : pc[t] = "drain_walk" /\ ~DrainEnd(t) =>
    state[cur[t]] \in {"Sealed", "Live"} /\ ttl[cur[t]] = bk[t]

\* inherit_created: "a TTL is a ceiling". No sequence of merges and promotions
\* gives an item a later deadline than the segment it was first written to.
CopyKeepsDeadline ==
  \A s \in Segments :
    state[s] \in {"Live", "Sealed", "Relinking"} => created[s] <= limit[s]

\* try_expand: "an election loser can never seal the winner's freshly linked,
\* near-empty segment". A step from Live to Sealed is of a full segment.
SealsOnlyFull ==
  [][\A s \in Segments : state[s] = "Live" /\ state'[s] = "Sealed" => full[s]]_vars
=============================================================================
