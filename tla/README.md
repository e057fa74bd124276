# segcache in TLA+

A verification development for `cache-rs`, and above all for its `segcache`
crate: a thread-safe, segment-structured cache in which reads, writes, deletes,
expiry, eviction and compaction run concurrently on shared segments, with almost
no locks. What keeps it correct is a set of small handshakes (count first, check
again, CAS on a stamped word), each easy to state and hard to test.

The modules model those handshakes step by step, TLC checks them on small
instances, and TLAPS proves the most important of them for any number of
threads and segments. The cuckoo cache and the persistent datapools of the same
repository are modelled too.

Contents: [the system](#1-the-system), [modules and code](#2-modules-and-code),
[runs](#3-runs), [proofs](#4-proofs), [what the checks found](#5-what-the-checks-found),
[not modelled](#6-not-modelled), [plan](#7-plan).

To re-check, in this directory:

    tlc -workers 2 -config MCSegmentPool.cfg MCSegmentLifecycle
    tlapm SegmentProofs.tla

and likewise for every run and proof module listed below. `PROJECT.json` maps
every definition to the source lines it models. Source paths below are relative
to `src/crates/segcache/src/` unless they start with `docs/` or `crates/`.

## 1. The system

### Components

| component | state | operations | correct when |
|---|---|---|---|
| Segment lifecycle: `segments/header.rs`, `state.rs`, `guard.rs`, `writer_pin.rs`, `remover_pin.rs`, `free_queue.rs`, parts of `segments.rs` | per segment: packed word (state, links, condemn stamp), generation, `ref_count`, `active_writers`, `active_removers`, `write_offset`; the free and spare queues and the spare count | pin and release a reader, writer, remover; reserve; link; seal; claim for drain; quiesce; recycle or condemn; last-reader release | a segment is in one place; none is lost; a drain works alone; a pinned segment is not reused; a published location carries the current generation; a condemned segment is freed in the end |
| TTL bucket chains: `ttl_buckets/ttl_bucket.rs`, chain surgery in `segments/segments.rs` | per bucket: `head`, `tail`, `chain_lock`; per segment: `next`, `prev`, ttl, `create_at` | expand past a full tail, expire, clear, evict a segment, S3-FIFO promotion, merge and compaction | an unlocked chain is one doubly linked list of the right segments; oldest first; expiry leaves nothing behind that has expired |
| TTL bucket table: `ttl_buckets/ttl_buckets.rs`, `remaining_ttl` in `segcache.rs` | 1024 buckets in four tiers | `coarse_ttl`, `bucket_index`, bucket TTLs, rewriting an item with the TTL that remains | an item outlives its deadline by no more than its rewrite took; a segment's stamp leads back to its bucket |
| S3-FIFO ghost queue: `eviction/ghost.rs` | a `VecDeque` and a set of hashes | insert, contains, remove | bounded; every member can be evicted; an eviction forgets one |
| S3-FIFO pools: `segcache.rs`, `segments.rs`, `header.rs` | a label per segment, `admission_count` | label and count on insert, uncount and reset on drain | the count is exact and never underflows; a label does not reach the next life of a segment |
| Eviction policies: `eviction/` | ranked lists, random state, merge parameters | rank, pick a victim, merge loop | a victim is drained only if still eligible; a pass ends |
| Hashtable: `hashtable/` | buckets of packed words, insert stripes | lookup, replace, claim a slot, unlink, relink | no stale entry, no second entry for a key |
| Cache operations: `segcache.rs`, `cas.rs`, `item/` | per-call state: pins, observed locations and generations | get, insert, cas, delete, numeric updates, clear, expire | an answer was true at some moment of the call; live counters cover the published items |
| Reserve retry, waiting for evictions: `segcache.rs`, `segments.rs` | retry budget; totals of freed segments, of evictions started and finished | reserve, evict, compare totals, wait for other evictors | a wait is for evictions that run; an insert gets room or an error in the end |
| Items and numeric values: `crates/keyvalue/`, `cas.rs` | item header and bytes; a version word that is lock and seqlock of a number | increment and decrement in place, read, cas, convert to a number, copy to another segment | no acknowledged update is lost; no item stays locked; a cas replaces only what its token was read from |
| Cuckoo cache: `crates/cuckoo/` | a fixed table, four candidate slots per key | insert with displacement and eviction, get, delete, numeric updates | items sit where get looks; a displacement loses nothing; no old value |
| Datatier: `crates/datatier/` | a file of a header page and data pages; a mapping or a memory copy of it | create, open, flush | what open accepts is what a flush wrote; a flush that returned can be opened |
| Clock, metrics, builders, benchmark | | | |

### How they interact

A write picks a bucket by TTL, reserves room in the bucket's tail segment (a
writer pin is held from the reservation to the publication), defines the item
there and publishes its location in the hashtable; the location carries a tag of
the segment's generation. A read takes a location from the table, pins the
segment, and checks the tag again under the pin. A delete or a replacement pins the
old segment as a remover, unlinks the entry and decrements the segment's live
counter. Eviction, expiry and compaction claim a segment with a CAS to
`Draining`, wait for writers and removers to leave, unlink or relocate every
entry that points into the segment, take it out of its chain under the
`chain_lock`, and either recycle it at once or, if a reader still holds it,
condemn it (`AwaitingRelease`) and leave it to the last reader. An insert that
finds no free segment evicts one itself and, where that frees nothing, waits for
the evictions other threads are in the middle of. Numbers are updated in
place, under the item's own version word, while all of this goes on.

The cuckoo cache is owned by one thread and shares only item layouts with
segcache. A datapool is the memory under a segcache; its flush and open are what
a warm restart would rest on.

### What is hard

 - a count and a state are different words: everything hangs on who looks at
   which, in what order, and whether it looks again;
 - what was read before a pin, a lock or a CAS (a tail, a generation, a TTL, a
   slot's location) may be stale when used, and a segment may have lived another life
   in between, in another bucket;
 - the last of several readers, backouts and condemners must free a condemned
   segment: exactly one of them;
 - a drain moves items under the feet of gets, inserts and deletes;
 - counters that no lock protects (`admission_count`, spare count, live items)
   must not drift or underflow;
 - a copy of a number being updated carries its lock with it, and a copied
   token must stop matching;
 - an eviction waits for pins whose holders may be waiting for a chain lock or
   for an eviction;
 - a process may die, or the machine lose power, between any two pages of a flush;
 - integers at boundaries: TTL tiers, casts to `i32`, stamps modulo 256 and tags
   modulo 64.

`PROJECT.json` lists the hazards one by one, each at its line and with the
properties that cover it.

## 2. Modules and code

| module | models |
|---|---|
| `SegmentLifecycle` | the life of a segment, one atomic access per step |
| `SegmentInvariant`, `SegmentProofs` | its inductive invariant and proofs |
| `TtlChain`, `ChainProofs` | chains, locks and the passes over them |
| `TtlBuckets` | bucket arithmetic and deadlines of a rewritten item (proofs in `NumericProofs`) |
| `GhostQueue` | the ghost queue (proofs in `PoolProofs`) |
| `AdmissionPool`, `PoolProofs` | labels and `admission_count` |
| `ReserveLoop` | the retry loop of an insert, composed with `AdmissionPool` (proofs in `PoolProofs`) |
| `CacheOps`, `CacheProofs` | get, insert, delete and drains over one bucket of the hashtable |
| `AtomicCache` | what those calls promise: a map with atomic operations |
| `CacheRefinement` | the proof that `CacheOps` implements `AtomicCache` |
| `NumericOps`, `NumericProofs` | numeric updates, cas, conversion and relocation of one key |
| `Cuckoo`, `CuckooProofs` | the cuckoo cache |
| `Datapool`, `DatapoolProofs` | the file-backed datapools, with crashes |
| `MC...` | bounds and symmetry for TLC |

All accesses that take part in a handshake are `SeqCst` in the code, so an
interleaving of atomic steps is the right memory model. A definition preceded by
a comment "Slip:" is a variant of the code with a plausible mistake; no
specification uses it. It serves to confirm that the properties would notice the mistake.

**SegmentLifecycle.** The words of the header are variables indexed by segment;
each thread has a program counter, the segment it works on, the generation or
stamp it saw, and the route to take after a release. `AcquireCheck`,
`AcquireIncrement`, `AcquireRecheck`, `TagCheck` are `try_acquire_reader` and its caller
line by line; `ReleaseReader`, `ReleaseLoad`, `ReleaseCas`, `BumpGeneration`,
`ResetWriteStats`, `ReturnSegment` and the pushes are the drop of a guard and
`try_release_condemned`; and so on for writers, removers, drains and reservations.
Steps on words that only their owner can reach are joined to the access that
gave the ownership. The generation is a `u16` that wraps; here it is an unbounded
natural number, which is sound because the code only uses it modulo 256 (stamp)
and 64 (tag), and both divide 65536. The moduli are constants. Any Live or Sealed
segment may be claimed, which contains what the chain locks allow. The put-back branch of
`TryReserve`'s caller is unreachable, which `OwnedState` proves. `uses` is a
history variable: the number of drains begun.

**TtlChain.** A step is what a thread does between two points at which another thread
can change what it looks at; steps under the lock on words that only the holder
writes are joined. Hints (the segment a policy ranks first, the bucket of a
segment read before the lock) are arbitrary. Which of recycle and condemn
happens is open, and a condemned segment is freed at any later moment. The stamped TTL
stands for the bucket it identifies: `StampFindsBucket` of `TtlBuckets`
justifies it. The branch of `drain_chain` that skips a segment, and the spin of
the loser in `try_expand`, are left out: `DrainMeetsOnlyMembers` shows that the former
is unreachable. The unlocked walk of `chain_len` is over-approximated by a
free choice. `limit` is a history variable.

**TtlBuckets.** One item through insert and `try_into_numeric`, the one call that
reserves with a remaining TTL. An insert is given a Duration, here in half seconds;
`coarse_ttl` makes whole seconds of it, `get_bucket_index` casts them to `i32`
(`Wrap` is 2^32). The rewrite is two steps, as in the code: `ReadRemaining` under the guard,
then, after any number of ticks, `Rewrite`, the reserve and the publication, or `RewriteFails`,
after which it may be called again. A reservation may land in a tail of any age.
`born`, `read_at` and `late` are history variables: when the insert reserved, when the
remaining TTL was read, and how long after that the number was reserved. An insert's TTL
counts from its own reserve.

**GhostQueue.** The eviction mutex makes a call one step; the insert path takes it
twice, and other threads run in between. Each hash of a batch is a step, which
only adds interleavings.

**AdmissionPool.** An insert labels with a CAS and counts in a second step; a
drain reads, uncounts and resets in three. Any linked segment may be
drained, any number of times. `admission_count` is an integer so that an underflow
would be visible. The cap is soft (`docs/s3fifo.md:49`), so exceeding it is no
error.

**ReserveLoop.** Extends `AdmissionPool`: every step of the loop in
`reserve_and_define` is a step of the pools, or leaves them alone. `round[t]` says
where a thread is: an eviction before the first try because its pool is full,
a reserve, a failed reserve (at which `freed_count` is read), the eviction of a
round, its end (at which `evicts_started` is read), the wait. The code compares
totals; the model keeps their differences: `changed[t]`, whether a
segment was freed since the thread read the count, and `owed[t]`, how many
more evictions must finish before its wait is over. One bucket; a policy may pick any
of its segments or none.

**CacheOps.** Every key hashes to one bucket and one tag, the worst case for the
scans. A scan visits slots in any order, which contains the schedules of the
mask-then-load code, SIMD or not. Each call is a record of what it has seen
(`th[t]`): the slot and location loaded, the location it replaces, the location
it has written, its pins. Pins are atomic here: the handshake behind them is
`SegmentLifecycle`, so what is shown here holds up to the schedule of `reader_pin`
(section 5). A location carries the whole generation, where `pack_location` keeps six bits of
it: a location held over exactly 64 lives of its segment would match again, which neither
the run nor the theorems cover. The scan for a free slot goes slot by slot (`PassTaken`), and a
reserve that has looked for room the last time (`NoRoom`) fails also if there is some by then. A drain takes the `chain_lock` of its segment's TTL bucket
(`chain`), waits for pins under it, and gives it back when the segment has left the
chain; an insert that expands a chain and a delete that frees an emptied segment need it
too. Relinking an entry and moving the
counters are joined, because source and destination are exclusively owned. A drain
may be run on its own, while an insert reserves, and at the end of `remove_at`,
which contains empty-segment clearing and `merge_compact`. Frequency bits and
ghost words are left out (the latter are written only by tests), no item expires
during a call, and a call whose retry budget is used up returns an answer of its
own. `window` and `calls` are history variables: for each running call, every value
its key had during the call.

**AtomicCache.** The abstract cache: an insert binds its key in one step, a key may become
absent at any time, and a call's answer is one that was true at some moment of the
call. `CacheOps` implements it with `map` taken from the published entries, `call` from the
call records and `seen` from `window`; the steps of scans, pins, waits and
relocations stutter. A delete may answer false for a key that is there: that is
the weakest promise the code keeps (section 5).

**NumericOps.** One key and its slot. An item is its header flag, value, CRC and
version words, each written by a step of its own, in the order of `raw.rs`; an odd
version is a lock. A location is written once, since reuse is the matter of
`CacheOps`. Two threads run every call that reads or writes the
number; an evictor relocates the item, under the version lock if it is numeric, or
prunes it. The number of the model wraps at `Modulus`, as the code's does at 2^64. `ledger` is a history variable: what the calls that took effect amount to.

**Cuckoo.** Every call is one step; the displacement is the recursion of
`displace_from` over the table as a value: a recursive function of the levels left gives, for
each slot, the table in which the slot is free, or none. Candidate slots are a
constant function of the key, TTLs are in half seconds so that `compute_expire`'s
rounding shows, the clock ticks between calls. `ReadBack` is the encoding of `tiny.rs`: a length is
kept in one byte, and zero says that the value is a number. `truth` is what the last insert or
update of a key wrote, as it reads back.

**Datapool.** `cache` is the file as the process sees it, `disk` what survives a loss of power;
the kernel may write a page back at any time. create, open and flush proceed page by page;
reads and writes may be short, I/O may fail, the process may be killed
and the machine may lose power between any two steps. The checksum is the sequence it
hashes, so it does not collide. Contents are counted in units, two to a page. The creation of
the file is one step, and the empty file and its name are durable at once; the code syncs no directory
entry (section 6).

## 3. Runs

| run | instance | states | shows |
|---|---|---|---|
| `segment_pool` | 3 threads, 2 segments (1 spare), one full life each | 1.6 M | `TypeOK`, `ExactlyOneFree`, `NoSegmentLost`, `DrainIsExclusive`, `SpareCountExact` |
| `reader_pin` | 3 threads, 1 segment | violation | `PinnedSegmentNotReused` fails, see section 5 |
| `segment_liveness` | 3 threads, 1 segment, two lives and the start of a third | 263 k | `GenerationCountsUses`, `PublishedGenerationCurrent`, `PinSafety`; `CondemnedIsFreed`, `DrainEnds`, `FreeIsReturned` under fairness |
| `chain` | 2 threads, 3 segments, 2 buckets, 2 lives | 1.9 M | `ChainWellFormed`, `DrainMeetsOnlyMembers`, `SealsOnlyFull` |
| `chain_expiry` | 2 threads, 4 segments, 1 bucket, a clock | 1.3 M | `TypeOK`, `OldestFirst`, `ExpiryMissesNothing`, `CopyKeepsDeadline` |
| `ttl_buckets` | TTLs at every tier boundary, in half seconds, and at the ends of `i32` and `u32` | 725 k | `CeilingUpToDelay`, `StampFindsBucket` |
| `ghost_queue` | 4 hashes, capacity 2, queue up to 6 | 15 k | `GhostBounded`, `MembersQueued`, `ForgetsOneWhenFull` |
| `reserve` | 2 threads, 2 segments, cap 1, 3 retries | 258 k | `PoolCountExact`, `WaitCovered`; `ReserveEnds` under fairness |
| `cache_ops` | 2 threads, 3 keys, 2 values, 2 slots, 2 segments of 2 items, 3 calls | 586 k | `NoStaleEntry`, `NoDuplicateKey`, `LiveCoversPublished`, `NoWaitCycle`, and the refinement `RefinesAtomicCache` |
| `numeric_ops` | 2 threads and an evictor, 1-bit numbers, 3 segments, 3 items | 3.5 M | `NoUpdateLost`, `NeverWedged`, `ReadsAgree`, `ReplacesWhatWasRead` |
| `cuckoo` | 4 keys, 3 slots, displacement depth 4, both policies | 215 k | `TableSound`, `NeverStale`, `LosesAtMostTheVictim` |
| `datapool` | files of 1 and 2 data pages, 3 writes, 3 flushes, 1 I/O error | 1.35 M | `OpensAFlush`, `FlushSurvives` |

What the less obvious ones mean:

 - `PinSafety`: in a behaviour in which no release is delayed past another reader's
   arrival, the segment under a pin is neither freed nor given a new generation.
 - `CeilingUpToDelay`: an item whose TTL is at least a second ends by the deadline that was asked
   for, or after it by no more than the time its rewrite let pass between reading the remaining
   TTL and reserving with it.
 - `WaitCovered`: a thread never waits for more evictions than are running, so the
   totals it compares cannot leave it waiting for an eviction nobody is in.
   `ReserveEnds`: an insert that looks for room gets it or fails, unless segments
   are freed for ever (each freed segment may be taken by another thread, and the code
   then tries again without spending a retry).
 - `NoWaitCycle`: threads that wait for a chain lock or for pins to go never form a
   circle, though an insert holds a writer pin while it meets the segment of a drain
   and a delete's emptied segment needs a chain lock.
 - `RefinesAtomicCache`: whatever drains, retries and races lie behind them, get, insert and
   delete act as one step each on a map that may lose keys.
 - `NeverWedged`: a published number with an odd version has a thread that will make it
   even, also after a copy to another segment.
 - `FlushSurvives`: once flush has returned, and until the pool is written or flushed
   again, open succeeds after any crash. `OpensAFlush`: what open accepts is
   the contents some one flush was asked to keep, never a mixture of two.

### Bounds, and why they are enough

 - `MaxGen` stops a segment from being claimed (or, in `TtlChain`, reserved) past a
   generation. Stale observations need one reuse to bite, so the runs about them allow
   it; the stamp modulus is 2, so in `segment_liveness` and `reader_pin` a stamp
   comes round again.
 - Three threads are needed for the reader races: two readers and a drainer.
   Chains and cache operations are conflicts of two parties, a pass against a
   writer or another pass.
 - `SegmentSize` 1 makes a segment full after one write, so sealing and
   expansion happen at once; `CacheOps` uses 2, so that a drain meets both an
   entry that moved and one that did not.
 - `CacheOps` explores behaviours of at most `MaxCalls` calls, drains included
   (a `CONSTRAINT` on a history counter). Three suffice for insert, replace,
   delete against a drain; three keys over two slots make the bucket full. A call
   loops within itself as often as it likes.
 - One TTL bucket in `cache_ops`. With two the module has been run as well (1.2 M
   states, over five minutes, no error): a second lock adds a second place to wait.
 - Two threads and two segments in `reserve`: one thread evicts what the other is
   after. Larger instances without fairness (three threads, or three segments) were
   run by hand without an error.
 - `NumericOps`: two concurrent updates, one item copied twice (`MaxCells` 3),
   one update per item begun at version 0 (`MaxVersion` 1); 1-bit numbers wrap at once.
 - `Cuckoo`: four keys over three slots make every insert into a full table
   displace or evict. Depth 4 is allowed, though three slots make chains of two moves only; longer
   ones, and those that come back to a slot, are the matter of `CuckooProofs` (depths up to
   4) and of `MCCuckooDeep.cfg` (depth 5, section 5). An instance with more slots, expiry and
   both policies is beyond five minutes. `Length` and `Cut` give one byte string of
   each kind: one that reads back, an empty one, and one longer than a byte can say.
 - `TtlBuckets`: `Wrap` is 20000000 in place of 2^32, past the last bucket as that is; ten seconds
   (`MaxTime`) see the shorter TTLs run out, and delays across several of their buckets.
 - `Datapool`: data sizes are whole pages; section 5 says what others do. Three
   flushes are a base, a torn one, and one after the reopening.
 - `MaxQueue` bounds the explored length of the ghost queue (a `CONSTRAINT`);
   the queue of the code is not bounded. Stale entries up to twice the capacity
   occur.
 - `MaxMerge` is `Policy::Merge.max`, one in the runs: the loop then takes up to two
   segments, so both another round and the limit occur.
 - `MaxTime` stops the clock; deadlines pass within it.
 - Symmetry is used over threads, segments, keys and the like, which the modules
   tell apart only by equality; never in a run that checks liveness.

`ttl_buckets` says `CHECK_DEADLOCK FALSE` since its clock stops and the item may
then be gone for good. All other runs check for deadlock.

### Fairness

`FairSpec` assumes weak fairness of each thread's `Step`: an operation that
has begun is scheduled and goes on. It does not assume that a thread begins
anything, nor that a reader finishes reading in any given time other than that
its drop comes. The waiting loops of a drain (`WaitWriters`, `WaitRemovers`) are
steps that are enabled only when the counter is zero, as the code spins; the
pins they wait for are of begun operations, so they go. Threads of an operating system
justify exactly this.

`LoopSpec` of `ReserveLoop` assumes the same of `Work(t)`, the steps of an insert
or an eviction that has begun; the wait for other evictions is a step enabled only when they
have finished. `cache_ops`, `numeric_ops`, `cuckoo` and `datapool` check safety and
assume no fairness.

## 4. Proofs

Each theorem is for every finite set of threads, every set of segments, and every value of
the bounds and moduli that the named assumptions of its module allow.

**SegmentProofs.** `TypeCorrect`, `OneFree`, `NoneLost`, `GenerationExact`,
`DrainExclusive`, `PublishCurrent`, `SparesExact`. None of these is inductive
alone; `SegmentInvariant` collects what a thread's program counter says about
its segment:

 - `CountersExact`: each pin count is the number of threads that will
   decrement it (this is what makes a zero mean something);
 - `OwnedState`: which state the segment of an owning thread is in;
 - `OnePlace`, `Accounted`: a queue or an owner, at most one, and outside the
   chains always one;
 - `ResetDone`, `GenerationLag`: statistics are reset before reuse, and the
   generation is one behind from the claim to the bump;
 - further parts on what a quiesced drain excludes, what a writer past its re-check knows
   (no drain can pass it), which threads may still release a condemned segment,
   and what is on its way in or out of the spare queue.

`InvHolds` is the induction, one step per action and conjunct; the other theorems
follow from it.

In the same module, `PinSafe`: `Spec => PinSafety`, where `PinSafety` is
`[]NoDelayedRelease => []PinnedSegmentNotReused`. The condition excludes exactly the schedule of the
first finding, so the theorem says that this is the only hole in the reader pin.
The model also takes `TokensInWindow` as a guard of the generation bump: no
thread is stalled between load and CAS of a release for a whole round of stamps
(256 lives), a residue that the code documents.

**PoolProofs.** `CountExact`, `NeverUnderflows`, `FreshMain`, from an
invariant that says which steps of inserting and draining threads can meet at a
segment: the writer pin keeps a drain out from the reservation to the
count. For `ReserveLoop`: `LoopImplementsPool`, every step of the loop is a step of the pools or
leaves them alone, so that the pool theorems carry over; and `LoopWaitCovered`, from `LoopInv`,
which adds to the pools' invariant where a thread that evicts can be (`LoopPlaces`), that only a
waiting thread is owed completions (`OwedInWait`), and that the evictions still running are
enough to pay what is owed.

The module's last part is about `GhostQueue`: `GhostSetBounded`, `GhostMembersQueued`, and the
action property `ForgetsOne`. The invariant is that the set is finite, within
capacity, and contained in the queue; the key lemma is that the fewest pops that make room
take out exactly one member.

**NumericProofs.** `NumericNoUpdateLost`, `NumericNeverWedged`, `NumericReadsAgree`, and
the action property `NumericReplacesWhatWasRead`. The inductive invariant says who may write
which word of an item: `Private` (what is not published yet belongs to the one thread that
writes it), `Exclusive` and `OddIsHeld` (an odd version word has exactly one holder, and only
that holder moves it), `ThreadSteps` and `CopySteps` (what a thread or the evictor knows of the
item at each step), `CrcFollows` (the CRC is behind the value only inside the lock), `LedgerKept`
(the published value, with the writes under way, is what the ledger says), `ReadsOneVersion` and
`TokensHold` (what a reader or a cas token saw belongs to the version it names).

The module's last part is about the TTL of what `try_into_numeric` writes, `TtlBuckets`:
`OverrunBounded` (`CeilingUpToDelay`) and `BucketFound`, from three lemmas on the
table for every integer TTL: the index is in range, the stamp is at most what was asked, and the
stamp leads back to its bucket. `TtlInv` adds what a rewrite knows between its two steps:
`read_at + seg_ttl` is no later than the asked deadline. The reserve then gives a deadline of at
most its own time plus `seg_ttl`, which is that bound and the delay. The lemmas also show that no
bucket's stamp is touched by the cast to `i32`, for every `Wrap` beyond twice the last tier.

**ChainProofs.** `ChainsWellFormed`, `ChainOldestFirst`, `ChainDrainMeetsMembers`,
`ChainExpiryMissesNothing`, `ChainCopyKeepsDeadline`, `ChainTypeOK` and the action property
`ChainSealsOnlyFull`, all from `ChainInvariant`. In the middle of a pass a chain is no doubly linked
list: a segment has been taken out and its neighbours not patched yet. The invariant `IInv`
therefore speaks of `Chain(c)` through the views `HeadIn`, `NextIn` and `PrevIn`: the list that
bucket c will be once the lock holder has patched what it holds. `ChainOK` says that this list is
well formed and ends at the tail, `ThreadOK` what each step of a pass holds (`PlaceOK`, `MineOK`,
`CurOK`, `TailOK`, `HintOK`), `MineApart` that no two threads hold a segment, `SegmentOK`
how state and bucket of a segment agree. The proof rests on lemmas about doubly linked
lists (insert, append and remove keep one; a walk along `next` meets no cycle), on
`StepAt(t, c)`, which says what a step of one pass leaves alone in other chains and threads, and on
one lemma per action.

**CacheProofs.** `CacheNoStaleEntry`, `CacheNoDuplicateKey`, `CacheLiveCoversPublished` and
`CacheNoWaitCycle`, all from `CacheInvariant`. The parts of its invariant `IInv`:

 - `CallOK(t)`: what a call has at each of its steps. `StepOK` says when it holds a
   reservation, pins, a slot or the stripe; `WordsOK` that every location it read was issued by some incarnation,
   and that a location it is about to replace is of its key if it still
   resolves; `NewOK` that the reserved item stays where it is, in a segment no drain can have
   quiesced; `ScanOK` that no slot the second pass of an insert is done with has its key. The last is
   where an unverifiable candidate matters: it may turn out to be the key's, so the pass must not count as
   having found the key absent.
 - `DrainOK(t)`, `LockOK(t)`: a drain has its chain locked, its segment Draining and its
   destination Relinking; from the quiesce on no writer has an item in the segment, and behind
   the cursor of the sweep no entry is left, which is why the segment can be recycled. A drain
   runs inside a call; `CallPc(t)` is where that call stands meanwhile.
 - `OneEntry`: no two slots have items of one key.
 - `Apart` and `LiveOK`: every location is in one slot, or is one thread's to publish, or is one thread's to
   take off its segment's count, and `live_items` is at least the number of such locations
   (`Outstanding`). `LiveCoversPublished` is not inductive without counting the other two.

The induction has one lemma per action. `Frame(t)` says what a step of t leaves alone: a segment
keeps what it holds or goes to its next incarnation, its state only moves where a pin allows, a slot gets only
t's reservation or a copy in t's destination, and no key without t's stripe gets a
new entry. `OtherThreads` shows once that `ThreadOK(u)` of every other thread survives any such step.
`CacheNoWaitCycle` gives each thread a `Level` (waiting for the stripe below waiting for pins below
waiting for drains and chain locks) and shows that a thread waits only for lower ones. The assumptions are that the
sentinels `None` and `Absent` differ from what they are sentinels of.

**CacheRefinement.** `CacheRefines`: `Spec => RefinesAtomicCache`, for every number of threads, keys,
values, slots and segments. `CacheInvariant` keeps the table sound but says nothing of what a call
knows about its key; `RInv` adds that. Its parts, for each thread:

 - `KindOK`: what the call asks for and what it has answered, by its step;
 - `FoundOK`: the location a get or delete verified is still the key's as long as it resolves; the value a get
   has pinned, or verified and not yet pinned, is one the key had during the call (`window`);
   a get whose scan is under way without an unverifiable candidate has left no slot of its key
   behind, unless the key was absent at some moment (`ScanClear`), so that a miss at the end of the scan is a
   true answer; a delete that has unlinked an entry has seen its key absent;
 - `WindowOK`: `window` has the key's present value.

`OneEntry` of `CacheProofs` makes the map well defined (`MapCurrent`). Each action then is one of:
the store of a new location in a slot is `Bind` (`BindTrace`; whether in place of the old entry, by the locked
replace or in a free slot); the unlink of a delete, a prune or the sweep of a drain that meets a live entry is `Drop`
(`TakenOut`); the step to the end of a call is `Answer`; and everything else, the relink of a copy
included, leaves the map and every call as they were (`Stutters`). `Steady(t)` says what a
step of t may do to what others rely on, and `OtherCalls` shows once that `TraceOK` of
every other thread survives it. Beyond the assumptions of `CacheProofs`, the proof takes
`AnswerAssumption`: `None`, which stands for a call without an answer yet, is not itself an answer.
TLC has checked `RInv` on the instance of `cache_ops`.

**CuckooProofs.** `TableIsSound`, `AnswersAreFresh` and the action property
`OnlyTheVictimIsLost`, for any table, hash functions, keys, TTLs and policies, under
`max_displace <= 4`. The bound is not one of the prover's: at 5 the statements are false (section 5).
The invariant is `Good(data)` (items in candidate slots, live keys distinct) and that a live item
has the value last written for its key. The difficulty is one call of `displace_from`, which is
taken level by level (`from[0]` to `from[4]`). `Frees(d, p, e)` says of a call that makes e of d that e is good, has
the live items of d, and p is empty. That the outer move then takes the right item needs
the occupant of the outer slot to be still there, so each level says what it leaves alone: with one or two
levels left, an item that has no free candidate of its own stays (`Kept`); with three, its slot has it still,
or has the item of the slot that was to be freed (`KeptOrMoved`); with four, a chain may come back to its first slot only with the
item of the slot its occupant goes to, which is then put back where it was.

**DatapoolProofs.** `OpenedWasFlushed` and `FlushIsDurable`, for any number of pages, writes,
flushes and I/O errors and both kinds of pool, under `WholePages`: every data size is a number of whole pages
(for other sizes flush and open hash different amounts, section 5). The history `recent` holds what flushes were asked
to keep; the invariant says that every header, in the cache, on disk or in a write under way, carries an empty
checksum or that of a snapshot in `recent`; that from the sync of a flush on, the cache is the file of what
the flush keeps (`FileOf(Kept)`), so that what the sync puts on disk can be opened; and in the loops of open and
flush, that the running checksum is that of the pages passed. The checksum is the sequence hashed, so the
theorems are about a hash without collisions.

Out of the prover's reach and left to TLC: liveness (`CondemnedIsFreed`, `DrainEnds`,
`FreeIsReturned`, `ReserveEnds`). Every other property of a passing run is a theorem. Induction over
data is out of reach as well, which is why `CuckooProofs` goes through the levels one by one.

## 5. What the checks found

**A delayed release frees a segment under a pin** (`reader_pin`;
`segments/header.rs:520`). `try_release_condemned` acts on the result of an
earlier decrement and does not look at the reader count again. Reader A's drop
takes the count to zero and stalls before its load of the state; reader B pins; a
drain condemns the segment, sees B's pin and defers; A wakes, finds
`AwaitingRelease` with the current stamp, and frees the segment. `header.rs:598`
says that while the reader count is non-zero the segment must not be recycled.
`PinSafe` proves that, up to the residue named at the end of this section, there
is no other way.

Seven further disagreements are not runs of the project; each has a configuration with
which TLC shows it.

**A delete answers false for a key that was there throughout**
(`MCLostDelete.cfg` with `MCCacheOps`, `DeleteFalseMeansAbsent`; `segcache.rs:1705`). Between
delete's lookup and its unlink an insert replaces the entry in place, or a drain moves
it; the pinned unlink misses and its `false` is returned, where the unpinned path
retries. `segcache.rs:1556` says that `false` for a live key is a lost delete. One may
order such a delete before the concurrent insert and still not explain its answer, since
the old value was there.

**The ghost queue is not FIFO** (`MCGhostFifo.cfg` with `MCGhostQueue`, `EvictsOldest`;
`eviction/ghost.rs:43`). A hash that was removed and inserted again is evicted at the place
of its old entry. `docs/s3fifo.md:35` says FIFO.

**An expired copy hides a live one** (`MCCuckooGet.cfg` with `MCCuckoo`, `LiveIsFound`;
`crates/cuckoo/src/cuckoo.rs:379`). insert skips expired slots when it looks for the key, and
may put the new item behind an expired one of the same key; get and delete stop at the
expired one. The example of insert unwraps the get that follows it. The next get
finds the item, since the first one cleared the slot.

**A long displacement misplaces an item** (`MCCuckooDeep.cfg` with `MCCuckoo`, `InCandidates`;
`crates/cuckoo/src/cuckoo.rs:285`). `displace_from` has a candidate of its occupant freed by
a recursive call, and then moves whatever is in its slot there. With `max_displace` of 5 the chain 0, 1, 2, 0, 3
returns to slot 0: the item of 0 goes to 3, the item of 2 to 0, the item of 1 to 2, and the
outermost call moves what is in slot 0 now, the item that was in 2, to slot 1, which is none of its
candidates. get does not find it, though nothing was evicted; and if its key is inserted again, a later displacement
may bring the old value back into view (`NeverStale` fails as well). `docs/cuckoo.md:11` says that an item can only live in one of its
four candidate slots, and `docs/cuckoo.md:105` offers higher values without a limit. `CuckooProofs` shows
that depths up to 4, the default 2 among them, are safe.

**A rewrite can move a deadline later** (`MCTtlCeiling.cfg` with `MCTtlBuckets`, `TtlIsCeiling`;
`segcache.rs:2038`). `try_into_numeric` reads the remaining TTL under its guard, lets the guard go, and
reserves at `:2043`, perhaps after whole eviction passes; a fresh segment is stamped
with the time of that reserve. Created at 0 with a TTL of 16, read at 8, reserved at 9: the item
ends at 17. It may even come back for a moment after it has expired. `segcache.rs:1959` says that the absolute
expiration is preserved, and `ttl_ceiling_tests.rs:1` that an item must never be served
after its deadline. `CeilingUpToDelay` says how far this goes: the delay, and no more.

**A TTL under a second lasts for 97 days** (`MCTtlSubSecond.cfg` with `MCTtlBuckets`, `TtlIsCeiling`;
`segcache.rs:230`). `coarse_ttl` cuts a Duration to whole seconds, and zero seconds go to the last
bucket. The same comment in `ttl_ceiling_tests.rs` speaks against it.

**A byte string reads back as a number** (`MCCuckooBytes.cfg` with `MCCuckoo`, `BytesStayBytes`;
`crates/keyvalue/src/tiny.rs:161`). The length of a value is cast to `u8`, and a length of zero means
a number (`:134`): an empty byte string, or one of 256 bytes where a slot has room for it, is
answered as eight bytes at its place, and numeric updates accept it. Other lengths above 255 are answered cut. The example at
`crates/cuckoo/src/cuckoo.rs:407` takes it that get answers what insert was given.

Disagreements between documents and code that were met while modelling, in which the model
follows the code:

 - the merge loop consumes up to `max + 1` segments (`segments/segments.rs:1871`,
   `:2085`; `eviction/policy.rs:53` says max);
 - a rewrite rounds the remaining TTL down, so a deadline can move earlier
   (`segcache.rs:1343`; comment at `:1331`);
 - the deque of the ghost queue grows past the capacity with stale entries
   (`ghost.rs:43`; `docs/eviction.md:79`);
 - a tier is 16 times wider than the one before, not four times
   (`ttl_buckets/ttl_buckets.rs:26`);
 - TTLs beyond 18 hours have buckets of their own up to the end of the fourth
   tier, and a TTL of zero goes to the last bucket (`ttl_buckets/ttl_buckets.rs:133`);
   `docs/segcache.md:106` says the last bucket and bucket 0;
 - `docs/segcache.md:155` still calls the crate single-threaded by design;
 - `Merge` with `merge: 0` underflows in `n_merge() - 1` (`eviction/mod.rs:182`);
 - an insert at its last retry can answer `NoFreeSegments` with a segment free, if
   that segment was freed between its failed reserve and its read of the freed count
   (`segcache.rs:1019`);
 - the admission cap is soft: room is checked before the reservation, and several
   inserts may pass the check (`segcache.rs:985`; `docs/s3fifo.md:49` says so);
 - "exactly one winner per coarse tick" (`ttl_buckets/ttl_buckets.rs:86`) does not hold
   when a delayed caller swaps an older tick back in; the cost is one more pass;
 - `set_deleted` changes a flag that the item's CRC covers and leaves the CRC
   (`crates/keyvalue/src/item/raw.rs`);
 - a `data_size` that is not whole pages: create and flush of `MmapFile` hash whole pages, open
   hashes `data_size` bytes, so open refuses what flush wrote; the flush of
   `FileBackedMemory` slices past its memory and panics. The comment at
   `crates/datatier/src/lib.rs:164` says a clean shutdown can be resumed;
 - `crates/cuckoo/`: a TTL under a second in the second the cache was built gives `expire` 0,
   which is an empty slot;
 - the arms of insert for `old_location == new_location` and for an invalid old location
   are unreachable and not modelled.

`TokensInWindow` names a residue that the comment on `cas_condemn` accepts: a
stamp that comes round while a release is delayed over 256 lives. It is a guard of
`BumpGeneration`, so no run and no proof covers what happens beyond it.

## 6. Not modelled

 - lazy expiry inside the calls of `CacheOps` and `NumericOps`: deadlines are the matter of
   `TtlBuckets` and `TtlChain`;
 - frequency bits, which steer a policy and no answer;
 - the once-per-tick debounce of expire: one swap, see section 5;
 - ranking of segments, random probes and merge ratios: choices left open, so
   that the properties hold for every policy; floating point is not modelled;
 - six-bit tags in `CacheOps`: it compares whole generations, so a location held over 64 lives of
   its segment is outside its run and its theorems;
 - the directory entry of a datapool's file: the code does not sync it, the model takes it as durable
   from the creation on, and `FlushSurvives` with it;
 - the size check of the cuckoo insert, which refuses an item and changes nothing;
 - item layout, padding and decimal parsing: sequential byte work with unit tests and
   bounded proofs (Kani) in the repository;
 - hash functions: constants (`Cuckoo`), or the worst case (`CacheOps`);
 - clock, metrics, random numbers, builders, benchmark and examples: configuration,
   counters, platform shims and drivers.

## 7. Plan

Done, in this order: `SegmentLifecycle` (first, since every other part rests on it),
`GhostQueue`, `TtlBuckets`, `AdmissionPool`, `TtlChain`, `CacheOps`, `NumericOps`, `Cuckoo`,
`Datapool`, `ReserveLoop`, the refinement of `AtomicCache`.

Proved since, in this order: `NumericOps`, `ReserveLoop`, `TtlChain`, `CacheOps`, the refinement of
`AtomicCache`, `Datapool`, `Cuckoo`.

Next: lazy expiry inside the calls of `CacheOps`.
