----------------------------- MODULE TtlBuckets -----------------------------
(***************************************************************************)
(* Which TTL bucket an item goes to and how long it then lives             *)
(* (ttl_buckets/ttl_buckets.rs).  A bucket stamps its segments with the    *)
(* shortest TTL it holds; a segment's deadline is its creation time plus   *)
(* that stamp, and from the stamp alone the evictors find the segment's    *)
(* bucket again.  The state machine follows one item: inserted with some   *)
(* TTL into a segment that may be older than the insert, then rewritten by *)
(* try_into_numeric, which reads the TTL that remains, lets go of the      *)
(* segment, and reserves with that TTL some time later.                    *)
(***************************************************************************)
EXTENDS Integers

CONSTANTS
  Ttls,      \* the Durations that inserts are given, in half seconds
  Wrap,      \* 2^32, where u32 seconds end and, by half, those of an i32
  MaxTime    \* bound: the coarse clock stops here

\* Every TTL of the bucket table is a positive i32.
ASSUME TtlBounds == Ttls \subseteq Nat /\ MaxTime \in Nat /\ Wrap \in Nat /\ Wrap >= 2 * 8388608

VARIABLES
  clock,     \* the coarse clock, in seconds
  index,     \* the bucket the item's segment hangs in
  create_at, \* header.create_at of that segment
  ttl,       \* header.ttl of that segment
  asked,     \* the TTL the insert was given
  born,      \* history: when the insert reserved the item
  step,      \* try_into_numeric: "bytes" before, "reserve" inside, "number" after
  seg_ttl,   \* what it read of the TTL, in "reserve"
  read_at,   \* history: when it read that
  late       \* history: how long after that the rewritten item was reserved

place   == <<index, create_at, ttl>>
given   == <<asked, born>>
rewrite == <<step, seg_ttl, read_at, late>>
ttlVars == <<clock, place, given, rewrite>>

BUCKETS_PER_TIER == 256
TOTAL_BUCKETS == 1024
TIER_1_WIDTH == 8
TIER_2_WIDTH == 128
TIER_3_WIDTH == 2048
TIER_4_WIDTH == 32768
TIER_1_MAX == 2048
TIER_2_MAX == 32768
TIER_3_MAX == 524288

\* Whole seconds, at most u32::MAX.
coarse_ttl(half) == LET secs == half \div 2 IN IF secs < Wrap THEN secs ELSE Wrap - 1

\* A TTL of zero, and one the i32 cast made negative, go to the last bucket; the
\* masks and shifts of positive values are comparisons and quotients.
bucket_index(secs) ==
  IF secs <= 0 THEN TOTAL_BUCKETS - 1
  ELSE IF secs < TIER_1_MAX THEN secs \div TIER_1_WIDTH
  ELSE IF secs < TIER_2_MAX THEN (secs \div TIER_2_WIDTH) + BUCKETS_PER_TIER
  ELSE IF secs < TIER_3_MAX THEN (secs \div TIER_3_WIDTH) + 2 * BUCKETS_PER_TIER
  ELSE LET i == (secs \div TIER_4_WIDTH) + 3 * BUCKETS_PER_TIER
       IN  IF i < TOTAL_BUCKETS THEN i ELSE TOTAL_BUCKETS - 1

\* The cast of u32 seconds to i32.
get_bucket_index(secs) == bucket_index(IF 2 * secs < Wrap THEN secs ELSE secs - Wrap)

\* The width of the tier that bucket i belongs to.
Width(i) ==
  IF i < BUCKETS_PER_TIER THEN TIER_1_WIDTH
  ELSE IF i < 2 * BUCKETS_PER_TIER THEN TIER_2_WIDTH
  ELSE IF i < 3 * BUCKETS_PER_TIER THEN TIER_3_WIDTH
  ELSE TIER_4_WIDTH

AtLeastOne(n) == IF n < 1 THEN 1 ELSE n

\* Slip: bucket 0 keeps the floor 0, which bucket_index takes for "no TTL".
BucketTtlZero(i) == Width(i) * (i % BUCKETS_PER_TIER)

\* TtlBuckets::new: the bottom of the range, and never zero.
BucketTtl(i) == AtLeastOne(Width(i) * (i % BUCKETS_PER_TIER))

TtlInit ==
  /\ clock \in 0..MaxTime
  /\ born = clock
  /\ asked \in Ttls
  /\ index = get_bucket_index(coarse_ttl(asked))
  /\ ttl = BucketTtl(index)
  /\ create_at \in 0..clock
  /\ step = "bytes" /\ seg_ttl = 0 /\ read_at = 0 /\ late = 0

Tick ==
  /\ clock < MaxTime
  /\ clock' = clock + 1
  /\ UNCHANGED <<place, given, rewrite>>

\* Slip: the rewritten item starts its TTL again.
RemainingIsWhole == ttl

\* remaining_ttl, of a segment that has not expired.
remaining_ttl == IF ttl = 0 THEN 0 ELSE create_at + ttl - clock

\* try_into_numeric under the guard: an item past its deadline is NotFound, the
\* TTL that remains of another one is read and the guard dropped.
ReadRemaining ==
  /\ step = "bytes"
  /\ ttl = 0 \/ create_at + ttl > clock
  /\ step' = "reserve" /\ seg_ttl' = remaining_ttl /\ read_at' = clock
  /\ UNCHANGED <<clock, place, given, late>>

\* reserve_and_define and replace_at: the number goes to the tail of its bucket,
\* created by this reserve or at any earlier time, and takes the item's place
\* whether or not the item has expired by now. A number is not rewritten again.
Rewrite ==
  /\ step = "reserve"
  /\ index' = get_bucket_index(seg_ttl)
  /\ ttl' = BucketTtl(index')
  /\ create_at' \in 0..clock
  /\ step' = "number" /\ seg_ttl' = 0 /\ read_at' = 0 /\ late' = clock - read_at
  /\ UNCHANGED <<clock, given>>

\* NoFreeSegments, or Exists because the entry was replaced or moved.
RewriteFails ==
  /\ step = "reserve"
  /\ step' = "bytes" /\ seg_ttl' = 0 /\ read_at' = 0
  /\ UNCHANGED <<clock, place, given, late>>

TtlNext == Tick \/ ReadRemaining \/ Rewrite \/ RewriteFails

TtlSpec == TtlInit /\ [][TtlNext]_ttlVars

-----------------------------------------------------------------------------
\* ttl_ceiling_tests.rs:1 "A TTL is a ceiling. The cache may drop an item before
\* its deadline [...] but must never serve it after": the item's segment ends by
\* the time the insert asked for. (Zero asks for no deadline.)
TtlIsCeiling == asked > 0 => 2 * (create_at + ttl) <= 2 * born + asked

\* What holds of it: a TTL of a second or more is overrun by no more than the
\* time that try_into_numeric let pass between remaining_ttl and its reserve,
\* whichever bucket and segment the rewrite ends in, expired meanwhile or not.
CeilingUpToDelay ==
  coarse_ttl(asked) > 0 => create_at + ttl <= born + coarse_ttl(asked) + late

\* lock_sealed_in_bucket finds a segment's bucket from its stamped TTL alone.
StampFindsBucket == index \in 0..TOTAL_BUCKETS - 1 /\ get_bucket_index(ttl) = index
=============================================================================
