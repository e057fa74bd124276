---------------------------- MODULE AdmissionPool ----------------------------
(***************************************************************************)
(* The admission pool of the S3-FIFO policy: a label on each segment and   *)
(* one counter, admission_count, that no lock protects.  An insert labels  *)
(* the segment it landed in with a CAS and counts it in a second step; a   *)
(* drain reads the label, uncounts and resets it in three.  The writer pin *)
(* of the insert is all that keeps the two apart.                          *)
(*                                                                         *)
(* A segment is in service (linked, pinnable), being drained, condemned or *)
(* free; SegmentLifecycle has the finer states and the pin protocol, of    *)
(* which only the outcome is used here: a drain goes on when it sees no    *)
(* pinned writer, and then no new pin succeeds.                            *)
(***************************************************************************)
EXTENDS Integers, FiniteSets

CONSTANTS
  Segments, Threads,
  NoSegment,     \* the thread is not at a segment
  AdmissionCap   \* admission_cap

ASSUME PoolConstants ==
  /\ IsFiniteSet(Segments) /\ IsFiniteSet(Threads)
  /\ NoSegment \notin Segments
  /\ AdmissionCap \in Nat

VARIABLES
  pool,              \* header.pool
  admission_count,   \* Segments.admission_count
  service,           \* the segment's state, as far as this module needs it
  pc, seg, target    \* per thread: step, segment, the pool its item goes to

vars == <<pool, admission_count, service, pc, seg, target>>

Pools == {"Main", "Admission"}
Services == {"Free", "Linked", "Draining", "AwaitingRelease"}
InsertPcs == {"label", "count", "unpin"}
LeavePcs == {"leave", "uncount", "reset", "release"}
Pcs == {"idle", "evict", "reserve", "wait"} \cup InsertPcs \cup LeavePcs

Init ==
  /\ pool = [s \in Segments |-> "Main"]
  /\ admission_count = 0
  /\ service = [s \in Segments |-> "Free"]
  /\ pc = [t \in Threads |-> "idle"]
  /\ seg = [t \in Threads |-> NoSegment]
  /\ target = [t \in Threads |-> "none"]

Go(t, p) == pc' = [pc EXCEPT ![t] = p] /\ UNCHANGED <<seg, target>>

Finish(t) ==
  /\ pc' = [pc EXCEPT ![t] = "idle"]
  /\ seg' = [seg EXCEPT ![t] = NoSegment]
  /\ target' = [target EXCEPT ![t] = "none"]

-----------------------------------------------------------------------------
pool_has_room(p) == p = "Admission" => admission_count < AdmissionCap

\* reserve_and_define: the ghost queue has chosen the pool. An insert for a full
\* admission pool runs an eviction first.
Route(t, p) ==
  /\ pc[t] = "idle"
  /\ pc' = [pc EXCEPT ![t] = IF pool_has_room(p) THEN "reserve" ELSE "evict"]
  /\ target' = [target EXCEPT ![t] = p]
  /\ UNCHANGED <<pool, admission_count, service, seg>>

\* reserve found room in a tail: the thread holds its writer pin.
Reserve(t, s) ==
  /\ pc[t] = "reserve"
  /\ service[s] = "Linked"
  /\ pc' = [pc EXCEPT ![t] = IF target[t] = "Admission" THEN "label" ELSE "unpin"]
  /\ seg' = [seg EXCEPT ![t] = s]
  /\ UNCHANGED <<pool, admission_count, service, target>>

\* NoFreeSegments: evict and try again, or give up.
ReserveFailed(t) ==
  /\ pc[t] = "reserve"
  /\ Go(t, "evict") \/ Finish(t)
  /\ UNCHANGED <<pool, admission_count, service>>

\* cas_pool(Main, Admission): of the inserts into one segment, one counts it.
Label(t) ==
  LET s == seg[t] IN
  /\ pc[t] = "label"
  /\ IF pool[s] = "Main"
     THEN pool' = [pool EXCEPT ![s] = "Admission"] /\ Go(t, "count")
     ELSE Go(t, "unpin") /\ UNCHANGED pool
  /\ UNCHANGED <<admission_count, service>>

\* incr_pool.
Count(t) ==
  /\ pc[t] = "count"
  /\ admission_count' = admission_count + 1
  /\ Go(t, "unpin")
  /\ UNCHANGED <<pool, service>>

\* The item is published and the writer pin dropped.
Unpin(t) ==
  /\ pc[t] = "unpin"
  /\ Finish(t)
  /\ UNCHANGED <<pool, admission_count, service>>

\* A free segment enters service, at a tail (try_expand).
Expand(s) ==
  /\ service[s] = "Free"
  /\ service' = [service EXCEPT ![s] = "Linked"]
  /\ UNCHANGED <<pool, admission_count, pc, seg, target>>

\* A free segment enters service as a copy destination: configure_spare,
\* s3fifo_evict_admission and s3fifo_evict_main reset its label.
LinkDest(s) ==
  /\ service[s] = "Free"
  /\ service' = [service EXCEPT ![s] = "Linked"]
  /\ pool' = [pool EXCEPT ![s] = "Main"]
  /\ UNCHANGED <<admission_count, pc, seg, target>>

-----------------------------------------------------------------------------
\* expire, clear, or remove_at of an emptied segment, outside of an insert.
BeginDrain(t) ==
  /\ pc[t] = "idle"
  /\ Go(t, "evict")
  /\ UNCHANGED <<pool, admission_count, service>>

\* The claim. Whatever the policy chose it by (an S3-FIFO pass looks for the label
\* without a lock), only one thread wins it.
Claim(t, s) ==
  /\ pc[t] = "evict"
  /\ service[s] = "Linked"
  /\ service' = [service EXCEPT ![s] = "Draining"]
  /\ pc' = [pc EXCEPT ![t] = "wait"]
  /\ seg' = [seg EXCEPT ![t] = s]
  /\ UNCHANGED <<pool, admission_count, target>>

\* evict returns, having drained as many segments as it did; an insert ignores
\* the result and reserves.
EvictDone(t) ==
  /\ pc[t] = "evict"
  /\ IF target[t] = "none" THEN Finish(t) ELSE Go(t, "reserve")
  /\ UNCHANGED <<pool, admission_count, service>>

\* Slip: the pin is dropped once the label is set, before it is counted.
WritersUncounted(s) == {t \in Threads : seg[t] = s /\ pc[t] \in {"label", "unpin"}}

\* The inserts that hold a writer pin on s.
Writers(s) == {t \in Threads : seg[t] = s /\ pc[t] \in InsertPcs}

\* claim_for_drain, drain_chain: wait for active_writers to reach zero.
WaitWriters(t) ==
  /\ pc[t] = "wait"
  /\ Writers(seg[t]) = {}
  /\ Go(t, "leave")
  /\ UNCHANGED <<pool, admission_count, service>>

\* recycle, condemn: the label is read,
ReadLabel(t) ==
  /\ pc[t] = "leave"
  /\ Go(t, IF pool[seg[t]] = "Admission" THEN "uncount" ELSE "reset")
  /\ UNCHANGED <<pool, admission_count, service>>

\* an admission segment uncounted,
Uncount(t) ==
  /\ pc[t] = "uncount"
  /\ admission_count' = admission_count - 1
  /\ Go(t, "reset")
  /\ UNCHANGED <<pool, service>>

\* and the label reset,
ResetPool(t) ==
  /\ pc[t] = "reset"
  /\ pool' = [pool EXCEPT ![seg[t]] = "Main"]
  /\ Go(t, "release")
  /\ UNCHANGED <<admission_count, service>>

\* before try_release_drained or cas_condemn. The pass may go on to another segment.
Leave(t) ==
  /\ pc[t] = "release"
  /\ \E r \in {"Free", "AwaitingRelease"} : service' = [service EXCEPT ![seg[t]] = r]
  /\ pc' = [pc EXCEPT ![t] = "evict"]
  /\ seg' = [seg EXCEPT ![t] = NoSegment]
  /\ UNCHANGED <<pool, admission_count, target>>

\* The last reader frees a condemned segment; it has no access to the pool.
CondemnedFreed(s) ==
  /\ service[s] = "AwaitingRelease"
  /\ service' = [service EXCEPT ![s] = "Free"]
  /\ UNCHANGED <<pool, admission_count, pc, seg, target>>

InsertStep(t) ==
  \/ \E p \in Pools : Route(t, p)
  \/ \E s \in Segments : Reserve(t, s)
  \/ ReserveFailed(t) \/ Label(t) \/ Count(t) \/ Unpin(t)

DrainStep(t) ==
  \/ BeginDrain(t) \/ EvictDone(t)
  \/ \E s \in Segments : Claim(t, s)
  \/ WaitWriters(t) \/ ReadLabel(t) \/ Uncount(t) \/ ResetPool(t) \/ Leave(t)

Next ==
  \/ \E t \in Threads : InsertStep(t) \/ DrainStep(t)
  \/ \E s \in Segments : Expand(s) \/ LinkDest(s) \/ CondemnedFreed(s)

Spec == Init /\ [][Next]_vars

-----------------------------------------------------------------------------
TypeOK ==
  /\ pool \in [Segments -> Pools]
  /\ admission_count \in Int
  /\ service \in [Segments -> Services]
  /\ pc \in [Threads -> Pcs]
  /\ seg \in [Threads -> Segments \cup {NoSegment}]
  /\ target \in [Threads -> Pools \cup {"none"}]

Labelled == {s \in Segments : pool[s] = "Admission"}

\* Segments whose label and count differ for the moment: labelled and not counted
\* yet, or uncounted and not reset yet.
InTransit ==
  {s \in Segments : \E t \in Threads :
     seg[t] = s /\ pool[s] = "Admission" /\ pc[t] \in {"count", "reset"}}

\* docs/s3fifo.md: the counter is incremented by the insert whose CAS changes a
\* label and decremented when a labelled segment leaves service. Whatever inserts
\* and drains run, it is the number of labelled segments, up to the ones in transit.
PoolCountExact == admission_count = Cardinality(Labelled \ InTransit)

\* recycle's and condemn's debug_assert: "admission_count underflowed" (a u32, which
\* would wrap and close the admission pool for good).
NoUnderflow == \A t \in Threads : pc[t] = "uncount" => admission_count > 0

\* reserve_and_define: "Fresh segments are labelled Main". The label of one life
\* never reaches the next, whoever frees the segment.
FreshIsMain ==
  \A s \in Segments : service[s] \in {"Free", "AwaitingRelease"} => pool[s] = "Main"
=============================================================================
