-------------------------- MODULE SegmentLifecycle --------------------------
(***************************************************************************)
(* The life of a segcache segment: the header's atomic words               *)
(* (segments/header.rs), the RAII pins over them (guard.rs, writer_pin.rs, *)
(* remover_pin.rs), the two queues a free segment waits in (free_queue.rs) *)
(* and the callers in segments.rs and ttl_bucket.rs that move a segment    *)
(* through                                                                 *)
(*                                                                         *)
(*   Free -> Reserved -> Linking -> Live -> Sealed -> Draining             *)
(*     ^                       \-> Relinking -/          |                 *)
(*     +---- recycle ------------------------------------+                 *)
(*     +---- last reader, backout or condemner --- AwaitingRelease <-+     *)
(*                                                                         *)
(* One step is one atomic access of the header (every access that takes    *)
(* part in a Dekker pair is SeqCst in the code, so interleaving is         *)
(* the right memory model).  Steps on words only their owner can reach are *)
(* joined with the access that gave the ownership.  Chain links are in no  *)
(* variable here: a chain is the subject of another module, and this one   *)
(* lets any thread claim any Sealed or Live segment, which contains what   *)
(* the chain locks allow.                                                  *)
(***************************************************************************)
EXTENDS Integers, FiniteSets

CONSTANTS
  Segments,        \* segment ids (u32, 1-based in the code)
  NoSegment,       \* an idle thread works on none
  Threads,         \* client threads; each may run any operation
  SpareSegments,   \* ids put in the spare queue at build time (Merge policy)
  SegmentSize,     \* capacity of a segment, in items
  TagMod,          \* values of the condemn stamp (256 in the code)
  LocationTagMod,  \* values of a location's incarnation tag (64 in the code)
  MaxGen           \* bound: a segment is claimed only below this generation

ASSUME NoSegmentIsNone == NoSegment \notin Segments
ASSUME ThreadsFinite == IsFiniteSet(Threads)
ASSUME SparesAreSegments == SpareSegments \subseteq Segments /\ IsFiniteSet(SpareSegments)
ASSUME Sizes ==
  /\ SegmentSize \in Nat
  /\ TagMod \in Nat \ {0}
  /\ LocationTagMod \in Nat \ {0}
  /\ MaxGen \in Nat

\* builder: the first spare_capacity ids fill the spare queue.
SpareCapacity == Cardinality(SpareSegments)

VARIABLES
  state,            \* header.metadata: the state field
  tag,              \* header.metadata: the stamp byte
  generation,       \* header.generation
  ref_count,        \* header.ref_count
  active_writers,   \* header.active_writers
  active_removers,  \* header.active_removers
  write_offset,     \* header.write_offset, in items
  free_queue,       \* copies of each id in the free queue
  spare_queue,      \* copies of each id in the spare queue
  spare_count,      \* Segments.spare_count
  pc, seg,          \* per thread: the next step, and the segment it is about
  route,            \* per thread: which caller of a shared helper it is in
  token,            \* per thread: stamp loaded by try_release_condemned
  seen,             \* per thread: a generation it read (see GoSee)
  uses              \* history: drain claims won on each segment

header == <<state, tag, generation, write_offset>>
pins   == <<ref_count, active_writers, active_removers>>
queues == <<free_queue, spare_queue, spare_count>>
local  == <<pc, seg, route, token, seen>>
vars   == <<header, pins, queues, local, uses>>

States == {"Free", "Reserved", "Linking", "Live", "Sealed", "Relinking",
           "Draining", "AwaitingRelease"}
Readable  == {"Live", "Sealed", "Relinking"}
Writable  == {"Live"}
Removable == {"Sealed", "Live"}

ReaderPcs  == {"acq_inc", "acq_recheck", "backout", "acq_tag", "reading", "mismatch"}
ReleasePcs == {"rel_load", "rel_cas", "rel_bump", "rel_reset"}
ReturnPcs  == {"return", "push_free", "push_spare"}
WriterPcs  == {"w_inc", "w_recheck", "w_backout", "w_alloc", "w_define", "w_release"}
RemoverPcs == {"rm_inc", "rm_recheck", "rm_backout", "rm_remove"}
DrainPcs   == {"wait_writers", "wait_removers", "clear", "check_refs",
               "recycle", "release_drained", "condemn"}
ReservePcs == {"try_reserve", "spare_dec", "reserved", "link", "publish", "fill"}
Pcs == {"idle", "cond_recheck"} \cup ReaderPcs \cup ReleasePcs \cup ReturnPcs
         \cup WriterPcs \cup RemoverPcs \cup DrainPcs \cup ReservePcs
Routes == {"none", "guard", "return", "recycle", "expand", "dest", "spare"}

Go(t, p) ==
  /\ pc' = [pc EXCEPT ![t] = p]
  /\ UNCHANGED <<seg, route, token, seen>>

GoVia(t, p, r) ==
  /\ pc' = [pc EXCEPT ![t] = p]
  /\ route' = [route EXCEPT ![t] = r]
  /\ UNCHANGED <<seg, token, seen>>

\* "seen" is, by the step the thread is at: the generation in the location a
\* reader looked up; the generation under its pin once the tag matched; the
\* generation a reserver puts in the location it publishes; the generation a
\* release token was loaded at.
GoSee(t, p, g) ==
  /\ pc' = [pc EXCEPT ![t] = p]
  /\ seen' = [seen EXCEPT ![t] = g]
  /\ UNCHANGED <<seg, route, token>>

\* The thread is done with the segment.
Finish(t) ==
  /\ pc' = [pc EXCEPT ![t] = "idle"]
  /\ route' = [route EXCEPT ![t] = "none"]
  /\ token' = [token EXCEPT ![t] = 0]
  /\ seen' = [seen EXCEPT ![t] = 0]
  /\ seg' = [seg EXCEPT ![t] = NoSegment]

Start(t, s, p) ==
  /\ pc[t] = "idle"
  /\ pc' = [pc EXCEPT ![t] = p]
  /\ seg' = [seg EXCEPT ![t] = s]

SetState(s, from, to) ==
  /\ state[s] = from
  /\ state' = [state EXCEPT ![s] = to]

Init ==
  /\ state = [s \in Segments |-> "Free"]
  /\ tag = [s \in Segments |-> 0]
  /\ generation = [s \in Segments |-> 0]
  /\ write_offset = [s \in Segments |-> 0]
  /\ ref_count = [s \in Segments |-> 0]
  /\ active_writers = [s \in Segments |-> 0]
  /\ active_removers = [s \in Segments |-> 0]
  /\ free_queue = [s \in Segments |-> IF s \in SpareSegments THEN 0 ELSE 1]
  /\ spare_queue = [s \in Segments |-> IF s \in SpareSegments THEN 1 ELSE 0]
  /\ spare_count = SpareCapacity
  /\ pc = [t \in Threads |-> "idle"]
  /\ seg = [t \in Threads |-> NoSegment]
  /\ route = [t \in Threads |-> "none"]
  /\ token = [t \in Threads |-> 0]
  /\ seen = [t \in Threads |-> 0]
  /\ uses = [s \in Segments |-> 0]

-----------------------------------------------------------------------------
(* Readers: acquire_item_at, and the drop of the guard it returns.         *)

\* A reader looks a location up and finds its segment readable.  The location
\* was published at the generation g, now or in an earlier life.
AcquireCheck(t, s, g) ==
  /\ Start(t, s, "acq_inc")
  /\ state[s] \in Readable
  /\ g <= generation[s]
  /\ seen' = [seen EXCEPT ![t] = g]
  /\ UNCHANGED <<header, pins, queues, uses, route, token>>

AcquireIncrement(t) ==
  LET s == seg[t] IN
  /\ pc[t] = "acq_inc"
  /\ ref_count' = [ref_count EXCEPT ![s] = @ + 1]
  /\ Go(t, "acq_recheck")
  /\ UNCHANGED <<header, active_writers, active_removers, queues, uses>>

AcquireRecheck(t) ==
  /\ pc[t] = "acq_recheck"
  /\ Go(t, IF state[seg[t]] \in Readable THEN "acq_tag" ELSE "backout")
  /\ UNCHANGED <<header, pins, queues, uses>>

\* tag_matches_header, under the pin.
TagCheck(t) ==
  LET s == seg[t] IN
  /\ pc[t] = "acq_tag"
  /\ IF generation[s] % LocationTagMod = seen[t] % LocationTagMod
     THEN GoSee(t, "reading", generation[s])
     ELSE Go(t, "mismatch")
  /\ UNCHANGED <<header, pins, queues, uses>>

\* release_reader_for_guard: only the thread that takes the count to zero goes
\* on to try_release_condemned.
ReleaseReader(t, r) ==
  LET s == seg[t] IN
  /\ ref_count' = [ref_count EXCEPT ![s] = @ - 1]
  /\ IF ref_count[s] = 1 THEN GoVia(t, "rel_load", r) ELSE Finish(t)
  /\ UNCHANGED <<header, active_writers, active_removers, queues, uses>>

\* Slip: the backout only decrements, it does not look for a condemned segment.
AcquireBackoutNoHandoff(t) ==
  /\ pc[t] = "backout"
  /\ ref_count' = [ref_count EXCEPT ![seg[t]] = @ - 1]
  /\ Finish(t)
  /\ UNCHANGED <<header, active_writers, active_removers, queues, uses>>

\* try_acquire_reader's backout is the same decrement and handoff as a drop.
AcquireBackout(t) == pc[t] = "backout" /\ ReleaseReader(t, "return")

GuardDrop(t) == pc[t] \in {"reading", "mismatch"} /\ ReleaseReader(t, "guard")

-----------------------------------------------------------------------------
(* The AwaitingRelease -> Free handoff and the return to a queue.          *)

\* try_release_condemned, first half: load the word the CAS will expect.
ReleaseLoad(t) ==
  LET s == seg[t] IN
  /\ pc[t] = "rel_load"
  /\ IF state[s] = "AwaitingRelease"
     THEN /\ pc' = [pc EXCEPT ![t] = "rel_cas"]
          /\ token' = [token EXCEPT ![t] = tag[s]]
          /\ seen' = [seen EXCEPT ![t] = generation[s]]
          /\ UNCHANGED <<seg, route>>
     ELSE Finish(t)
  /\ UNCHANGED <<header, pins, queues, uses>>

\* Slip: a store where the code has a compare-and-swap.
ReleaseStore(t) ==
  LET s == seg[t] IN
  /\ pc[t] = "rel_cas"
  /\ state' = [state EXCEPT ![s] = "Free"]
  /\ tag' = [tag EXCEPT ![s] = 0]
  /\ Go(t, "rel_bump")
  /\ UNCHANGED <<generation, write_offset, pins, queues, uses>>

\* try_release_condemned, second half: the single-shot CAS.
ReleaseCas(t) ==
  LET s == seg[t] IN
  /\ pc[t] = "rel_cas"
  /\ IF state[s] = "AwaitingRelease" /\ tag[s] = token[t]
     THEN /\ state' = [state EXCEPT ![s] = "Free"]
          /\ tag' = [tag EXCEPT ![s] = 0]
          /\ Go(t, "rel_bump")
          /\ UNCHANGED <<generation, write_offset>>
     ELSE Finish(t) /\ UNCHANGED header
  /\ UNCHANGED <<pins, queues, uses>>

\* The residual the code accepts (header.rs, cas_condemn): no thread is stalled
\* between the load and the CAS of a release for TagMod lifecycles.
TokensInWindow(s) ==
  \A u \in Threads : pc[u] = "rel_cas" /\ seg[u] = s => generation[s] + 1 - seen[u] < TagMod

\* The generation bump that ends a used incarnation.
BumpGeneration(t) ==
  LET s == seg[t] IN
  /\ pc[t] = "rel_bump"
  /\ TokensInWindow(s)
  /\ generation' = [generation EXCEPT ![s] = @ + 1]
  /\ Go(t, IF route[t] = "recycle" THEN "return" ELSE "rel_reset")
  /\ UNCHANGED <<state, tag, write_offset, pins, queues, uses>>

\* reset_write_stats by the winner of the CAS.  A guard holds a pointer to the
\* free queue only and pushes there; the others go through return_segment.
ResetWriteStats(t) ==
  /\ pc[t] = "rel_reset"
  /\ write_offset' = [write_offset EXCEPT ![seg[t]] = 0]
  /\ Go(t, IF route[t] = "guard" THEN "push_free" ELSE "return")
  /\ UNCHANGED <<state, tag, generation, pins, queues, uses>>

\* Slip: <= where the code has <.
ReturnSegmentOverfill(t) ==
  /\ pc[t] = "return"
  /\ IF spare_count <= SpareCapacity
     THEN spare_count' = spare_count + 1 /\ Go(t, "push_spare")
     ELSE Go(t, "push_free") /\ UNCHANGED spare_count
  /\ UNCHANGED <<header, pins, free_queue, spare_queue, uses>>

\* return_segment: refill the spare queue first.
ReturnSegment(t) ==
  /\ pc[t] = "return"
  /\ IF spare_count < SpareCapacity
     THEN spare_count' = spare_count + 1 /\ Go(t, "push_spare")
     ELSE Go(t, "push_free") /\ UNCHANGED spare_count
  /\ UNCHANGED <<header, pins, free_queue, spare_queue, uses>>

PushFreed(t) ==
  /\ pc[t] = "push_free"
  /\ free_queue' = [free_queue EXCEPT ![seg[t]] = @ + 1]
  /\ Finish(t)
  /\ UNCHANGED <<header, pins, spare_queue, spare_count, uses>>

PushSpare(t) ==
  /\ pc[t] = "push_spare"
  /\ spare_queue' = [spare_queue EXCEPT ![seg[t]] = @ + 1]
  /\ Finish(t)
  /\ UNCHANGED <<header, pins, free_queue, spare_count, uses>>

-----------------------------------------------------------------------------
(* Writers: try_alloc_item on a bucket's tail, define, publish, unpin.     *)

PinWriterCheck(t, s) ==
  /\ Start(t, s, "w_inc")
  /\ state[s] \in Writable
  /\ UNCHANGED <<header, pins, queues, uses, route, token, seen>>

PinWriterIncrement(t) ==
  /\ pc[t] = "w_inc"
  /\ active_writers' = [active_writers EXCEPT ![seg[t]] = @ + 1]
  /\ Go(t, "w_recheck")
  /\ UNCHANGED <<header, ref_count, active_removers, queues, uses>>

\* Slip: the pin is granted without the second look at the state.
PinWriterUnchecked(t) ==
  /\ pc[t] = "w_recheck"
  /\ Go(t, "w_alloc")
  /\ UNCHANGED <<header, pins, queues, uses>>

PinWriterRecheck(t) ==
  /\ pc[t] = "w_recheck"
  /\ Go(t, IF state[seg[t]] \in Writable THEN "w_alloc" ELSE "w_backout")
  /\ UNCHANGED <<header, pins, queues, uses>>

\* try_reserve_space under the pin; a full segment releases the pin at once.
AllocItem(t) ==
  LET s == seg[t] IN
  /\ pc[t] = "w_alloc"
  /\ IF write_offset[s] + 1 <= SegmentSize
     THEN /\ write_offset' = [write_offset EXCEPT ![s] = @ + 1]
          /\ GoSee(t, "w_define", generation[s])
     ELSE Go(t, "w_release") /\ UNCHANGED write_offset
  /\ UNCHANGED <<state, tag, generation, pins, queues, uses>>

\* The item is defined and its location published in the hashtable.
DefineAndPublish(t) ==
  /\ pc[t] = "w_define"
  /\ Go(t, "w_release")
  /\ UNCHANGED <<header, pins, queues, uses>>

\* Slip: the backout forgets its increment.
ReleaseWriterLeak(t) ==
  /\ pc[t] \in {"w_backout", "w_release"}
  /\ active_writers' = [active_writers EXCEPT ![seg[t]] = IF pc[t] = "w_backout" THEN @ ELSE @ - 1]
  /\ Finish(t)
  /\ UNCHANGED <<header, ref_count, active_removers, queues, uses>>

ReleaseWriter(t) ==
  /\ pc[t] \in {"w_backout", "w_release"}
  /\ active_writers' = [active_writers EXCEPT ![seg[t]] = @ - 1]
  /\ Finish(t)
  /\ UNCHANGED <<header, ref_count, active_removers, queues, uses>>

(* Removers: the pin a replace or delete holds over remove_at.             *)

PinRemoverCheck(t, s) ==
  /\ Start(t, s, "rm_inc")
  /\ state[s] \in Removable
  /\ UNCHANGED <<header, pins, queues, uses, route, token, seen>>

PinRemoverIncrement(t) ==
  /\ pc[t] = "rm_inc"
  /\ active_removers' = [active_removers EXCEPT ![seg[t]] = @ + 1]
  /\ Go(t, "rm_recheck")
  /\ UNCHANGED <<header, ref_count, active_writers, queues, uses>>

PinRemoverRecheck(t) ==
  /\ pc[t] = "rm_recheck"
  /\ Go(t, IF state[seg[t]] \in Removable THEN "rm_remove" ELSE "rm_backout")
  /\ UNCHANGED <<header, pins, queues, uses>>

ReleaseRemover(t) ==
  /\ pc[t] \in {"rm_backout", "rm_remove"}
  /\ active_removers' = [active_removers EXCEPT ![seg[t]] = @ - 1]
  /\ Finish(t)
  /\ UNCHANGED <<header, ref_count, active_writers, queues, uses>>

-----------------------------------------------------------------------------
(* Drains: claim_for_drain (Sealed), drain_chain (Sealed or the Live tail),*)
(* then finalize_drained: sweep, and recycle or condemn.                   *)

ClaimForDrain(t, s) ==
  /\ Start(t, s, "wait_writers")
  /\ state[s] \in {"Sealed", "Live"}
  /\ generation[s] < MaxGen
  /\ state' = [state EXCEPT ![s] = "Draining"]
  /\ uses' = [uses EXCEPT ![s] = @ + 1]
  /\ UNCHANGED <<tag, generation, write_offset, pins, queues, route, token, seen>>

WaitWriters(t) ==
  /\ pc[t] = "wait_writers"
  /\ active_writers[seg[t]] = 0
  /\ Go(t, "wait_removers")
  /\ UNCHANGED <<header, pins, queues, uses>>

\* Slip: the drain does not wait for the removers.
WaitRemoversSkipped(t) ==
  /\ pc[t] = "wait_removers"
  /\ Go(t, "clear")
  /\ UNCHANGED <<header, pins, queues, uses>>

WaitRemovers(t) ==
  /\ pc[t] = "wait_removers"
  /\ active_removers[seg[t]] = 0
  /\ Go(t, "clear")
  /\ UNCHANGED <<header, pins, queues, uses>>

\* Segment::clear ends with write_offset = live_bytes, which unpinned unlinks
\* may have left above zero: any residue.
ClearSegment(t) ==
  /\ pc[t] = "clear"
  /\ \E left \in 0..write_offset[seg[t]] : write_offset' = [write_offset EXCEPT ![seg[t]] = left]
  /\ Go(t, "check_refs")
  /\ UNCHANGED <<state, tag, generation, pins, queues, uses>>

CheckRefs(t) ==
  /\ pc[t] = "check_refs"
  /\ IF ref_count[seg[t]] = 0 THEN GoVia(t, "recycle", "recycle") ELSE Go(t, "condemn")
  /\ UNCHANGED <<header, pins, queues, uses>>

\* recycle: statistics are reset before the transition to Free.
RecycleReset(t) ==
  /\ pc[t] = "recycle"
  /\ write_offset' = [write_offset EXCEPT ![seg[t]] = 0]
  /\ Go(t, "release_drained")
  /\ UNCHANGED <<state, tag, generation, pins, queues, uses>>

ReleaseDrained(t) ==
  /\ pc[t] = "release_drained"
  /\ SetState(seg[t], "Draining", "Free")
  /\ Go(t, "rel_bump")
  /\ UNCHANGED <<tag, generation, write_offset, pins, queues, uses>>

\* Slip: the stamp is left out.
CondemnUnstamped(t) ==
  /\ pc[t] = "condemn"
  /\ SetState(seg[t], "Draining", "AwaitingRelease")
  /\ Go(t, "cond_recheck")
  /\ UNCHANGED <<tag, generation, write_offset, pins, queues, uses>>

\* cas_condemn stamps the generation into the word.
Condemn(t) ==
  LET s == seg[t] IN
  /\ pc[t] = "condemn"
  /\ SetState(s, "Draining", "AwaitingRelease")
  /\ tag' = [tag EXCEPT ![s] = generation[s] % TagMod]
  /\ Go(t, "cond_recheck")
  /\ UNCHANGED <<generation, write_offset, pins, queues, uses>>

\* Slip: no second look at the readers after the condemn.
CondemnNoRecheck(t) ==
  /\ pc[t] = "cond_recheck"
  /\ Finish(t)
  /\ UNCHANGED <<header, pins, queues, uses>>

\* condemn's race fix: the last reader may have left before the CAS.
CondemnRecheck(t) ==
  /\ pc[t] = "cond_recheck"
  /\ IF ref_count[seg[t]] = 0 THEN GoVia(t, "rel_load", "return") ELSE Finish(t)
  /\ UNCHANGED <<header, pins, queues, uses>>

-----------------------------------------------------------------------------
(* Reservers: reserve_free (chain extension, copy destinations) and        *)
(* reserve_spare (copy destinations of the Merge policy).                  *)

StealFree(t, s, r) ==
  /\ Start(t, s, "try_reserve")
  /\ free_queue[s] > 0
  /\ free_queue' = [free_queue EXCEPT ![s] = @ - 1]
  /\ route' = [route EXCEPT ![t] = r]
  /\ UNCHANGED <<header, pins, spare_queue, spare_count, uses, token, seen>>

StealSpare(t, s) ==
  /\ Start(t, s, "try_reserve")
  /\ spare_queue[s] > 0
  /\ spare_queue' = [spare_queue EXCEPT ![s] = @ - 1]
  /\ route' = [route EXCEPT ![t] = "spare"]
  /\ UNCHANGED <<header, pins, free_queue, spare_count, uses, token, seen>>

\* try_reserve, or the push back onto the queue the id came from.
TryReserve(t) ==
  LET s == seg[t] IN
  /\ pc[t] = "try_reserve"
  /\ IF state[s] = "Free"
     THEN /\ state' = [state EXCEPT ![s] = "Reserved"]
          /\ write_offset' = [write_offset EXCEPT ![s] = 0]
          /\ Go(t, IF route[t] = "spare" THEN "spare_dec" ELSE "reserved")
          /\ UNCHANGED <<tag, generation, free_queue, spare_queue>>
     ELSE /\ IF route[t] = "spare"
             THEN spare_queue' = [spare_queue EXCEPT ![s] = @ + 1] /\ UNCHANGED free_queue
             ELSE free_queue' = [free_queue EXCEPT ![s] = @ + 1] /\ UNCHANGED spare_queue
          /\ Finish(t)
          /\ UNCHANGED header
  /\ UNCHANGED <<pins, spare_count, uses>>

\* Slip: a taken spare is not uncounted.
SpareTakenUncounted(t) ==
  /\ pc[t] = "spare_dec"
  /\ GoVia(t, "reserved", "dest")
  /\ UNCHANGED <<header, pins, queues, uses>>

SpareTaken(t) ==
  /\ pc[t] = "spare_dec"
  /\ spare_count' = spare_count - 1
  /\ GoVia(t, "reserved", "dest")
  /\ UNCHANGED <<header, pins, free_queue, spare_queue, uses>>

\* try_expand: the seal of the tail the new segment will follow.
SealTail(t, tail) ==
  /\ pc[t] = "reserved" /\ route[t] = "expand"
  /\ SetState(tail, "Live", "Sealed")
  /\ Go(t, "link")
  /\ UNCHANGED <<tag, generation, write_offset, pins, queues, uses>>

\* Reserved -> Linking: after a seal, first in an empty bucket, or in front of
\* the source a copy destination replaces.
LinkSegment(t) ==
  /\ pc[t] \in {"reserved", "link"}
  /\ SetState(seg[t], "Reserved", "Linking")
  /\ Go(t, "publish")
  /\ UNCHANGED <<tag, generation, write_offset, pins, queues, uses>>

PublishTail(t) ==
  /\ pc[t] = "publish" /\ route[t] = "expand"
  /\ SetState(seg[t], "Linking", "Live")
  /\ Finish(t)
  /\ UNCHANGED <<tag, generation, write_offset, pins, queues, uses>>

PublishDest(t) ==
  /\ pc[t] = "publish" /\ route[t] = "dest"
  /\ SetState(seg[t], "Linking", "Relinking")
  /\ Go(t, "fill")
  /\ UNCHANGED <<tag, generation, write_offset, pins, queues, uses>>

\* One survivor copied in by the owner of the destination.
CopyIntoDest(t) ==
  LET s == seg[t] IN
  /\ pc[t] = "fill"
  /\ write_offset[s] + 1 <= SegmentSize
  /\ write_offset' = [write_offset EXCEPT ![s] = @ + 1]
  /\ UNCHANGED <<state, tag, generation, pins, queues, uses, local>>

PublishDestSealed(t) ==
  /\ pc[t] = "fill"
  /\ SetState(seg[t], "Relinking", "Sealed")
  /\ Finish(t)
  /\ UNCHANGED <<tag, generation, write_offset, pins, queues, uses>>

\* Slip: a reservation given back ends a life it never had.
ReleaseUnusedBumps(t) ==
  LET s == seg[t] IN
  /\ pc[t] = "reserved"
  /\ SetState(s, "Reserved", "Free")
  /\ generation' = [generation EXCEPT ![s] = @ + 1]
  /\ Go(t, "return")
  /\ UNCHANGED <<tag, write_offset, pins, queues, uses>>

\* Slip: a reservation given back goes to no queue.
ReleaseUnusedForgets(t) ==
  /\ pc[t] = "reserved"
  /\ SetState(seg[t], "Reserved", "Free")
  /\ Finish(t)
  /\ UNCHANGED <<tag, generation, write_offset, pins, queues, uses>>

\* The loser of an election, or a merge that found its candidate gone.
ReleaseUnused(t) ==
  /\ pc[t] = "reserved"
  /\ SetState(seg[t], "Reserved", "Free")
  /\ Go(t, "return")
  /\ UNCHANGED <<tag, generation, write_offset, pins, queues, uses>>

-----------------------------------------------------------------------------
\* What a thread may begin.
Begin(t) ==
  \E s \in Segments :
    \/ \E g \in 0..generation[s] : AcquireCheck(t, s, g)
    \/ PinWriterCheck(t, s)
    \/ PinRemoverCheck(t, s)
    \/ ClaimForDrain(t, s)
    \/ \E r \in {"expand", "dest"} : StealFree(t, s, r)
    \/ StealSpare(t, s)

\* What a thread that has begun does next.
ReaderStep(t) ==
  \/ AcquireIncrement(t) \/ AcquireRecheck(t) \/ TagCheck(t)
  \/ AcquireBackout(t) \/ GuardDrop(t)
ReleaseStep(t) ==
  \/ ReleaseLoad(t) \/ ReleaseCas(t) \/ BumpGeneration(t) \/ ResetWriteStats(t)
ReturnStep(t) == ReturnSegment(t) \/ PushFreed(t) \/ PushSpare(t)
WriterStep(t) ==
  \/ PinWriterIncrement(t) \/ PinWriterRecheck(t) \/ AllocItem(t)
  \/ DefineAndPublish(t) \/ ReleaseWriter(t)
RemoverStep(t) == PinRemoverIncrement(t) \/ PinRemoverRecheck(t) \/ ReleaseRemover(t)
DrainStep(t) ==
  \/ WaitWriters(t) \/ WaitRemovers(t) \/ ClearSegment(t) \/ CheckRefs(t)
  \/ RecycleReset(t) \/ ReleaseDrained(t) \/ Condemn(t) \/ CondemnRecheck(t)
ReserveStep(t) ==
  \/ TryReserve(t) \/ SpareTaken(t) \/ LinkSegment(t)
  \/ PublishTail(t) \/ PublishDest(t) \/ PublishDestSealed(t) \/ ReleaseUnused(t)
Step(t) ==
  \/ ReaderStep(t) \/ ReleaseStep(t) \/ ReturnStep(t) \/ WriterStep(t)
  \/ RemoverStep(t) \/ DrainStep(t) \/ ReserveStep(t)

\* Steps of a begun operation that it may do without.
Choice(t) ==
  \/ \E tail \in Segments : SealTail(t, tail)
  \/ CopyIntoDest(t)

Next == \E t \in Threads : Begin(t) \/ Step(t) \/ Choice(t)

Spec == Init /\ [][Next]_vars

\* A thread that has begun an operation is scheduled until it ends; readers
\* drop their guards.  Nobody has to begin anything.
Fairness == \A t \in Threads : WF_vars(Step(t))

FairSpec == Spec /\ Fairness

-----------------------------------------------------------------------------
TypeOK ==
  /\ state \in [Segments -> States]
  /\ tag \in [Segments -> Nat]
  /\ generation \in [Segments -> Nat]
  /\ write_offset \in [Segments -> 0..SegmentSize]
  /\ ref_count \in [Segments -> Nat]
  /\ active_writers \in [Segments -> Nat]
  /\ active_removers \in [Segments -> Nat]
  /\ free_queue \in [Segments -> Nat]
  /\ spare_queue \in [Segments -> Nat]
  /\ spare_count \in 0..SpareCapacity
  /\ pc \in [Threads -> Pcs]
  /\ seg \in [Threads -> Segments \cup {NoSegment}]
  /\ \A t \in Threads : pc[t] # "idle" => seg[t] \in Segments
  /\ route \in [Threads -> Routes]
  /\ token \in [Threads -> Nat]
  /\ seen \in [Threads -> Nat]
  /\ uses \in [Segments -> Nat]

\* Steps at which a thread is the only one that may move the segment: it took
\* the id off a queue, won a claim, or won the transition to Free.
OwnerPcs == ReservePcs \cup DrainPcs \cup {"rel_bump", "rel_reset"} \cup ReturnPcs
Owns(t, s) == pc[t] \in OwnerPcs /\ seg[t] = s
Queued(s) == free_queue[s] + spare_queue[s] > 0

\* A reader that passed its recheck and has not dropped its pin.
Pinned(t, s) == pc[t] \in {"acq_tag", "reading", "mismatch"} /\ seg[t] = s

\* Exactly-one-free (header.rs, try_release_condemned): whatever the races of
\* recycle, guard drops, acquire backouts and the condemner's recheck, a segment
\* is in at most one place: once on one queue, or with one owning thread; what
\* is on a queue is Free and holds no residue of its last life.
ExactlyOneFree ==
  \A s \in Segments :
    /\ free_queue[s] + spare_queue[s] <= 1
    /\ Queued(s) => state[s] = "Free" /\ write_offset[s] = 0
    /\ \A t, u \in Threads : Owns(t, s) => ~Queued(s) /\ (Owns(u, s) => t = u)

\* No segment is lost: one outside the chains is on a queue or has a thread
\* that will put it there; a condemned one has a pin left, or a thread that is
\* about to free it (nothing sweeps AwaitingRelease).
NoSegmentLost ==
  \A s \in Segments :
    /\ state[s] \in {"Free", "Reserved", "Linking", "Relinking", "Draining"} =>
         Queued(s) \/ \E t \in Threads : Owns(t, s)
    /\ state[s] = "AwaitingRelease" =>
         \/ ref_count[s] > 0
         \/ \E t \in Threads : /\ seg[t] = s
                               /\ \/ pc[t] \in {"cond_recheck", "rel_load"}
                                  \/ pc[t] = "rel_cas" /\ token[t] = tag[s]

\* The generation counts used lives (header.rs, try_reserve and generation):
\* one bump for each drain, none for a reservation that was given back, and
\* the bump is visible before the segment can be reserved again.
GenerationCountsUses ==
  \A s \in Segments :
    state[s] \in {"Reserved", "Linking", "Live", "Sealed", "Relinking"} \/ Queued(s)
      => generation[s] = uses[s]

\* A drain parses, recycles or condemns a segment only when no reserver is
\* between its grant and its publish and no remover is decrementing it.
DrainIsExclusive ==
  \A t, u \in Threads :
    /\ pc[t] \in {"clear", "check_refs", "recycle", "release_drained", "condemn"}
    /\ pc[u] \in {"w_alloc", "w_define", "w_release", "rm_remove"}
    => seg[t] # seg[u]

\* The location a reserver publishes carries the generation its segment still
\* has: the writer pin holds off every transition that bumps it.
PublishedGenerationCurrent ==
  \A t \in Threads : pc[t] = "w_define" =>
    /\ generation[seg[t]] = seen[t]
    /\ state[seg[t]] \in {"Live", "Sealed", "Draining"}

\* spare_count counts the spare queue's ids, the pushes on their way and the
\* ids stolen but not yet accounted: the spare queue never overfills.
SpareCountExact ==
  spare_count = Cardinality({s \in Segments : spare_queue[s] > 0})
              + Cardinality({t \in Threads : pc[t] = "push_spare"})
              + Cardinality({t \in Threads : pc[t] \in {"try_reserve", "spare_dec"}
                                               /\ route[t] = "spare"})

\* What try_acquire_reader promises (header.rs): while a reader holds its pin
\* the segment it matched is not recycled.
PinnedSegmentNotReused ==
  \A t \in Threads : pc[t] = "reading" =>
    /\ state[seg[t]] \in Readable \cup {"Draining", "AwaitingRelease"}
    /\ generation[seg[t]] = seen[t]

\* No thread is between taking the count to zero and loading the state while
\* another reader holds the segment.
NoDelayedRelease ==
  \A t, u \in Threads : pc[t] = "rel_load" => ~Pinned(u, seg[t])

\* What try_acquire_reader promises holds in every behaviour in which no release's
\* load of the state is delayed past another reader's arrival.
PinSafety == []NoDelayedRelease => []PinnedSegmentNotReused

\* A condemned segment is eventually freed.
CondemnedIsFreed == \A s \in Segments : state[s] = "AwaitingRelease" ~> state[s] = "Free"

\* A drain that won its claim ends: the writers and removers it waits for leave.
DrainEnds == \A s \in Segments : state[s] = "Draining" ~> state[s] # "Draining"

\* A freed segment comes back to a queue, or is reserved again.
FreeIsReturned ==
  \A s \in Segments : state[s] = "Free" ~> Queued(s) \/ state[s] = "Reserved"
=============================================================================
