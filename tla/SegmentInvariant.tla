-------------------------- MODULE SegmentInvariant --------------------------
(***************************************************************************)
(* The inductive invariant behind the safety of SegmentLifecycle: what a   *)
(* thread's step says of the segment it works on.                          *)
(***************************************************************************)
EXTENDS SegmentLifecycle

\* Threads whose increment of a counter is outstanding.
RefPcs  == {"acq_recheck", "backout", "acq_tag", "reading", "mismatch"}
WPinPcs == {"w_recheck", "w_backout", "w_alloc", "w_define", "w_release"}
RPinPcs == {"rm_recheck", "rm_backout", "rm_remove"}
Holders(P, s) == {t \in Threads : pc[t] \in P /\ seg[t] = s}

\* Each header counter is the number of threads that will decrement it.
CountersExact ==
  \A s \in Segments :
    /\ ref_count[s] = Cardinality(Holders(RefPcs, s))
    /\ active_writers[s] = Cardinality(Holders(WPinPcs, s))
    /\ active_removers[s] = Cardinality(Holders(RPinPcs, s))

\* The state a segment is in while a thread owns it.
FreePcs == {"try_reserve", "rel_bump", "rel_reset"} \cup ReturnPcs
OwnedState ==
  \A t \in Threads :
    /\ pc[t] \in FreePcs => state[seg[t]] = "Free"
    /\ pc[t] \in {"spare_dec", "reserved", "link"} => state[seg[t]] = "Reserved"
    /\ pc[t] = "publish" => state[seg[t]] = "Linking"
    /\ pc[t] = "fill" => state[seg[t]] = "Relinking"
    /\ pc[t] \in DrainPcs => state[seg[t]] = "Draining"

\* One place for each segment: a queue or an owner.
OnePlace ==
  \A s \in Segments :
    /\ free_queue[s] + spare_queue[s] <= 1
    /\ Queued(s) => state[s] = "Free"
    /\ \A t, u \in Threads : Owns(t, s) => ~Queued(s) /\ (Owns(u, s) => t = u)

\* And always one, outside the chains.
OffChain == {"Free", "Reserved", "Linking", "Relinking", "Draining"}
Accounted ==
  \A s \in Segments : state[s] \in OffChain => Queued(s) \/ \E t \in Threads : Owns(t, s)

\* Where the write statistics are known to be zero.
ResetDone ==
  /\ \A s \in Segments : Queued(s) => write_offset[s] = 0
  /\ \A t \in Threads :
       \/ pc[t] \in {"release_drained", "reserved", "link", "spare_dec", "try_reserve"} \cup ReturnPcs
       \/ pc[t] = "rel_bump" /\ route[t] = "recycle"
       => write_offset[seg[t]] = 0
  /\ \A t \in Threads : pc[t] \in {"rel_load", "rel_cas"} => route[t] # "recycle"

\* The generation is one behind the drains from the claim to the bump.
GenerationLag ==
  /\ \A s \in Segments :
       /\ state[s] \in {"Draining", "AwaitingRelease"} => uses[s] = generation[s] + 1
       /\ state[s] \in {"Reserved", "Linking", "Live", "Sealed", "Relinking"} \/ Queued(s)
            => uses[s] = generation[s]
  /\ \A t \in Threads :
       /\ pc[t] = "rel_bump" => uses[seg[t]] = generation[seg[t]] + 1
       /\ pc[t] \in FreePcs \ {"rel_bump"} => uses[seg[t]] = generation[seg[t]]

\* A confirmed writer or remover, and the drain that waits for it.
PinnedWriterPcs == {"w_alloc", "w_define", "w_release"}
WritersGonePcs  == DrainPcs \ {"wait_writers"}
RemoversGonePcs == WritersGonePcs \ {"wait_removers"}
DrainWaits ==
  /\ \A t \in Threads :
       /\ pc[t] \in PinnedWriterPcs => state[seg[t]] \in {"Live", "Sealed", "Draining"}
       /\ pc[t] = "w_define" => seen[t] = generation[seg[t]]
  /\ \A t, u \in Threads :
       /\ pc[t] \in WritersGonePcs /\ pc[u] \in PinnedWriterPcs => seg[t] # seg[u]
       /\ pc[t] \in RemoversGonePcs /\ pc[u] = "rm_remove" => seg[t] # seg[u]

\* A condemned segment has someone left to free it.
Handoff ==
  \A s \in Segments : state[s] = "AwaitingRelease" =>
    \/ ref_count[s] > 0
    \/ \E t \in Threads : /\ seg[t] = s
                          /\ \/ pc[t] \in {"cond_recheck", "rel_load"}
                             \/ pc[t] = "rel_cas" /\ token[t] = tag[s]

\* Ids on the spare queue, on their way to it, and taken from it.
InSpare   == {s \in Segments : spare_queue[s] > 0}
ToSpare   == {t \in Threads : pc[t] = "push_spare"}
FromSpare == {t \in Threads : pc[t] \in {"try_reserve", "spare_dec"} /\ route[t] = "spare"}
SpareAccount ==
  /\ IsFiniteSet(InSpare)
  /\ spare_count = Cardinality(InSpare) + Cardinality(ToSpare) + Cardinality(FromSpare)
  /\ \A t \in Threads : pc[t] = "spare_dec" => route[t] = "spare"

IInv == /\ TypeOK /\ CountersExact /\ OwnedState /\ OnePlace /\ Accounted /\ ResetDone
        /\ GenerationLag /\ DrainWaits /\ Handoff /\ SpareAccount

\* The part about readers, inductive as long as NoDelayedRelease holds.
TokenFresh ==
  /\ \A s \in Segments : state[s] = "AwaitingRelease" => tag[s] = generation[s] % TagMod
  /\ \A t \in Threads : pc[t] = "rel_cas" =>
       /\ token[t] = seen[t] % TagMod
       /\ seen[t] <= generation[seg[t]]
       /\ generation[seg[t]] - seen[t] < TagMod
       /\ seen[t] = generation[seg[t]] =>
            /\ state[seg[t]] \in {"AwaitingRelease", "Free"}
            /\ uses[seg[t]] = generation[seg[t]] + 1

PinHolds ==
  \A t, u \in Threads :
    /\ Pinned(u, seg[u]) => state[seg[u]] \in Readable \cup {"Draining", "AwaitingRelease"}
    /\ pc[u] = "reading" => seen[u] = generation[seg[u]]
    /\ pc[t] \in {"recycle", "release_drained"} => ~Pinned(u, seg[t])
    /\ pc[t] = "rel_cas" /\ state[seg[t]] = "AwaitingRelease" /\ seen[t] = generation[seg[t]]
         => ~Pinned(u, seg[t])

PinInv == IInv /\ TokenFresh /\ PinHolds
=============================================================================
