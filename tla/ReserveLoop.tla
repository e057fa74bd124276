----------------------------- MODULE ReserveLoop -----------------------------
(***************************************************************************)
(* The loop of reserve_and_define around AdmissionPool's steps: what an    *)
(* insert does when its bucket's tail is full and no segment is free.  It  *)
(* evicts, compares the count of freed segments with the one it read       *)
(* before, waits for the evictions of other threads, and spends one of its *)
(* retries only on a round in which nothing was freed.                     *)
(*                                                                         *)
(* The code compares totals: freed_count, evicts_started, evicts_finished. *)
(* Here changed[t] says whether freed_count has moved since t read it, and *)
(* owed[t] is how many more calls must finish before evicts_finished       *)
(* reaches the evicts_started that t read.  One bucket, whose tail is Live *)
(* and whose other segments are Sealed.                                    *)
(***************************************************************************)
EXTENDS AdmissionPool

CONSTANT RESERVE_RETRIES

ASSUME RetriesAssumption == RESERVE_RETRIES \in Nat \ {0}

VARIABLES
  tail, room,   \* the bucket's Live tail, and whether the next item fits
  round,        \* per thread: where in the loop it is
  retries,      \* per thread: rounds it may still spend
  changed,      \* per thread: a segment was freed since freed_before was read
  owed          \* per thread: evictions yet to finish before its wait is over

loop == <<round, retries, changed, owed>>
loopvars == <<vars, tail, room, loop>>

\* round[t] is "none" outside of the loop. "first" is the eviction of an insert
\* whose pool is full, "try" a reserve, "failed" one that found nothing, "pass" a
\* round's eviction, "passed" its end and "await" the wait that may follow.

LoopInit ==
  /\ Init
  /\ tail = NoSegment /\ room = FALSE
  /\ round = [t \in Threads |-> "none"]
  /\ retries = [t \in Threads |-> RESERVE_RETRIES]
  /\ changed = [t \in Threads |-> FALSE]
  /\ owed = [t \in Threads |-> 0]

\* The calls of evict that have started and not finished.
Evicting == {t \in Threads : round[t] \in {"first", "pass"}}

\* push_freed: whoever has read freed_count sees it move.
Freed == changed' = [t \in Threads |-> changed[t] \/ round[t] \in {"pass", "passed", "await"}]

Enter(t, r) == round' = [round EXCEPT ![t] = r]

-----------------------------------------------------------------------------
RouteInsert(t, p) ==
  /\ Route(t, p)
  /\ Enter(t, IF pool_has_room(p) THEN "try" ELSE "first")
  /\ UNCHANGED <<tail, room, retries, changed, owed>>

\* The tail takes the item; it may be the last that fits.
ReserveInTail(t) ==
  /\ round[t] = "try" /\ room
  /\ Reserve(t, tail)
  /\ room' \in BOOLEAN
  /\ Enter(t, "none")
  /\ retries' = [retries EXCEPT ![t] = RESERVE_RETRIES]
  /\ UNCHANGED <<tail, changed, owed>>

\* try_expand: a free segment becomes the tail.
ExpandTail(t, s) ==
  /\ round[t] = "try" /\ ~room
  /\ Expand(s)
  /\ tail' = s /\ room' = TRUE
  /\ UNCHANGED loop

\* The tail is full and the free queue empty, ...
NoFreeSegments(t) ==
  /\ round[t] = "try" /\ ~room /\ pc[t] = "reserve"
  /\ \A s \in Segments : service[s] # "Free"
  /\ Enter(t, "failed")
  /\ UNCHANGED <<vars, tail, room, retries, changed, owed>>

\* ... then freed_before is read and the round's eviction starts.
StartPass(t) ==
  /\ round[t] = "failed"
  /\ Go(t, "evict")
  /\ Enter(t, "pass")
  /\ UNCHANGED <<pool, admission_count, service, tail, room, retries, changed, owed>>

\* A policy claims a Sealed segment; expire, which every eviction runs first, and
\* clear claim the tail as well.
ClaimSegment(t, s) ==
  /\ Claim(t, s)
  /\ tail' = IF s = tail THEN NoSegment ELSE tail
  /\ room' = (room /\ s # tail)
  /\ UNCHANGED loop

\* The waits of those who wait, when one more eviction has finished.
OneLess == [t \in Threads |-> IF round[t] = "await" /\ owed[t] > 0 THEN owed[t] - 1 ELSE owed[t]]

\* Slip: an eviction that made no progress returns without being counted.
FinishUncounted(t) == IF changed[t] THEN OneLess ELSE owed

\* The drop of EvictFinished, on every path.
Finished(t) == OneLess

\* evict returns, to the first reserve or to the end of a round.
EvictReturns(t) ==
  /\ EvictDone(t)
  /\ \/ round[t] = "none" /\ UNCHANGED <<round, owed>>   \* expire, clear
     \/ round[t] = "first" /\ Enter(t, "try") /\ owed' = Finished(t)
     \/ round[t] = "pass" /\ Enter(t, "passed") /\ owed' = Finished(t)
  /\ UNCHANGED <<tail, room, retries, changed>>

\* The round's thread tries again if a segment was freed, else it reads how many
\* evictions have started and waits for as many to finish.
PassOver(t) ==
  /\ round[t] = "passed"
  /\ IF changed[t]
     THEN /\ Enter(t, "try")
          /\ changed' = [changed EXCEPT ![t] = FALSE]
          /\ UNCHANGED owed
     ELSE /\ Enter(t, "await")
          /\ owed' = [owed EXCEPT ![t] = Cardinality(Evicting)]
          /\ UNCHANGED changed
  /\ UNCHANGED <<vars, tail, room, retries>>

\* wait_for_running_evictions answers true.
WaitFreed(t) ==
  /\ round[t] = "await" /\ changed[t]
  /\ Enter(t, "try")
  /\ changed' = [changed EXCEPT ![t] = FALSE]
  /\ owed' = [owed EXCEPT ![t] = 0]
  /\ UNCHANGED <<vars, tail, room, retries>>

\* Slip: the round is not charged.
WaitOverUncharged(t) ==
  /\ round[t] = "await" /\ ~changed[t] /\ owed[t] = 0
  /\ Enter(t, "try")
  /\ UNCHANGED <<vars, retries, tail, room, changed, owed>>

\* It answers false: a retry is spent, and with the last one the insert fails.
WaitOver(t) ==
  /\ round[t] = "await" /\ ~changed[t] /\ owed[t] = 0
  /\ IF retries[t] > 1
     THEN /\ Enter(t, "try")
          /\ retries' = [retries EXCEPT ![t] = @ - 1]
          /\ UNCHANGED vars
     ELSE /\ Enter(t, "none")
          /\ retries' = [retries EXCEPT ![t] = RESERVE_RETRIES]
          /\ ReserveFailed(t) /\ Finish(t)
  /\ UNCHANGED <<tail, room, changed, owed>>

\* recycle, condemn, or the last reader of a condemned segment.
LeaveService(t) ==
  /\ Leave(t)
  /\ IF service'[seg[t]] = "Free" THEN Freed ELSE UNCHANGED changed
  /\ UNCHANGED <<tail, room, round, retries, owed>>

ReadersGone(s) ==
  /\ CondemnedFreed(s)
  /\ Freed
  /\ UNCHANGED <<tail, room, round, retries, owed>>

\* A promotion or merge under way takes a free segment for its copies.
TakeDest(t, s) ==
  /\ pc[t] = "leave" /\ LinkDest(s)
  /\ UNCHANGED <<tail, room, loop>>

-----------------------------------------------------------------------------
\* The steps a call goes on with once it has begun.
Work(t) ==
  \/ ReserveInTail(t) \/ NoFreeSegments(t) \/ StartPass(t) \/ EvictReturns(t)
  \/ PassOver(t) \/ WaitFreed(t) \/ WaitOver(t) \/ LeaveService(t)
  \/ \E s \in Segments : ExpandTail(t, s) \/ ClaimSegment(t, s)
  \/ /\ Label(t) \/ Count(t) \/ Unpin(t) \/ WaitWriters(t) \/ ReadLabel(t) \/ Uncount(t)
        \/ ResetPool(t)
     /\ UNCHANGED <<tail, room, loop>>

LoopNext ==
  \/ \E t \in Threads :
       \/ Work(t)
       \/ \E p \in Pools : RouteInsert(t, p)
       \/ BeginDrain(t) /\ UNCHANGED <<tail, room, loop>>
       \/ \E s \in Segments : TakeDest(t, s)
  \/ \E s \in Segments : ReadersGone(s)

\* A call that has begun is scheduled again and again.
LoopSpec == LoopInit /\ [][LoopNext]_loopvars /\ \A t \in Threads : WF_loopvars(Work(t))

-----------------------------------------------------------------------------
\* A thread waits for no more evictions than are running, whichever of them
\* finish first: none can be missed and none is waited for twice
\* (wait_for_running_evictions, EvictFinished on every path).
WaitCovered == \A t \in Threads : owed[t] <= Cardinality(Evicting \ {t})

\* An insert that needs room gets it or an error: its loop ends, unless segments
\* are freed for ever ("The number of passes is not bounded while other threads
\* keep freeing segments").
ReserveEnds ==
  \/ \A t \in Threads : round[t] # "none" ~> round[t] = "none"
  \/ []<><<\E s \in Segments : service[s] # "Free" /\ service'[s] = "Free">>_loopvars
=============================================================================
