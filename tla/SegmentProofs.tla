---------------------------- MODULE SegmentProofs ----------------------------
EXTENDS SegmentInvariant, FiniteSetTheorems, TLAPS


-----------------------------------------------------------------------------
(* What one step of a thread t can do.                                     *)

\* It leaves the local state of the other threads alone.
OthersKeep(t) ==
  \A u \in Threads \ {t} :
    /\ pc'[u] = pc[u] /\ seg'[u] = seg[u] /\ route'[u] = route[u]
    /\ token'[u] = token[u] /\ seen'[u] = seen[u]

\* It moves a counter of threads at the steps P together with its own step.
At(P, t, s) == pc[t] \in P /\ seg[t] = s
CounterMoves(old, new, P, t) ==
  \A s \in Segments :
    \/ new[s] = old[s] /\ (At(P, t, s)' <=> At(P, t, s))
    \/ new[s] = old[s] + 1 /\ At(P, t, s)' /\ ~At(P, t, s)
    \/ new[s] = old[s] - 1 /\ At(P, t, s) /\ ~At(P, t, s)'
CountersMove(t) ==
  /\ CounterMoves(ref_count, ref_count', RefPcs, t)
  /\ CounterMoves(active_writers, active_writers', WPinPcs, t)
  /\ CounterMoves(active_removers, active_removers', RPinPcs, t)

\* It takes a segment off its place only to put it in another, or in a chain.
PlaceKept(t, s) ==
  state'[s] \in OffChain =>
    \/ Queued(s)'
    \/ Owns(t, s)'
    \/ state[s] \in OffChain /\ ~Queued(s) /\ ~Owns(t, s)

\* It gives up a condemned segment only when another claimant is left.
Claims(t, s) ==
  /\ seg[t] = s
  /\ \/ pc[t] \in {"cond_recheck", "rel_load"}
     \/ pc[t] = "rel_cas" /\ token[t] = tag[s]
HandoffKept(t, s) ==
  state'[s] = "AwaitingRelease" =>
    \/ ref_count'[s] > 0
    \/ Claims(t, s)'
    \/ state[s] = "AwaitingRelease" /\ tag'[s] = tag[s] /\ ref_count[s] <= 0 /\ ~Claims(t, s)

\* It moves spare_count together with the ids the spare queue, the pushes and
\* the steals account for.
PushesSpare(t) == pc[t] = "push_spare"
TakesSpare(t)  == pc[t] \in {"try_reserve", "spare_dec"} /\ route[t] = "spare"
SpareMoves(t) ==
  \/ /\ InSpare' = InSpare /\ spare_count' = spare_count
     /\ PushesSpare(t)' <=> PushesSpare(t)
     /\ TakesSpare(t)' <=> TakesSpare(t)
  \/ /\ InSpare' = InSpare /\ spare_count' = spare_count + 1 /\ spare_count < SpareCapacity
     /\ PushesSpare(t)' /\ ~PushesSpare(t)
     /\ TakesSpare(t)' <=> TakesSpare(t)
  \/ /\ InSpare' = InSpare /\ spare_count' = spare_count - 1
     /\ PushesSpare(t)' <=> PushesSpare(t)
     /\ TakesSpare(t) /\ ~TakesSpare(t)'
  \/ /\ spare_count' = spare_count
     /\ seg[t] \notin InSpare /\ InSpare' = InSpare \cup {seg[t]}
     /\ PushesSpare(t) /\ ~PushesSpare(t)'
     /\ TakesSpare(t)' <=> TakesSpare(t)
  \/ /\ spare_count' = spare_count
     /\ seg'[t] \in InSpare /\ InSpare' = InSpare \ {seg'[t]}
     /\ PushesSpare(t)' <=> PushesSpare(t)
     /\ TakesSpare(t)' /\ ~TakesSpare(t)
RouteKept(t) == pc'[t] = "spare_dec" => route'[t] = "spare"

\* It keeps every variable's type, but for the counters' lower bounds, which
\* rest on the conjuncts that count.
HeaderTyped ==
  /\ state \in [Segments -> States]
  /\ tag \in [Segments -> Nat]
  /\ generation \in [Segments -> Nat]
  /\ write_offset \in [Segments -> 0..SegmentSize]
  /\ uses \in [Segments -> Nat]
PinsTyped ==
  /\ ref_count \in [Segments -> Int]
  /\ active_writers \in [Segments -> Int]
  /\ active_removers \in [Segments -> Int]
QueuesTyped ==
  /\ free_queue \in [Segments -> Nat]
  /\ spare_queue \in [Segments -> Nat]
LocalTyped ==
  /\ pc \in [Threads -> Pcs]
  /\ seg \in [Threads -> Segments \cup {NoSegment}]
  /\ \A t \in Threads : pc[t] # "idle" => seg[t] \in Segments
  /\ route \in [Threads -> Routes]
  /\ token \in [Threads -> Nat]
  /\ seen \in [Threads -> Nat]

\* A thread that owns a segment finds it in the state it left it in.
LEMMA OwnedStateStep ==
  ASSUME TypeOK, OwnedState, OnePlace,
         NEW t \in Threads, Begin(t) \/ Step(t) \/ Choice(t)
  PROVE  OwnedState'
<1>0. /\ state \in [Segments -> States]
      /\ pc \in [Threads -> Pcs]
      /\ seg \in [Threads -> Segments \cup {NoSegment}]
      /\ \A u \in Threads : pc[u] # "idle" => seg[u] \in Segments
      /\ free_queue \in [Segments -> Nat]
      /\ spare_queue \in [Segments -> Nat]
  BY DEF TypeOK
<1> USE <1>0, NoSegmentIsNone DEF OwnedState, OnePlace, Queued,
        Owns, OwnerPcs, FreePcs, ReservePcs, DrainPcs, ReturnPcs
<1>1. ASSUME NEW s \in Segments, NEW g \in 0..generation[s], AcquireCheck(t, s, g)
       PROVE  OwnedState'
  BY <1>1 DEF AcquireCheck, Start, header, pins, queues
<1>2. ASSUME NEW s \in Segments, PinWriterCheck(t, s)
       PROVE  OwnedState'
  BY <1>2 DEF PinWriterCheck, Start, header, pins, queues
<1>3. ASSUME NEW s \in Segments, PinRemoverCheck(t, s)
       PROVE  OwnedState'
  BY <1>3 DEF PinRemoverCheck, Start, header, pins, queues
<1>4. ASSUME NEW s \in Segments, ClaimForDrain(t, s)
       PROVE  OwnedState'
  BY <1>4 DEF ClaimForDrain, Start, pins, queues
<1>5. ASSUME NEW s \in Segments, NEW r \in {"expand", "dest"}, StealFree(t, s, r)
       PROVE  OwnedState'
  BY <1>5 DEF StealFree, Start, header, pins
<1>6. ASSUME NEW s \in Segments, StealSpare(t, s)
       PROVE  OwnedState'
  BY <1>6 DEF StealSpare, Start, header, pins
<1>7. CASE AcquireIncrement(t)
  BY <1>7 DEF AcquireIncrement, Go, header, queues
<1>8. CASE AcquireRecheck(t)
  BY <1>8 DEF AcquireRecheck, Go, header, pins, queues
<1>9. CASE TagCheck(t)
  BY <1>9 DEF TagCheck, Go, GoSee, header, pins, queues
<1>10. CASE AcquireBackout(t)
  <2>1. CASE ref_count[seg[t]] = 1
    BY <1>10, <2>1 DEF AcquireBackout, ReleaseReader, GoVia, header, queues
  <2>2. CASE ref_count[seg[t]] # 1
    <3>1. pc[t] = "backout" /\ Finish(t) /\ UNCHANGED <<header, queues, uses>>
      BY <1>10, <2>2 DEF AcquireBackout, ReleaseReader
    <3>2. QED BY <3>1 DEF Finish, header, queues
  <2>3. QED BY <2>1, <2>2
<1>11. CASE GuardDrop(t)
  <2>1. CASE ref_count[seg[t]] = 1
    BY <1>11, <2>1 DEF GuardDrop, ReleaseReader, GoVia, header, queues
  <2>2. CASE ref_count[seg[t]] # 1
    <3>1. pc[t] \in {"reading", "mismatch"} /\ Finish(t) /\ UNCHANGED <<header, queues, uses>>
      BY <1>11, <2>2 DEF GuardDrop, ReleaseReader
    <3>2. QED BY <3>1 DEF Finish, header, queues
  <2>3. QED BY <2>1, <2>2
<1>12. CASE ReleaseLoad(t)
  BY <1>12 DEF ReleaseLoad, Finish, header, pins, queues
<1>13. CASE ReleaseCas(t)
  <2>1. CASE state[seg[t]] = "AwaitingRelease" /\ tag[seg[t]] = token[t]
    BY <1>13, <2>1 DEF ReleaseCas, Go, queues
  <2>2. CASE ~(state[seg[t]] = "AwaitingRelease" /\ tag[seg[t]] = token[t])
    BY <1>13, <2>2 DEF ReleaseCas, Finish, header, queues
  <2>3. QED BY <2>1, <2>2
<1>14. CASE BumpGeneration(t)
  BY <1>14 DEF BumpGeneration, Go, pins, queues
<1>15. CASE ResetWriteStats(t)
  BY <1>15 DEF ResetWriteStats, Go, pins, queues
<1>16. CASE ReturnSegment(t)
  BY <1>16 DEF ReturnSegment, Go, header, pins
<1>17. CASE PushFreed(t)
  BY <1>17 DEF PushFreed, Finish, header, pins
<1>18. CASE PushSpare(t)
  BY <1>18 DEF PushSpare, Finish, header, pins
<1>19. CASE PinWriterIncrement(t)
  BY <1>19 DEF PinWriterIncrement, Go, header, queues
<1>20. CASE PinWriterRecheck(t)
  BY <1>20 DEF PinWriterRecheck, Go, header, pins, queues
<1>21. CASE AllocItem(t)
  BY <1>21 DEF AllocItem, Go, GoSee, pins, queues
<1>22. CASE DefineAndPublish(t)
  BY <1>22 DEF DefineAndPublish, Go, header, pins, queues
<1>23. CASE ReleaseWriter(t)
  BY <1>23 DEF ReleaseWriter, Finish, header, queues
<1>24. CASE PinRemoverIncrement(t)
  BY <1>24 DEF PinRemoverIncrement, Go, header, queues
<1>25. CASE PinRemoverRecheck(t)
  BY <1>25 DEF PinRemoverRecheck, Go, header, pins, queues
<1>26. CASE ReleaseRemover(t)
  BY <1>26 DEF ReleaseRemover, Finish, header, queues
<1>27. CASE WaitWriters(t)
  BY <1>27 DEF WaitWriters, Go, header, pins, queues
<1>28. CASE WaitRemovers(t)
  BY <1>28 DEF WaitRemovers, Go, header, pins, queues
<1>29. CASE ClearSegment(t)
  BY <1>29 DEF ClearSegment, Go, pins, queues
<1>30. CASE CheckRefs(t)
  BY <1>30 DEF CheckRefs, Go, GoVia, header, pins, queues
<1>31. CASE RecycleReset(t)
  BY <1>31 DEF RecycleReset, Go, pins, queues
<1>32. CASE ReleaseDrained(t)
  BY <1>32 DEF ReleaseDrained, Go, SetState, pins, queues
<1>33. CASE Condemn(t)
  BY <1>33 DEF Condemn, Go, SetState, pins, queues
<1>34. CASE CondemnRecheck(t)
  BY <1>34 DEF CondemnRecheck, GoVia, Finish, header, pins, queues
<1>35. CASE TryReserve(t)
  BY <1>35 DEF TryReserve, Go, Finish, header, pins
<1>36. CASE SpareTaken(t)
  BY <1>36 DEF SpareTaken, GoVia, header, pins
<1>37. CASE LinkSegment(t)
  BY <1>37 DEF LinkSegment, Go, SetState, pins, queues
<1>38. CASE PublishTail(t)
  BY <1>38 DEF PublishTail, Finish, SetState, pins, queues
<1>39. CASE PublishDest(t)
  BY <1>39 DEF PublishDest, Go, SetState, pins, queues
<1>40. CASE PublishDestSealed(t)
  BY <1>40 DEF PublishDestSealed, Finish, SetState, pins, queues
<1>41. CASE ReleaseUnused(t)
  BY <1>41 DEF ReleaseUnused, Go, SetState, pins, queues
<1>42. ASSUME NEW tail \in Segments, SealTail(t, tail)
       PROVE  OwnedState'
  BY <1>42 DEF SealTail, Go, SetState, pins, queues
<1>43. CASE CopyIntoDest(t)
  BY <1>43 DEF CopyIntoDest, pins, queues, local
<1> HIDE <1>0 DEF OwnedState, OnePlace, Queued,
        Owns, OwnerPcs, FreePcs, ReservePcs, DrainPcs, ReturnPcs
<1>44. QED
  BY <1>1, <1>2, <1>3, <1>4, <1>5, <1>6, <1>7, <1>8, <1>9, <1>10, <1>11,
     <1>12, <1>13, <1>14, <1>15, <1>16, <1>17, <1>18, <1>19, <1>20, <1>21,
     <1>22, <1>23, <1>24, <1>25, <1>26, <1>27, <1>28, <1>29, <1>30, <1>31,
     <1>32, <1>33, <1>34, <1>35, <1>36, <1>37, <1>38, <1>39, <1>40, <1>41,
     <1>42, <1>43
     DEF Begin, Step, Choice, ReaderStep, ReleaseStep, ReturnStep,
         WriterStep, RemoverStep, DrainStep, ReserveStep

\* No step queues a segment twice or gives it a second owner.
LEMMA OnePlaceStep ==
  ASSUME TypeOK, OwnedState, OnePlace,
         NEW t \in Threads, Begin(t) \/ Step(t) \/ Choice(t)
  PROVE  OnePlace'
<1>0. /\ state \in [Segments -> States]
      /\ pc \in [Threads -> Pcs]
      /\ seg \in [Threads -> Segments \cup {NoSegment}]
      /\ \A u \in Threads : pc[u] # "idle" => seg[u] \in Segments
      /\ free_queue \in [Segments -> Nat]
      /\ spare_queue \in [Segments -> Nat]
  BY DEF TypeOK
<1> USE <1>0, NoSegmentIsNone DEF OwnedState, OnePlace, Queued,
        Owns, OwnerPcs, FreePcs, ReservePcs, DrainPcs, ReturnPcs
<1>1. ASSUME NEW s \in Segments, NEW g \in 0..generation[s], AcquireCheck(t, s, g)
       PROVE  OnePlace'
  BY <1>1 DEF AcquireCheck, Start, header, pins, queues
<1>2. ASSUME NEW s \in Segments, PinWriterCheck(t, s)
       PROVE  OnePlace'
  BY <1>2 DEF PinWriterCheck, Start, header, pins, queues
<1>3. ASSUME NEW s \in Segments, PinRemoverCheck(t, s)
       PROVE  OnePlace'
  BY <1>3 DEF PinRemoverCheck, Start, header, pins, queues
<1>4. ASSUME NEW s \in Segments, ClaimForDrain(t, s)
       PROVE  OnePlace'
  BY <1>4 DEF ClaimForDrain, Start, pins, queues
<1>5. ASSUME NEW s \in Segments, NEW r \in {"expand", "dest"}, StealFree(t, s, r)
       PROVE  OnePlace'
  BY <1>5 DEF StealFree, Start, header, pins
<1>6. ASSUME NEW s \in Segments, StealSpare(t, s)
       PROVE  OnePlace'
  BY <1>6 DEF StealSpare, Start, header, pins
<1>7. CASE AcquireIncrement(t)
  BY <1>7 DEF AcquireIncrement, Go, header, queues
<1>8. CASE AcquireRecheck(t)
  BY <1>8 DEF AcquireRecheck, Go, header, pins, queues
<1>9. CASE TagCheck(t)
  BY <1>9 DEF TagCheck, Go, GoSee, header, pins, queues
<1>10. CASE AcquireBackout(t)
  <2>1. CASE ref_count[seg[t]] = 1
    BY <1>10, <2>1 DEF AcquireBackout, ReleaseReader, GoVia, header, queues
  <2>2. CASE ref_count[seg[t]] # 1
    <3>1. pc[t] = "backout" /\ Finish(t) /\ UNCHANGED <<header, queues, uses>>
      BY <1>10, <2>2 DEF AcquireBackout, ReleaseReader
    <3>2. QED BY <3>1 DEF Finish, header, queues
  <2>3. QED BY <2>1, <2>2
<1>11. CASE GuardDrop(t)
  <2>1. CASE ref_count[seg[t]] = 1
    BY <1>11, <2>1 DEF GuardDrop, ReleaseReader, GoVia, header, queues
  <2>2. CASE ref_count[seg[t]] # 1
    <3>1. pc[t] \in {"reading", "mismatch"} /\ Finish(t) /\ UNCHANGED <<header, queues, uses>>
      BY <1>11, <2>2 DEF GuardDrop, ReleaseReader
    <3>2. QED BY <3>1 DEF Finish, header, queues
  <2>3. QED BY <2>1, <2>2
<1>12. CASE ReleaseLoad(t)
  BY <1>12 DEF ReleaseLoad, Finish, header, pins, queues
<1>13. CASE ReleaseCas(t)
  <2>1. CASE state[seg[t]] = "AwaitingRelease" /\ tag[seg[t]] = token[t]
    BY <1>13, <2>1 DEF ReleaseCas, Go, queues
  <2>2. CASE ~(state[seg[t]] = "AwaitingRelease" /\ tag[seg[t]] = token[t])
    BY <1>13, <2>2 DEF ReleaseCas, Finish, header, queues
  <2>3. QED BY <2>1, <2>2
<1>14. CASE BumpGeneration(t)
  BY <1>14 DEF BumpGeneration, Go, pins, queues
<1>15. CASE ResetWriteStats(t)
  BY <1>15 DEF ResetWriteStats, Go, pins, queues
<1>16. CASE ReturnSegment(t)
  BY <1>16 DEF ReturnSegment, Go, header, pins
<1>17. CASE PushFreed(t)
  BY <1>17 DEF PushFreed, Finish, header, pins
<1>18. CASE PushSpare(t)
  BY <1>18 DEF PushSpare, Finish, header, pins
<1>19. CASE PinWriterIncrement(t)
  BY <1>19 DEF PinWriterIncrement, Go, header, queues
<1>20. CASE PinWriterRecheck(t)
  BY <1>20 DEF PinWriterRecheck, Go, header, pins, queues
<1>21. CASE AllocItem(t)
  BY <1>21 DEF AllocItem, Go, GoSee, pins, queues
<1>22. CASE DefineAndPublish(t)
  BY <1>22 DEF DefineAndPublish, Go, header, pins, queues
<1>23. CASE ReleaseWriter(t)
  BY <1>23 DEF ReleaseWriter, Finish, header, queues
<1>24. CASE PinRemoverIncrement(t)
  BY <1>24 DEF PinRemoverIncrement, Go, header, queues
<1>25. CASE PinRemoverRecheck(t)
  BY <1>25 DEF PinRemoverRecheck, Go, header, pins, queues
<1>26. CASE ReleaseRemover(t)
  BY <1>26 DEF ReleaseRemover, Finish, header, queues
<1>27. CASE WaitWriters(t)
  BY <1>27 DEF WaitWriters, Go, header, pins, queues
<1>28. CASE WaitRemovers(t)
  BY <1>28 DEF WaitRemovers, Go, header, pins, queues
<1>29. CASE ClearSegment(t)
  BY <1>29 DEF ClearSegment, Go, pins, queues
<1>30. CASE CheckRefs(t)
  BY <1>30 DEF CheckRefs, Go, GoVia, header, pins, queues
<1>31. CASE RecycleReset(t)
  BY <1>31 DEF RecycleReset, Go, pins, queues
<1>32. CASE ReleaseDrained(t)
  BY <1>32 DEF ReleaseDrained, Go, SetState, pins, queues
<1>33. CASE Condemn(t)
  BY <1>33 DEF Condemn, Go, SetState, pins, queues
<1>34. CASE CondemnRecheck(t)
  BY <1>34 DEF CondemnRecheck, GoVia, Finish, header, pins, queues
<1>35. CASE TryReserve(t)
  BY <1>35 DEF TryReserve, Go, Finish, header, pins
<1>36. CASE SpareTaken(t)
  BY <1>36 DEF SpareTaken, GoVia, header, pins
<1>37. CASE LinkSegment(t)
  BY <1>37 DEF LinkSegment, Go, SetState, pins, queues
<1>38. CASE PublishTail(t)
  BY <1>38 DEF PublishTail, Finish, SetState, pins, queues
<1>39. CASE PublishDest(t)
  BY <1>39 DEF PublishDest, Go, SetState, pins, queues
<1>40. CASE PublishDestSealed(t)
  BY <1>40 DEF PublishDestSealed, Finish, SetState, pins, queues
<1>41. CASE ReleaseUnused(t)
  BY <1>41 DEF ReleaseUnused, Go, SetState, pins, queues
<1>42. ASSUME NEW tail \in Segments, SealTail(t, tail)
       PROVE  OnePlace'
  BY <1>42 DEF SealTail, Go, SetState, pins, queues
<1>43. CASE CopyIntoDest(t)
  BY <1>43 DEF CopyIntoDest, pins, queues, local
<1> HIDE <1>0 DEF OwnedState, OnePlace, Queued,
        Owns, OwnerPcs, FreePcs, ReservePcs, DrainPcs, ReturnPcs
<1>44. QED
  BY <1>1, <1>2, <1>3, <1>4, <1>5, <1>6, <1>7, <1>8, <1>9, <1>10, <1>11,
     <1>12, <1>13, <1>14, <1>15, <1>16, <1>17, <1>18, <1>19, <1>20, <1>21,
     <1>22, <1>23, <1>24, <1>25, <1>26, <1>27, <1>28, <1>29, <1>30, <1>31,
     <1>32, <1>33, <1>34, <1>35, <1>36, <1>37, <1>38, <1>39, <1>40, <1>41,
     <1>42, <1>43
     DEF Begin, Step, Choice, ReaderStep, ReleaseStep, ReturnStep,
         WriterStep, RemoverStep, DrainStep, ReserveStep

\* Whoever queues or reserves a segment has reset its statistics.
LEMMA ResetDoneStep ==
  ASSUME TypeOK, OwnedState, OnePlace, DrainWaits, ResetDone,
         NEW t \in Threads, Begin(t) \/ Step(t) \/ Choice(t)
  PROVE  ResetDone'
<1>0. /\ state \in [Segments -> States]
      /\ pc \in [Threads -> Pcs]
      /\ seg \in [Threads -> Segments \cup {NoSegment}]
      /\ \A u \in Threads : pc[u] # "idle" => seg[u] \in Segments
      /\ free_queue \in [Segments -> Nat]
      /\ spare_queue \in [Segments -> Nat]
      /\ DOMAIN write_offset = Segments
      /\ route \in [Threads -> Routes]
  BY DEF TypeOK
<1> USE <1>0, NoSegmentIsNone DEF OwnedState, OnePlace, ResetDone, Queued,
        Owns, OwnerPcs, FreePcs, ReservePcs, DrainPcs, ReturnPcs
<1>1. ASSUME NEW s \in Segments, NEW g \in 0..generation[s], AcquireCheck(t, s, g)
       PROVE  ResetDone'
  BY <1>1 DEF AcquireCheck, Start, header, pins, queues
<1>2. ASSUME NEW s \in Segments, PinWriterCheck(t, s)
       PROVE  ResetDone'
  BY <1>2 DEF PinWriterCheck, Start, header, pins, queues
<1>3. ASSUME NEW s \in Segments, PinRemoverCheck(t, s)
       PROVE  ResetDone'
  BY <1>3 DEF PinRemoverCheck, Start, header, pins, queues
<1>4. ASSUME NEW s \in Segments, ClaimForDrain(t, s)
       PROVE  ResetDone'
  BY <1>4 DEF ClaimForDrain, Start, pins, queues
<1>5. ASSUME NEW s \in Segments, NEW r \in {"expand", "dest"}, StealFree(t, s, r)
       PROVE  ResetDone'
  BY <1>5 DEF StealFree, Start, header, pins
<1>6. ASSUME NEW s \in Segments, StealSpare(t, s)
       PROVE  ResetDone'
  BY <1>6 DEF StealSpare, Start, header, pins
<1>7. CASE AcquireIncrement(t)
  BY <1>7 DEF AcquireIncrement, Go, header, queues
<1>8. CASE AcquireRecheck(t)
  BY <1>8 DEF AcquireRecheck, Go, header, pins, queues
<1>9. CASE TagCheck(t)
  BY <1>9 DEF TagCheck, Go, GoSee, header, pins, queues
<1>10. CASE AcquireBackout(t)
  <2>1. CASE ref_count[seg[t]] = 1
    BY <1>10, <2>1 DEF AcquireBackout, ReleaseReader, GoVia, header, queues
  <2>2. CASE ref_count[seg[t]] # 1
    <3>1. pc[t] = "backout" /\ Finish(t) /\ UNCHANGED <<header, queues, uses>>
      BY <1>10, <2>2 DEF AcquireBackout, ReleaseReader
    <3>2. QED BY <3>1 DEF Finish, header, queues
  <2>3. QED BY <2>1, <2>2
<1>11. CASE GuardDrop(t)
  <2>1. CASE ref_count[seg[t]] = 1
    BY <1>11, <2>1 DEF GuardDrop, ReleaseReader, GoVia, header, queues
  <2>2. CASE ref_count[seg[t]] # 1
    <3>1. pc[t] \in {"reading", "mismatch"} /\ Finish(t) /\ UNCHANGED <<header, queues, uses>>
      BY <1>11, <2>2 DEF GuardDrop, ReleaseReader
    <3>2. QED BY <3>1 DEF Finish, header, queues
  <2>3. QED BY <2>1, <2>2
<1>12. CASE ReleaseLoad(t)
  BY <1>12 DEF ReleaseLoad, Finish, header, pins, queues
<1>13. CASE ReleaseCas(t)
  <2>1. CASE state[seg[t]] = "AwaitingRelease" /\ tag[seg[t]] = token[t]
    BY <1>13, <2>1 DEF ReleaseCas, Go, queues
  <2>2. CASE ~(state[seg[t]] = "AwaitingRelease" /\ tag[seg[t]] = token[t])
    <3>1. pc[t] = "rel_cas" /\ Finish(t) /\ UNCHANGED <<header, pins, queues, uses>>
      BY <1>13, <2>2 DEF ReleaseCas
    <3>2. QED BY <2>2, <3>1 DEF Finish, header, queues
  <2>3. QED BY <2>1, <2>2
<1>14. CASE BumpGeneration(t)
  BY <1>14 DEF BumpGeneration, Go, pins, queues
<1>15. CASE ResetWriteStats(t)
  BY <1>15 DEF ResetWriteStats, Go, pins, queues
<1>16. CASE ReturnSegment(t)
  BY <1>16 DEF ReturnSegment, Go, header, pins
<1>17. CASE PushFreed(t)
  BY <1>17 DEF PushFreed, Finish, header, pins
<1>18. CASE PushSpare(t)
  BY <1>18 DEF PushSpare, Finish, header, pins
<1>19. CASE PinWriterIncrement(t)
  BY <1>19 DEF PinWriterIncrement, Go, header, queues
<1>20. CASE PinWriterRecheck(t)
  BY <1>20 DEF PinWriterRecheck, Go, header, pins, queues
<1>21. CASE AllocItem(t)
  <2>1. CASE write_offset[seg[t]] + 1 <= SegmentSize
    BY <1>21, <2>1 DEF AllocItem, GoSee, queues, DrainWaits, PinnedWriterPcs, WritersGonePcs
  <2>2. CASE ~(write_offset[seg[t]] + 1 <= SegmentSize)
    BY <1>21, <2>2 DEF AllocItem, Go, queues
  <2>3. QED BY <2>1, <2>2
<1>22. CASE DefineAndPublish(t)
  BY <1>22 DEF DefineAndPublish, Go, header, pins, queues
<1>23. CASE ReleaseWriter(t)
  BY <1>23 DEF ReleaseWriter, Finish, header, queues
<1>24. CASE PinRemoverIncrement(t)
  BY <1>24 DEF PinRemoverIncrement, Go, header, queues
<1>25. CASE PinRemoverRecheck(t)
  BY <1>25 DEF PinRemoverRecheck, Go, header, pins, queues
<1>26. CASE ReleaseRemover(t)
  BY <1>26 DEF ReleaseRemover, Finish, header, queues
<1>27. CASE WaitWriters(t)
  BY <1>27 DEF WaitWriters, Go, header, pins, queues
<1>28. CASE WaitRemovers(t)
  BY <1>28 DEF WaitRemovers, Go, header, pins, queues
<1>29. CASE ClearSegment(t)
  BY <1>29 DEF ClearSegment, Go, pins, queues
<1>30. CASE CheckRefs(t)
  BY <1>30 DEF CheckRefs, Go, GoVia, header, pins, queues
<1>31. CASE RecycleReset(t)
  BY <1>31 DEF RecycleReset, Go, pins, queues
<1>32. CASE ReleaseDrained(t)
  BY <1>32 DEF ReleaseDrained, Go, SetState, pins, queues
<1>33. CASE Condemn(t)
  BY <1>33 DEF Condemn, Go, SetState, pins, queues
<1>34. CASE CondemnRecheck(t)
  <2>1. CASE ref_count[seg[t]] = 0
    BY <1>34, <2>1 DEF CondemnRecheck, GoVia, header, queues
  <2>2. CASE ~(ref_count[seg[t]] = 0)
    BY <1>34, <2>2 DEF CondemnRecheck, Finish, header, queues
  <2>3. QED BY <2>1, <2>2
<1>35. CASE TryReserve(t)
  <2>1. state[seg[t]] = "Free"
    BY <1>35 DEF TryReserve
  <2>2. QED BY <1>35, <2>1 DEF TryReserve, Go
<1>36. CASE SpareTaken(t)
  BY <1>36 DEF SpareTaken, GoVia, header, pins
<1>37. CASE LinkSegment(t)
  BY <1>37 DEF LinkSegment, Go, SetState, pins, queues
<1>38. CASE PublishTail(t)
  BY <1>38 DEF PublishTail, Finish, SetState, pins, queues
<1>39. CASE PublishDest(t)
  BY <1>39 DEF PublishDest, Go, SetState, pins, queues
<1>40. CASE PublishDestSealed(t)
  BY <1>40 DEF PublishDestSealed, Finish, SetState, pins, queues
<1>41. CASE ReleaseUnused(t)
  BY <1>41 DEF ReleaseUnused, Go, SetState, pins, queues
<1>42. ASSUME NEW tail \in Segments, SealTail(t, tail)
       PROVE  ResetDone'
  BY <1>42 DEF SealTail, Go, SetState, pins, queues
<1>43. CASE CopyIntoDest(t)
  BY <1>43 DEF CopyIntoDest, pins, queues, local
<1> HIDE <1>0 DEF OwnedState, OnePlace, ResetDone, Queued,
        Owns, OwnerPcs, FreePcs, ReservePcs, DrainPcs, ReturnPcs
<1>44. QED
  BY <1>1, <1>2, <1>3, <1>4, <1>5, <1>6, <1>7, <1>8, <1>9, <1>10, <1>11,
     <1>12, <1>13, <1>14, <1>15, <1>16, <1>17, <1>18, <1>19, <1>20, <1>21,
     <1>22, <1>23, <1>24, <1>25, <1>26, <1>27, <1>28, <1>29, <1>30, <1>31,
     <1>32, <1>33, <1>34, <1>35, <1>36, <1>37, <1>38, <1>39, <1>40, <1>41,
     <1>42, <1>43
     DEF Begin, Step, Choice, ReaderStep, ReleaseStep, ReturnStep,
         WriterStep, RemoverStep, DrainStep, ReserveStep

\* The generation is bumped once for each claim, before the segment is queued.
LEMMA GenerationLagStep ==
  ASSUME TypeOK, OwnedState, OnePlace, GenerationLag,
         NEW t \in Threads, Begin(t) \/ Step(t) \/ Choice(t)
  PROVE  GenerationLag'
<1>0. /\ state \in [Segments -> States]
      /\ pc \in [Threads -> Pcs]
      /\ seg \in [Threads -> Segments \cup {NoSegment}]
      /\ \A u \in Threads : pc[u] # "idle" => seg[u] \in Segments
      /\ free_queue \in [Segments -> Nat]
      /\ spare_queue \in [Segments -> Nat]
      /\ generation \in [Segments -> Nat]
      /\ uses \in [Segments -> Nat]
  BY DEF TypeOK
<1> USE <1>0, NoSegmentIsNone DEF OwnedState, OnePlace, GenerationLag, Queued,
        Owns, OwnerPcs, FreePcs, ReservePcs, DrainPcs, ReturnPcs
<1>1. ASSUME NEW s \in Segments, NEW g \in 0..generation[s], AcquireCheck(t, s, g)
       PROVE  GenerationLag'
  BY <1>1 DEF AcquireCheck, Start, header, pins, queues
<1>2. ASSUME NEW s \in Segments, PinWriterCheck(t, s)
       PROVE  GenerationLag'
  BY <1>2 DEF PinWriterCheck, Start, header, pins, queues
<1>3. ASSUME NEW s \in Segments, PinRemoverCheck(t, s)
       PROVE  GenerationLag'
  BY <1>3 DEF PinRemoverCheck, Start, header, pins, queues
<1>4. ASSUME NEW s \in Segments, ClaimForDrain(t, s)
       PROVE  GenerationLag'
  BY <1>4 DEF ClaimForDrain, Start, pins, queues
<1>5. ASSUME NEW s \in Segments, NEW r \in {"expand", "dest"}, StealFree(t, s, r)
       PROVE  GenerationLag'
  BY <1>5 DEF StealFree, Start, header, pins
<1>6. ASSUME NEW s \in Segments, StealSpare(t, s)
       PROVE  GenerationLag'
  BY <1>6 DEF StealSpare, Start, header, pins
<1>7. CASE AcquireIncrement(t)
  BY <1>7 DEF AcquireIncrement, Go, header, queues
<1>8. CASE AcquireRecheck(t)
  BY <1>8 DEF AcquireRecheck, Go, header, pins, queues
<1>9. CASE TagCheck(t)
  BY <1>9 DEF TagCheck, Go, GoSee, header, pins, queues
<1>10. CASE AcquireBackout(t)
  <2>1. CASE ref_count[seg[t]] = 1
    BY <1>10, <2>1 DEF AcquireBackout, ReleaseReader, GoVia, header, queues
  <2>2. CASE ref_count[seg[t]] # 1
    <3>1. pc[t] = "backout" /\ Finish(t) /\ UNCHANGED <<header, queues, uses>>
      BY <1>10, <2>2 DEF AcquireBackout, ReleaseReader
    <3>2. QED BY <3>1 DEF Finish, header, queues
  <2>3. QED BY <2>1, <2>2
<1>11. CASE GuardDrop(t)
  <2>1. CASE ref_count[seg[t]] = 1
    BY <1>11, <2>1 DEF GuardDrop, ReleaseReader, GoVia, header, queues
  <2>2. CASE ref_count[seg[t]] # 1
    <3>1. pc[t] \in {"reading", "mismatch"} /\ Finish(t) /\ UNCHANGED <<header, queues, uses>>
      BY <1>11, <2>2 DEF GuardDrop, ReleaseReader
    <3>2. QED BY <3>1 DEF Finish, header, queues
  <2>3. QED BY <2>1, <2>2
<1>12. CASE ReleaseLoad(t)
  BY <1>12 DEF ReleaseLoad, Finish, header, pins, queues
<1>13. CASE ReleaseCas(t)
  <2>1. CASE state[seg[t]] = "AwaitingRelease" /\ tag[seg[t]] = token[t]
    BY <1>13, <2>1 DEF ReleaseCas, Go, queues
  <2>2. CASE ~(state[seg[t]] = "AwaitingRelease" /\ tag[seg[t]] = token[t])
    BY <1>13, <2>2 DEF ReleaseCas, Finish, header, queues
  <2>3. QED BY <2>1, <2>2
<1>14. CASE BumpGeneration(t)
  BY <1>14 DEF BumpGeneration, Go, pins, queues
<1>15. CASE ResetWriteStats(t)
  BY <1>15 DEF ResetWriteStats, Go, pins, queues
<1>16. CASE ReturnSegment(t)
  BY <1>16 DEF ReturnSegment, Go, header, pins
<1>17. CASE PushFreed(t)
  BY <1>17 DEF PushFreed, Finish, header, pins
<1>18. CASE PushSpare(t)
  BY <1>18 DEF PushSpare, Finish, header, pins
<1>19. CASE PinWriterIncrement(t)
  BY <1>19 DEF PinWriterIncrement, Go, header, queues
<1>20. CASE PinWriterRecheck(t)
  BY <1>20 DEF PinWriterRecheck, Go, header, pins, queues
<1>21. CASE AllocItem(t)
  BY <1>21 DEF AllocItem, Go, GoSee, pins, queues
<1>22. CASE DefineAndPublish(t)
  BY <1>22 DEF DefineAndPublish, Go, header, pins, queues
<1>23. CASE ReleaseWriter(t)
  BY <1>23 DEF ReleaseWriter, Finish, header, queues
<1>24. CASE PinRemoverIncrement(t)
  BY <1>24 DEF PinRemoverIncrement, Go, header, queues
<1>25. CASE PinRemoverRecheck(t)
  BY <1>25 DEF PinRemoverRecheck, Go, header, pins, queues
<1>26. CASE ReleaseRemover(t)
  BY <1>26 DEF ReleaseRemover, Finish, header, queues
<1>27. CASE WaitWriters(t)
  BY <1>27 DEF WaitWriters, Go, header, pins, queues
<1>28. CASE WaitRemovers(t)
  BY <1>28 DEF WaitRemovers, Go, header, pins, queues
<1>29. CASE ClearSegment(t)
  BY <1>29 DEF ClearSegment, Go, pins, queues
<1>30. CASE CheckRefs(t)
  BY <1>30 DEF CheckRefs, Go, GoVia, header, pins, queues
<1>31. CASE RecycleReset(t)
  BY <1>31 DEF RecycleReset, Go, pins, queues
<1>32. CASE ReleaseDrained(t)
  BY <1>32 DEF ReleaseDrained, Go, SetState, pins, queues
<1>33. CASE Condemn(t)
  BY <1>33 DEF Condemn, Go, SetState, pins, queues
<1>34. CASE CondemnRecheck(t)
  BY <1>34 DEF CondemnRecheck, GoVia, Finish, header, pins, queues
<1>35. CASE TryReserve(t)
  BY <1>35 DEF TryReserve, Go, Finish, header, pins
<1>36. CASE SpareTaken(t)
  BY <1>36 DEF SpareTaken, GoVia, header, pins
<1>37. CASE LinkSegment(t)
  BY <1>37 DEF LinkSegment, Go, SetState, pins, queues
<1>38. CASE PublishTail(t)
  BY <1>38 DEF PublishTail, Finish, SetState, pins, queues
<1>39. CASE PublishDest(t)
  BY <1>39 DEF PublishDest, Go, SetState, pins, queues
<1>40. CASE PublishDestSealed(t)
  BY <1>40 DEF PublishDestSealed, Finish, SetState, pins, queues
<1>41. CASE ReleaseUnused(t)
  BY <1>41 DEF ReleaseUnused, Go, SetState, pins, queues
<1>42. ASSUME NEW tail \in Segments, SealTail(t, tail)
       PROVE  GenerationLag'
  BY <1>42 DEF SealTail, Go, SetState, pins, queues
<1>43. CASE CopyIntoDest(t)
  BY <1>43 DEF CopyIntoDest, pins, queues, local
<1> HIDE <1>0 DEF OwnedState, OnePlace, GenerationLag, Queued,
        Owns, OwnerPcs, FreePcs, ReservePcs, DrainPcs, ReturnPcs
<1>44. QED
  BY <1>1, <1>2, <1>3, <1>4, <1>5, <1>6, <1>7, <1>8, <1>9, <1>10, <1>11,
     <1>12, <1>13, <1>14, <1>15, <1>16, <1>17, <1>18, <1>19, <1>20, <1>21,
     <1>22, <1>23, <1>24, <1>25, <1>26, <1>27, <1>28, <1>29, <1>30, <1>31,
     <1>32, <1>33, <1>34, <1>35, <1>36, <1>37, <1>38, <1>39, <1>40, <1>41,
     <1>42, <1>43
     DEF Begin, Step, Choice, ReaderStep, ReleaseStep, ReturnStep,
         WriterStep, RemoverStep, DrainStep, ReserveStep

\* A step of a thread leaves the local state of the others alone.
LEMMA OthersKeepStep ==
  ASSUME TypeOK,
         NEW t \in Threads, Begin(t) \/ Step(t) \/ Choice(t)
  PROVE  OthersKeep(t)
<1>0. /\ pc \in [Threads -> Pcs]
      /\ seg \in [Threads -> Segments \cup {NoSegment}]
      /\ \A u \in Threads : pc[u] # "idle" => seg[u] \in Segments
      /\ route \in [Threads -> Routes]
      /\ token \in [Threads -> Nat]
      /\ seen \in [Threads -> Nat]
  BY DEF TypeOK
<1> USE <1>0, NoSegmentIsNone DEF OthersKeep
<1>1. ASSUME NEW s \in Segments, NEW g \in 0..generation[s], AcquireCheck(t, s, g)
       PROVE  OthersKeep(t)
  BY <1>1 DEF AcquireCheck, Start, header, pins, queues
<1>2. ASSUME NEW s \in Segments, PinWriterCheck(t, s)
       PROVE  OthersKeep(t)
  BY <1>2 DEF PinWriterCheck, Start, header, pins, queues
<1>3. ASSUME NEW s \in Segments, PinRemoverCheck(t, s)
       PROVE  OthersKeep(t)
  BY <1>3 DEF PinRemoverCheck, Start, header, pins, queues
<1>4. ASSUME NEW s \in Segments, ClaimForDrain(t, s)
       PROVE  OthersKeep(t)
  BY <1>4 DEF ClaimForDrain, Start, pins, queues
<1>5. ASSUME NEW s \in Segments, NEW r \in {"expand", "dest"}, StealFree(t, s, r)
       PROVE  OthersKeep(t)
  BY <1>5 DEF StealFree, Start, header, pins
<1>6. ASSUME NEW s \in Segments, StealSpare(t, s)
       PROVE  OthersKeep(t)
  BY <1>6 DEF StealSpare, Start, header, pins
<1>7. CASE AcquireIncrement(t)
  BY <1>7 DEF AcquireIncrement, Go, header, queues
<1>8. CASE AcquireRecheck(t)
  BY <1>8 DEF AcquireRecheck, Go, header, pins, queues
<1>9. CASE TagCheck(t)
  BY <1>9 DEF TagCheck, Go, GoSee, header, pins, queues
<1>10. CASE AcquireBackout(t)
  BY <1>10 DEF AcquireBackout, ReleaseReader, GoVia, Finish, header, queues
<1>11. CASE GuardDrop(t)
  BY <1>11 DEF GuardDrop, ReleaseReader, GoVia, Finish, header, queues
<1>12. CASE ReleaseLoad(t)
  BY <1>12 DEF ReleaseLoad, Finish, header, pins, queues
<1>13. CASE ReleaseCas(t)
  BY <1>13 DEF ReleaseCas, Go, Finish, header, pins, queues
<1>14. CASE BumpGeneration(t)
  BY <1>14 DEF BumpGeneration, Go, pins, queues
<1>15. CASE ResetWriteStats(t)
  BY <1>15 DEF ResetWriteStats, Go, pins, queues
<1>16. CASE ReturnSegment(t)
  BY <1>16 DEF ReturnSegment, Go, header, pins
<1>17. CASE PushFreed(t)
  BY <1>17 DEF PushFreed, Finish, header, pins
<1>18. CASE PushSpare(t)
  BY <1>18 DEF PushSpare, Finish, header, pins
<1>19. CASE PinWriterIncrement(t)
  BY <1>19 DEF PinWriterIncrement, Go, header, queues
<1>20. CASE PinWriterRecheck(t)
  BY <1>20 DEF PinWriterRecheck, Go, header, pins, queues
<1>21. CASE AllocItem(t)
  BY <1>21 DEF AllocItem, Go, GoSee, pins, queues
<1>22. CASE DefineAndPublish(t)
  BY <1>22 DEF DefineAndPublish, Go, header, pins, queues
<1>23. CASE ReleaseWriter(t)
  BY <1>23 DEF ReleaseWriter, Finish, header, queues
<1>24. CASE PinRemoverIncrement(t)
  BY <1>24 DEF PinRemoverIncrement, Go, header, queues
<1>25. CASE PinRemoverRecheck(t)
  BY <1>25 DEF PinRemoverRecheck, Go, header, pins, queues
<1>26. CASE ReleaseRemover(t)
  BY <1>26 DEF ReleaseRemover, Finish, header, queues
<1>27. CASE WaitWriters(t)
  BY <1>27 DEF WaitWriters, Go, header, pins, queues
<1>28. CASE WaitRemovers(t)
  BY <1>28 DEF WaitRemovers, Go, header, pins, queues
<1>29. CASE ClearSegment(t)
  BY <1>29 DEF ClearSegment, Go, pins, queues
<1>30. CASE CheckRefs(t)
  BY <1>30 DEF CheckRefs, Go, GoVia, header, pins, queues
<1>31. CASE RecycleReset(t)
  BY <1>31 DEF RecycleReset, Go, pins, queues
<1>32. CASE ReleaseDrained(t)
  BY <1>32 DEF ReleaseDrained, Go, SetState, pins, queues
<1>33. CASE Condemn(t)
  BY <1>33 DEF Condemn, Go, SetState, pins, queues
<1>34. CASE CondemnRecheck(t)
  BY <1>34 DEF CondemnRecheck, GoVia, Finish, header, pins, queues
<1>35. CASE TryReserve(t)
  BY <1>35 DEF TryReserve, Go, Finish, header, pins
<1>36. CASE SpareTaken(t)
  BY <1>36 DEF SpareTaken, GoVia, header, pins
<1>37. CASE LinkSegment(t)
  BY <1>37 DEF LinkSegment, Go, SetState, pins, queues
<1>38. CASE PublishTail(t)
  BY <1>38 DEF PublishTail, Finish, SetState, pins, queues
<1>39. CASE PublishDest(t)
  BY <1>39 DEF PublishDest, Go, SetState, pins, queues
<1>40. CASE PublishDestSealed(t)
  BY <1>40 DEF PublishDestSealed, Finish, SetState, pins, queues
<1>41. CASE ReleaseUnused(t)
  BY <1>41 DEF ReleaseUnused, Go, SetState, pins, queues
<1>42. ASSUME NEW tail \in Segments, SealTail(t, tail)
       PROVE  OthersKeep(t)
  BY <1>42 DEF SealTail, Go, SetState, pins, queues
<1>43. CASE CopyIntoDest(t)
  BY <1>43 DEF CopyIntoDest, pins, queues, local
<1> HIDE <1>0 DEF OthersKeep
<1>44. QED
  BY <1>1, <1>2, <1>3, <1>4, <1>5, <1>6, <1>7, <1>8, <1>9, <1>10, <1>11,
     <1>12, <1>13, <1>14, <1>15, <1>16, <1>17, <1>18, <1>19, <1>20, <1>21,
     <1>22, <1>23, <1>24, <1>25, <1>26, <1>27, <1>28, <1>29, <1>30, <1>31,
     <1>32, <1>33, <1>34, <1>35, <1>36, <1>37, <1>38, <1>39, <1>40, <1>41,
     <1>42, <1>43
     DEF Begin, Step, Choice, ReaderStep, ReleaseStep, ReturnStep,
         WriterStep, RemoverStep, DrainStep, ReserveStep

\* A step moves the pin counters exactly when it takes or gives up a pin.
LEMMA CountersMoveStep ==
  ASSUME TypeOK,
         NEW t \in Threads, Begin(t) \/ Step(t) \/ Choice(t)
  PROVE  CountersMove(t)
<1>0. /\ pc \in [Threads -> Pcs]
      /\ seg \in [Threads -> Segments \cup {NoSegment}]
      /\ \A u \in Threads : pc[u] # "idle" => seg[u] \in Segments
      /\ ref_count \in [Segments -> Nat]
      /\ active_writers \in [Segments -> Nat]
      /\ active_removers \in [Segments -> Nat]
  BY DEF TypeOK
<1> USE <1>0, NoSegmentIsNone DEF CountersMove, CounterMoves, At, RefPcs, WPinPcs, RPinPcs
<1>1. ASSUME NEW s \in Segments, NEW g \in 0..generation[s], AcquireCheck(t, s, g)
       PROVE  CountersMove(t)
  BY <1>1 DEF AcquireCheck, Start, header, pins, queues
<1>2. ASSUME NEW s \in Segments, PinWriterCheck(t, s)
       PROVE  CountersMove(t)
  BY <1>2 DEF PinWriterCheck, Start, header, pins, queues
<1>3. ASSUME NEW s \in Segments, PinRemoverCheck(t, s)
       PROVE  CountersMove(t)
  BY <1>3 DEF PinRemoverCheck, Start, header, pins, queues
<1>4. ASSUME NEW s \in Segments, ClaimForDrain(t, s)
       PROVE  CountersMove(t)
  BY <1>4 DEF ClaimForDrain, Start, pins, queues
<1>5. ASSUME NEW s \in Segments, NEW r \in {"expand", "dest"}, StealFree(t, s, r)
       PROVE  CountersMove(t)
  BY <1>5 DEF StealFree, Start, header, pins
<1>6. ASSUME NEW s \in Segments, StealSpare(t, s)
       PROVE  CountersMove(t)
  BY <1>6 DEF StealSpare, Start, header, pins
<1>7. CASE AcquireIncrement(t)
  BY <1>7 DEF AcquireIncrement, Go, header, queues
<1>8. CASE AcquireRecheck(t)
  BY <1>8 DEF AcquireRecheck, Go, header, pins, queues
<1>9. CASE TagCheck(t)
  BY <1>9 DEF TagCheck, Go, GoSee, header, pins, queues
<1>10. CASE AcquireBackout(t)
  <2>1. CASE ref_count[seg[t]] = 1
    BY <1>10, <2>1 DEF AcquireBackout, ReleaseReader, GoVia
  <2>2. CASE ~(ref_count[seg[t]] = 1)
    BY <1>10, <2>2 DEF AcquireBackout, ReleaseReader, Finish
  <2>3. QED BY <2>1, <2>2
<1>11. CASE GuardDrop(t)
  <2>1. CASE ref_count[seg[t]] = 1
    BY <1>11, <2>1 DEF GuardDrop, ReleaseReader, GoVia
  <2>2. CASE ~(ref_count[seg[t]] = 1)
    BY <1>11, <2>2 DEF GuardDrop, ReleaseReader, Finish
  <2>3. QED BY <2>1, <2>2
<1>12. CASE ReleaseLoad(t)
  BY <1>12 DEF ReleaseLoad, Finish, header, pins, queues
<1>13. CASE ReleaseCas(t)
  <2>1. CASE state[seg[t]] = "AwaitingRelease" /\ tag[seg[t]] = token[t]
    BY <1>13, <2>1 DEF ReleaseCas, Go, pins
  <2>2. CASE ~(state[seg[t]] = "AwaitingRelease" /\ tag[seg[t]] = token[t])
    <3>1. pc[t] = "rel_cas" /\ Finish(t) /\ UNCHANGED <<header, pins, queues, uses>>
      BY <1>13, <2>2 DEF ReleaseCas
    <3>2. QED BY <2>2, <3>1 DEF Finish, pins
  <2>3. QED BY <2>1, <2>2
<1>14. CASE BumpGeneration(t)
  BY <1>14 DEF BumpGeneration, Go, pins, queues
<1>15. CASE ResetWriteStats(t)
  BY <1>15 DEF ResetWriteStats, Go, pins, queues
<1>16. CASE ReturnSegment(t)
  BY <1>16 DEF ReturnSegment, Go, header, pins
<1>17. CASE PushFreed(t)
  BY <1>17 DEF PushFreed, Finish, header, pins
<1>18. CASE PushSpare(t)
  BY <1>18 DEF PushSpare, Finish, header, pins
<1>19. CASE PinWriterIncrement(t)
  BY <1>19 DEF PinWriterIncrement, Go, header, queues
<1>20. CASE PinWriterRecheck(t)
  BY <1>20 DEF PinWriterRecheck, Go, header, pins, queues
<1>21. CASE AllocItem(t)
  BY <1>21 DEF AllocItem, Go, GoSee, pins, queues
<1>22. CASE DefineAndPublish(t)
  BY <1>22 DEF DefineAndPublish, Go, header, pins, queues
<1>23. CASE ReleaseWriter(t)
  BY <1>23 DEF ReleaseWriter, Finish, header, queues
<1>24. CASE PinRemoverIncrement(t)
  BY <1>24 DEF PinRemoverIncrement, Go, header, queues
<1>25. CASE PinRemoverRecheck(t)
  BY <1>25 DEF PinRemoverRecheck, Go, header, pins, queues
<1>26. CASE ReleaseRemover(t)
  BY <1>26 DEF ReleaseRemover, Finish, header, queues
<1>27. CASE WaitWriters(t)
  BY <1>27 DEF WaitWriters, Go, header, pins, queues
<1>28. CASE WaitRemovers(t)
  BY <1>28 DEF WaitRemovers, Go, header, pins, queues
<1>29. CASE ClearSegment(t)
  BY <1>29 DEF ClearSegment, Go, pins, queues
<1>30. CASE CheckRefs(t)
  BY <1>30 DEF CheckRefs, Go, GoVia, header, pins, queues
<1>31. CASE RecycleReset(t)
  BY <1>31 DEF RecycleReset, Go, pins, queues
<1>32. CASE ReleaseDrained(t)
  BY <1>32 DEF ReleaseDrained, Go, SetState, pins, queues
<1>33. CASE Condemn(t)
  BY <1>33 DEF Condemn, Go, SetState, pins, queues
<1>34. CASE CondemnRecheck(t)
  BY <1>34 DEF CondemnRecheck, GoVia, Finish, header, pins, queues
<1>35. CASE TryReserve(t)
  BY <1>35 DEF TryReserve, Go, Finish, header, pins
<1>36. CASE SpareTaken(t)
  BY <1>36 DEF SpareTaken, GoVia, header, pins
<1>37. CASE LinkSegment(t)
  BY <1>37 DEF LinkSegment, Go, SetState, pins, queues
<1>38. CASE PublishTail(t)
  BY <1>38 DEF PublishTail, Finish, SetState, pins, queues
<1>39. CASE PublishDest(t)
  BY <1>39 DEF PublishDest, Go, SetState, pins, queues
<1>40. CASE PublishDestSealed(t)
  BY <1>40 DEF PublishDestSealed, Finish, SetState, pins, queues
<1>41. CASE ReleaseUnused(t)
  BY <1>41 DEF ReleaseUnused, Go, SetState, pins, queues
<1>42. ASSUME NEW tail \in Segments, SealTail(t, tail)
       PROVE  CountersMove(t)
  BY <1>42 DEF SealTail, Go, SetState, pins, queues
<1>43. CASE CopyIntoDest(t)
  BY <1>43 DEF CopyIntoDest, pins, queues, local
<1> HIDE <1>0 DEF CountersMove, CounterMoves, At, RefPcs, WPinPcs, RPinPcs
<1>44. QED
  BY <1>1, <1>2, <1>3, <1>4, <1>5, <1>6, <1>7, <1>8, <1>9, <1>10, <1>11,
     <1>12, <1>13, <1>14, <1>15, <1>16, <1>17, <1>18, <1>19, <1>20, <1>21,
     <1>22, <1>23, <1>24, <1>25, <1>26, <1>27, <1>28, <1>29, <1>30, <1>31,
     <1>32, <1>33, <1>34, <1>35, <1>36, <1>37, <1>38, <1>39, <1>40, <1>41,
     <1>42, <1>43
     DEF Begin, Step, Choice, ReaderStep, ReleaseStep, ReturnStep,
         WriterStep, RemoverStep, DrainStep, ReserveStep

\* A step never drops a segment on the floor.
LEMMA PlaceKeptStep ==
  ASSUME TypeOK, OwnedState,
         NEW t \in Threads, Begin(t) \/ Step(t) \/ Choice(t)
  PROVE  \A x \in Segments : PlaceKept(t, x)
<1>0. /\ state \in [Segments -> States]
      /\ pc \in [Threads -> Pcs]
      /\ seg \in [Threads -> Segments \cup {NoSegment}]
      /\ \A u \in Threads : pc[u] # "idle" => seg[u] \in Segments
      /\ free_queue \in [Segments -> Nat]
      /\ spare_queue \in [Segments -> Nat]
  BY DEF TypeOK
<1> USE <1>0, NoSegmentIsNone DEF PlaceKept, OffChain, OwnedState, Queued,
        Owns, OwnerPcs, FreePcs, ReservePcs, DrainPcs, ReturnPcs
<1>1. ASSUME NEW s \in Segments, NEW g \in 0..generation[s], AcquireCheck(t, s, g)
       PROVE  \A x \in Segments : PlaceKept(t, x)
  BY <1>1 DEF AcquireCheck, Start, header, pins, queues
<1>2. ASSUME NEW s \in Segments, PinWriterCheck(t, s)
       PROVE  \A x \in Segments : PlaceKept(t, x)
  BY <1>2 DEF PinWriterCheck, Start, header, pins, queues
<1>3. ASSUME NEW s \in Segments, PinRemoverCheck(t, s)
       PROVE  \A x \in Segments : PlaceKept(t, x)
  BY <1>3 DEF PinRemoverCheck, Start, header, pins, queues
<1>4. ASSUME NEW s \in Segments, ClaimForDrain(t, s)
       PROVE  \A x \in Segments : PlaceKept(t, x)
  BY <1>4 DEF ClaimForDrain, Start, pins, queues
<1>5. ASSUME NEW s \in Segments, NEW r \in {"expand", "dest"}, StealFree(t, s, r)
       PROVE  \A x \in Segments : PlaceKept(t, x)
  BY <1>5 DEF StealFree, Start, header, pins
<1>6. ASSUME NEW s \in Segments, StealSpare(t, s)
       PROVE  \A x \in Segments : PlaceKept(t, x)
  BY <1>6 DEF StealSpare, Start, header, pins
<1>7. CASE AcquireIncrement(t)
  BY <1>7 DEF AcquireIncrement, Go, header, queues
<1>8. CASE AcquireRecheck(t)
  BY <1>8 DEF AcquireRecheck, Go, header, pins, queues
<1>9. CASE TagCheck(t)
  BY <1>9 DEF TagCheck, Go, GoSee, header, pins, queues
<1>10. CASE AcquireBackout(t)
  <2>1. CASE ref_count[seg[t]] = 1
    BY <1>10, <2>1 DEF AcquireBackout, ReleaseReader, GoVia, header, queues
  <2>2. CASE ref_count[seg[t]] # 1
    <3>1. pc[t] = "backout" /\ Finish(t) /\ UNCHANGED <<header, queues, uses>>
      BY <1>10, <2>2 DEF AcquireBackout, ReleaseReader
    <3>2. QED BY <3>1 DEF Finish, header, queues
  <2>3. QED BY <2>1, <2>2
<1>11. CASE GuardDrop(t)
  <2>1. CASE ref_count[seg[t]] = 1
    BY <1>11, <2>1 DEF GuardDrop, ReleaseReader, GoVia, header, queues
  <2>2. CASE ref_count[seg[t]] # 1
    <3>1. pc[t] \in {"reading", "mismatch"} /\ Finish(t) /\ UNCHANGED <<header, queues, uses>>
      BY <1>11, <2>2 DEF GuardDrop, ReleaseReader
    <3>2. QED BY <3>1 DEF Finish, header, queues
  <2>3. QED BY <2>1, <2>2
<1>12. CASE ReleaseLoad(t)
  BY <1>12 DEF ReleaseLoad, Finish, header, pins, queues
<1>13. CASE ReleaseCas(t)
  <2>1. CASE state[seg[t]] = "AwaitingRelease" /\ tag[seg[t]] = token[t]
    BY <1>13, <2>1 DEF ReleaseCas, Go, queues
  <2>2. CASE ~(state[seg[t]] = "AwaitingRelease" /\ tag[seg[t]] = token[t])
    BY <1>13, <2>2 DEF ReleaseCas, Finish, header, queues
  <2>3. QED BY <2>1, <2>2
<1>14. CASE BumpGeneration(t)
  BY <1>14 DEF BumpGeneration, Go, pins, queues
<1>15. CASE ResetWriteStats(t)
  BY <1>15 DEF ResetWriteStats, Go, pins, queues
<1>16. CASE ReturnSegment(t)
  BY <1>16 DEF ReturnSegment, Go, header, pins
<1>17. CASE PushFreed(t)
  BY <1>17 DEF PushFreed, Finish, header, pins
<1>18. CASE PushSpare(t)
  BY <1>18 DEF PushSpare, Finish, header, pins
<1>19. CASE PinWriterIncrement(t)
  BY <1>19 DEF PinWriterIncrement, Go, header, queues
<1>20. CASE PinWriterRecheck(t)
  BY <1>20 DEF PinWriterRecheck, Go, header, pins, queues
<1>21. CASE AllocItem(t)
  BY <1>21 DEF AllocItem, Go, GoSee, pins, queues
<1>22. CASE DefineAndPublish(t)
  BY <1>22 DEF DefineAndPublish, Go, header, pins, queues
<1>23. CASE ReleaseWriter(t)
  BY <1>23 DEF ReleaseWriter, Finish, header, queues
<1>24. CASE PinRemoverIncrement(t)
  BY <1>24 DEF PinRemoverIncrement, Go, header, queues
<1>25. CASE PinRemoverRecheck(t)
  BY <1>25 DEF PinRemoverRecheck, Go, header, pins, queues
<1>26. CASE ReleaseRemover(t)
  BY <1>26 DEF ReleaseRemover, Finish, header, queues
<1>27. CASE WaitWriters(t)
  BY <1>27 DEF WaitWriters, Go, header, pins, queues
<1>28. CASE WaitRemovers(t)
  BY <1>28 DEF WaitRemovers, Go, header, pins, queues
<1>29. CASE ClearSegment(t)
  BY <1>29 DEF ClearSegment, Go, pins, queues
<1>30. CASE CheckRefs(t)
  BY <1>30 DEF CheckRefs, Go, GoVia, header, pins, queues
<1>31. CASE RecycleReset(t)
  BY <1>31 DEF RecycleReset, Go, pins, queues
<1>32. CASE ReleaseDrained(t)
  BY <1>32 DEF ReleaseDrained, Go, SetState, pins, queues
<1>33. CASE Condemn(t)
  BY <1>33 DEF Condemn, Go, SetState, pins, queues
<1>34. CASE CondemnRecheck(t)
  BY <1>34 DEF CondemnRecheck, GoVia, Finish, header, pins, queues
<1>35. CASE TryReserve(t)
  BY <1>35 DEF TryReserve, Go, Finish, header, pins
<1>36. CASE SpareTaken(t)
  BY <1>36 DEF SpareTaken, GoVia, header, pins
<1>37. CASE LinkSegment(t)
  BY <1>37 DEF LinkSegment, Go, SetState, pins, queues
<1>38. CASE PublishTail(t)
  BY <1>38 DEF PublishTail, Finish, SetState, pins, queues
<1>39. CASE PublishDest(t)
  BY <1>39 DEF PublishDest, Go, SetState, pins, queues
<1>40. CASE PublishDestSealed(t)
  BY <1>40 DEF PublishDestSealed, Finish, SetState, pins, queues
<1>41. CASE ReleaseUnused(t)
  BY <1>41 DEF ReleaseUnused, Go, SetState, pins, queues
<1>42. ASSUME NEW tail \in Segments, SealTail(t, tail)
       PROVE  \A x \in Segments : PlaceKept(t, x)
  BY <1>42 DEF SealTail, Go, SetState, pins, queues
<1>43. CASE CopyIntoDest(t)
  BY <1>43 DEF CopyIntoDest, pins, queues, local
<1> HIDE <1>0 DEF PlaceKept, OffChain, OwnedState, Queued,
        Owns, OwnerPcs, FreePcs, ReservePcs, DrainPcs, ReturnPcs
<1>44. QED
  BY <1>1, <1>2, <1>3, <1>4, <1>5, <1>6, <1>7, <1>8, <1>9, <1>10, <1>11,
     <1>12, <1>13, <1>14, <1>15, <1>16, <1>17, <1>18, <1>19, <1>20, <1>21,
     <1>22, <1>23, <1>24, <1>25, <1>26, <1>27, <1>28, <1>29, <1>30, <1>31,
     <1>32, <1>33, <1>34, <1>35, <1>36, <1>37, <1>38, <1>39, <1>40, <1>41,
     <1>42, <1>43
     DEF Begin, Step, Choice, ReaderStep, ReleaseStep, ReturnStep,
         WriterStep, RemoverStep, DrainStep, ReserveStep

\* A step never gives up the last claim on a condemned segment.
LEMMA HandoffKeptStep ==
  ASSUME TypeOK,
         NEW t \in Threads, Begin(t) \/ Step(t) \/ Choice(t)
  PROVE  \A x \in Segments : HandoffKept(t, x)
<1>0. /\ state \in [Segments -> States]
      /\ pc \in [Threads -> Pcs]
      /\ seg \in [Threads -> Segments \cup {NoSegment}]
      /\ \A u \in Threads : pc[u] # "idle" => seg[u] \in Segments
      /\ ref_count \in [Segments -> Nat]
      /\ token \in [Threads -> Nat]
      /\ tag \in [Segments -> Nat]
  BY DEF TypeOK
<1> USE <1>0, NoSegmentIsNone DEF HandoffKept, Claims
<1>1. ASSUME NEW s \in Segments, NEW g \in 0..generation[s], AcquireCheck(t, s, g)
       PROVE  \A x \in Segments : HandoffKept(t, x)
  BY <1>1 DEF AcquireCheck, Start, header, pins, queues
<1>2. ASSUME NEW s \in Segments, PinWriterCheck(t, s)
       PROVE  \A x \in Segments : HandoffKept(t, x)
  BY <1>2 DEF PinWriterCheck, Start, header, pins, queues
<1>3. ASSUME NEW s \in Segments, PinRemoverCheck(t, s)
       PROVE  \A x \in Segments : HandoffKept(t, x)
  BY <1>3 DEF PinRemoverCheck, Start, header, pins, queues
<1>4. ASSUME NEW s \in Segments, ClaimForDrain(t, s)
       PROVE  \A x \in Segments : HandoffKept(t, x)
  BY <1>4 DEF ClaimForDrain, Start, pins, queues
<1>5. ASSUME NEW s \in Segments, NEW r \in {"expand", "dest"}, StealFree(t, s, r)
       PROVE  \A x \in Segments : HandoffKept(t, x)
  BY <1>5 DEF StealFree, Start, header, pins
<1>6. ASSUME NEW s \in Segments, StealSpare(t, s)
       PROVE  \A x \in Segments : HandoffKept(t, x)
  BY <1>6 DEF StealSpare, Start, header, pins
<1>7. CASE AcquireIncrement(t)
  BY <1>7 DEF AcquireIncrement, Go, header, queues
<1>8. CASE AcquireRecheck(t)
  BY <1>8 DEF AcquireRecheck, Go, header, pins, queues
<1>9. CASE TagCheck(t)
  BY <1>9 DEF TagCheck, Go, GoSee, header, pins, queues
<1>10. CASE AcquireBackout(t)
  <2>1. CASE ref_count[seg[t]] = 1
    BY <1>10, <2>1 DEF AcquireBackout, ReleaseReader, GoVia, header
  <2>2. CASE ~(ref_count[seg[t]] = 1)
    BY <1>10, <2>2 DEF AcquireBackout, ReleaseReader, Finish, header
  <2>3. QED BY <2>1, <2>2
<1>11. CASE GuardDrop(t)
  <2>1. CASE ref_count[seg[t]] = 1
    BY <1>11, <2>1 DEF GuardDrop, ReleaseReader, GoVia, header
  <2>2. CASE ~(ref_count[seg[t]] = 1)
    BY <1>11, <2>2 DEF GuardDrop, ReleaseReader, Finish, header
  <2>3. QED BY <2>1, <2>2
<1>12. CASE ReleaseLoad(t)
  BY <1>12 DEF ReleaseLoad, Finish, header, pins, queues
<1>13. CASE ReleaseCas(t)
  <2>1. CASE state[seg[t]] = "AwaitingRelease" /\ tag[seg[t]] = token[t]
    BY <1>13, <2>1 DEF ReleaseCas, Go, pins
  <2>2. CASE ~(state[seg[t]] = "AwaitingRelease" /\ tag[seg[t]] = token[t])
    <3>1. pc[t] = "rel_cas" /\ Finish(t) /\ UNCHANGED <<header, pins, queues, uses>>
      BY <1>13, <2>2 DEF ReleaseCas
    <3>2. QED BY <2>2, <3>1 DEF Finish, header, pins
  <2>3. QED BY <2>1, <2>2
<1>14. CASE BumpGeneration(t)
  BY <1>14 DEF BumpGeneration, Go, pins, queues
<1>15. CASE ResetWriteStats(t)
  BY <1>15 DEF ResetWriteStats, Go, pins, queues
<1>16. CASE ReturnSegment(t)
  BY <1>16 DEF ReturnSegment, Go, header, pins
<1>17. CASE PushFreed(t)
  BY <1>17 DEF PushFreed, Finish, header, pins
<1>18. CASE PushSpare(t)
  BY <1>18 DEF PushSpare, Finish, header, pins
<1>19. CASE PinWriterIncrement(t)
  BY <1>19 DEF PinWriterIncrement, Go, header, queues
<1>20. CASE PinWriterRecheck(t)
  BY <1>20 DEF PinWriterRecheck, Go, header, pins, queues
<1>21. CASE AllocItem(t)
  BY <1>21 DEF AllocItem, Go, GoSee, pins, queues
<1>22. CASE DefineAndPublish(t)
  BY <1>22 DEF DefineAndPublish, Go, header, pins, queues
<1>23. CASE ReleaseWriter(t)
  BY <1>23 DEF ReleaseWriter, Finish, header, queues
<1>24. CASE PinRemoverIncrement(t)
  BY <1>24 DEF PinRemoverIncrement, Go, header, queues
<1>25. CASE PinRemoverRecheck(t)
  BY <1>25 DEF PinRemoverRecheck, Go, header, pins, queues
<1>26. CASE ReleaseRemover(t)
  BY <1>26 DEF ReleaseRemover, Finish, header, queues
<1>27. CASE WaitWriters(t)
  BY <1>27 DEF WaitWriters, Go, header, pins, queues
<1>28. CASE WaitRemovers(t)
  BY <1>28 DEF WaitRemovers, Go, header, pins, queues
<1>29. CASE ClearSegment(t)
  BY <1>29 DEF ClearSegment, Go, pins, queues
<1>30. CASE CheckRefs(t)
  BY <1>30 DEF CheckRefs, Go, GoVia, header, pins, queues
<1>31. CASE RecycleReset(t)
  BY <1>31 DEF RecycleReset, Go, pins, queues
<1>32. CASE ReleaseDrained(t)
  BY <1>32 DEF ReleaseDrained, Go, SetState, pins, queues
<1>33. CASE Condemn(t)
  BY <1>33 DEF Condemn, Go, SetState, pins, queues
<1>34. CASE CondemnRecheck(t)
  BY <1>34 DEF CondemnRecheck, GoVia, Finish, header, pins, queues
<1>35. CASE TryReserve(t)
  BY <1>35 DEF TryReserve, Go, Finish, header, pins
<1>36. CASE SpareTaken(t)
  BY <1>36 DEF SpareTaken, GoVia, header, pins
<1>37. CASE LinkSegment(t)
  BY <1>37 DEF LinkSegment, Go, SetState, pins, queues
<1>38. CASE PublishTail(t)
  BY <1>38 DEF PublishTail, Finish, SetState, pins, queues
<1>39. CASE PublishDest(t)
  BY <1>39 DEF PublishDest, Go, SetState, pins, queues
<1>40. CASE PublishDestSealed(t)
  BY <1>40 DEF PublishDestSealed, Finish, SetState, pins, queues
<1>41. CASE ReleaseUnused(t)
  BY <1>41 DEF ReleaseUnused, Go, SetState, pins, queues
<1>42. ASSUME NEW tail \in Segments, SealTail(t, tail)
       PROVE  \A x \in Segments : HandoffKept(t, x)
  BY <1>42 DEF SealTail, Go, SetState, pins, queues
<1>43. CASE CopyIntoDest(t)
  BY <1>43 DEF CopyIntoDest, pins, queues, local
<1> HIDE <1>0 DEF HandoffKept, Claims
<1>44. QED
  BY <1>1, <1>2, <1>3, <1>4, <1>5, <1>6, <1>7, <1>8, <1>9, <1>10, <1>11,
     <1>12, <1>13, <1>14, <1>15, <1>16, <1>17, <1>18, <1>19, <1>20, <1>21,
     <1>22, <1>23, <1>24, <1>25, <1>26, <1>27, <1>28, <1>29, <1>30, <1>31,
     <1>32, <1>33, <1>34, <1>35, <1>36, <1>37, <1>38, <1>39, <1>40, <1>41,
     <1>42, <1>43
     DEF Begin, Step, Choice, ReaderStep, ReleaseStep, ReturnStep,
         WriterStep, RemoverStep, DrainStep, ReserveStep

\* A counter at zero has no holders.
LEMMA NoHolders ==
  ASSUME NEW P, NEW s, Cardinality(Holders(P, s)) = 0
  PROVE  Holders(P, s) = {}
<1>1. IsFiniteSet(Holders(P, s))
  BY FS_Subset, ThreadsFinite DEF Holders
<1>2. QED BY <1>1, FS_EmptySet

\* A drain passes its waits only when the pins it waits for are gone, and no
\* pin is confirmed behind its back.
LEMMA DrainWaitsStep ==
  ASSUME TypeOK, CountersExact, OwnedState, OnePlace, DrainWaits,
         NEW t \in Threads, Begin(t) \/ Step(t) \/ Choice(t)
  PROVE  DrainWaits'
<1>0. /\ state \in [Segments -> States]
      /\ pc \in [Threads -> Pcs]
      /\ seg \in [Threads -> Segments \cup {NoSegment}]
      /\ \A u \in Threads : pc[u] # "idle" => seg[u] \in Segments
      /\ generation \in [Segments -> Nat]
      /\ seen \in [Threads -> Nat]
  BY DEF TypeOK
<1> USE <1>0, NoSegmentIsNone DEF OwnedState, OnePlace, DrainWaits, PinnedWriterPcs,
        WritersGonePcs, RemoversGonePcs, Writable, Removable,
        Owns, OwnerPcs, FreePcs, ReservePcs, DrainPcs, ReturnPcs
<1>1. ASSUME NEW s \in Segments, NEW g \in 0..generation[s], AcquireCheck(t, s, g)
       PROVE  DrainWaits'
  BY <1>1 DEF AcquireCheck, Start, header, pins, queues
<1>2. ASSUME NEW s \in Segments, PinWriterCheck(t, s)
       PROVE  DrainWaits'
  BY <1>2 DEF PinWriterCheck, Start, header, pins, queues
<1>3. ASSUME NEW s \in Segments, PinRemoverCheck(t, s)
       PROVE  DrainWaits'
  BY <1>3 DEF PinRemoverCheck, Start, header, pins, queues
<1>4. ASSUME NEW s \in Segments, ClaimForDrain(t, s)
       PROVE  DrainWaits'
  BY <1>4 DEF ClaimForDrain, Start, pins, queues
<1>5. ASSUME NEW s \in Segments, NEW r \in {"expand", "dest"}, StealFree(t, s, r)
       PROVE  DrainWaits'
  BY <1>5 DEF StealFree, Start, header, pins
<1>6. ASSUME NEW s \in Segments, StealSpare(t, s)
       PROVE  DrainWaits'
  BY <1>6 DEF StealSpare, Start, header, pins
<1>7. CASE AcquireIncrement(t)
  BY <1>7 DEF AcquireIncrement, Go, header, queues
<1>8. CASE AcquireRecheck(t)
  BY <1>8 DEF AcquireRecheck, Go, header, pins, queues
<1>9. CASE TagCheck(t)
  BY <1>9 DEF TagCheck, Go, GoSee, header, pins, queues
<1>10. CASE AcquireBackout(t)
  <2>1. CASE ref_count[seg[t]] = 1
    BY <1>10, <2>1 DEF AcquireBackout, ReleaseReader, GoVia, header
  <2>2. CASE ref_count[seg[t]] # 1
    <3>1. pc[t] = "backout" /\ Finish(t) /\ UNCHANGED <<header, queues, uses>>
      BY <1>10, <2>2 DEF AcquireBackout, ReleaseReader
    <3>2. QED BY <3>1 DEF Finish, header
  <2>3. QED BY <2>1, <2>2
<1>11. CASE GuardDrop(t)
  <2>1. CASE ref_count[seg[t]] = 1
    BY <1>11, <2>1 DEF GuardDrop, ReleaseReader, GoVia, header
  <2>2. CASE ref_count[seg[t]] # 1
    <3>1. pc[t] \in {"reading", "mismatch"} /\ Finish(t) /\ UNCHANGED <<header, queues, uses>>
      BY <1>11, <2>2 DEF GuardDrop, ReleaseReader
    <3>2. QED BY <3>1 DEF Finish, header
  <2>3. QED BY <2>1, <2>2
<1>12. CASE ReleaseLoad(t)
  BY <1>12 DEF ReleaseLoad, Finish, header, pins, queues
<1>13. CASE ReleaseCas(t)
  <2>1. CASE state[seg[t]] = "AwaitingRelease" /\ tag[seg[t]] = token[t]
    BY <1>13, <2>1 DEF ReleaseCas, Go
  <2>2. CASE ~(state[seg[t]] = "AwaitingRelease" /\ tag[seg[t]] = token[t])
    <3>1. pc[t] = "rel_cas" /\ Finish(t) /\ UNCHANGED <<header, pins, queues, uses>>
      BY <1>13, <2>2 DEF ReleaseCas
    <3>2. QED BY <2>2, <3>1 DEF Finish, header, queues
  <2>3. QED BY <2>1, <2>2
<1>14. CASE BumpGeneration(t)
  BY <1>14 DEF BumpGeneration, Go, pins, queues
<1>15. CASE ResetWriteStats(t)
  BY <1>15 DEF ResetWriteStats, Go, pins, queues
<1>16. CASE ReturnSegment(t)
  BY <1>16 DEF ReturnSegment, Go, header, pins
<1>17. CASE PushFreed(t)
  BY <1>17 DEF PushFreed, Finish, header, pins
<1>18. CASE PushSpare(t)
  BY <1>18 DEF PushSpare, Finish, header, pins
<1>19. CASE PinWriterIncrement(t)
  BY <1>19 DEF PinWriterIncrement, Go, header, queues
<1>20. CASE PinWriterRecheck(t)
  BY <1>20 DEF PinWriterRecheck, Go, header, pins, queues
<1>21. CASE AllocItem(t)
  BY <1>21 DEF AllocItem, Go, GoSee, pins, queues
<1>22. CASE DefineAndPublish(t)
  BY <1>22 DEF DefineAndPublish, Go, header, pins, queues
<1>23. CASE ReleaseWriter(t)
  BY <1>23 DEF ReleaseWriter, Finish, header, queues
<1>24. CASE PinRemoverIncrement(t)
  BY <1>24 DEF PinRemoverIncrement, Go, header, queues
<1>25. CASE PinRemoverRecheck(t)
  BY <1>25 DEF PinRemoverRecheck, Go, header, pins, queues
<1>26. CASE ReleaseRemover(t)
  BY <1>26 DEF ReleaseRemover, Finish, header, queues
<1>27. CASE WaitWriters(t)
  <2>1. Holders(WPinPcs, seg[t]) = {}
    BY <1>27, NoHolders DEF WaitWriters, CountersExact
  <2>2. \A u \in Threads : pc[u] \in WPinPcs => seg[u] # seg[t]
    BY <2>1 DEF Holders
  <2>3. QED BY <1>27, <2>2 DEF WaitWriters, Go, WPinPcs, header
<1>28. CASE WaitRemovers(t)
  <2>1. Holders(RPinPcs, seg[t]) = {}
    BY <1>28, NoHolders DEF WaitRemovers, CountersExact
  <2>2. \A u \in Threads : pc[u] \in RPinPcs => seg[u] # seg[t]
    BY <2>1 DEF Holders
  <2>3. QED BY <1>28, <2>2 DEF WaitRemovers, Go, RPinPcs, header
<1>29. CASE ClearSegment(t)
  BY <1>29 DEF ClearSegment, Go, pins, queues
<1>30. CASE CheckRefs(t)
  BY <1>30 DEF CheckRefs, Go, GoVia, header, pins, queues
<1>31. CASE RecycleReset(t)
  BY <1>31 DEF RecycleReset, Go, pins, queues
<1>32. CASE ReleaseDrained(t)
  BY <1>32 DEF ReleaseDrained, Go, SetState, pins, queues
<1>33. CASE Condemn(t)
  BY <1>33 DEF Condemn, Go, SetState, pins, queues
<1>34. CASE CondemnRecheck(t)
  <2>1. CASE ref_count[seg[t]] = 0
    BY <1>34, <2>1 DEF CondemnRecheck, GoVia, header
  <2>2. CASE ~(ref_count[seg[t]] = 0)
    BY <1>34, <2>2 DEF CondemnRecheck, Finish, header
  <2>3. QED BY <2>1, <2>2
<1>35. CASE TryReserve(t)
  BY <1>35 DEF TryReserve, Go, Finish, header, pins
<1>36. CASE SpareTaken(t)
  BY <1>36 DEF SpareTaken, GoVia, header, pins
<1>37. CASE LinkSegment(t)
  BY <1>37 DEF LinkSegment, Go, SetState, pins, queues
<1>38. CASE PublishTail(t)
  BY <1>38 DEF PublishTail, Finish, SetState, pins, queues
<1>39. CASE PublishDest(t)
  BY <1>39 DEF PublishDest, Go, SetState, pins, queues
<1>40. CASE PublishDestSealed(t)
  BY <1>40 DEF PublishDestSealed, Finish, SetState, pins, queues
<1>41. CASE ReleaseUnused(t)
  BY <1>41 DEF ReleaseUnused, Go, SetState, pins, queues
<1>42. ASSUME NEW tail \in Segments, SealTail(t, tail)
       PROVE  DrainWaits'
  BY <1>42 DEF SealTail, Go, SetState, pins, queues
<1>43. CASE CopyIntoDest(t)
  BY <1>43 DEF CopyIntoDest, pins, queues, local
<1> HIDE <1>0 DEF OwnedState, OnePlace, DrainWaits, PinnedWriterPcs,
        WritersGonePcs, RemoversGonePcs, Writable, Removable,
        Owns, OwnerPcs, FreePcs, ReservePcs, DrainPcs, ReturnPcs
<1>44. QED
  BY <1>1, <1>2, <1>3, <1>4, <1>5, <1>6, <1>7, <1>8, <1>9, <1>10, <1>11,
     <1>12, <1>13, <1>14, <1>15, <1>16, <1>17, <1>18, <1>19, <1>20, <1>21,
     <1>22, <1>23, <1>24, <1>25, <1>26, <1>27, <1>28, <1>29, <1>30, <1>31,
     <1>32, <1>33, <1>34, <1>35, <1>36, <1>37, <1>38, <1>39, <1>40, <1>41,
     <1>42, <1>43
     DEF Begin, Step, Choice, ReaderStep, ReleaseStep, ReturnStep,
         WriterStep, RemoverStep, DrainStep, ReserveStep

\* A step moves spare_count together with the ids it accounts for.
LEMMA SpareMovesStep ==
  ASSUME TypeOK, OwnedState, OnePlace, SpareAccount,
         NEW t \in Threads, Begin(t) \/ Step(t) \/ Choice(t)
  PROVE  SpareMoves(t) /\ RouteKept(t)
<1>0. /\ pc \in [Threads -> Pcs]
      /\ seg \in [Threads -> Segments \cup {NoSegment}]
      /\ \A u \in Threads : pc[u] # "idle" => seg[u] \in Segments
      /\ route \in [Threads -> Routes]
      /\ free_queue \in [Segments -> Nat]
      /\ spare_queue \in [Segments -> Nat]
  BY DEF TypeOK
<1> USE <1>0, NoSegmentIsNone DEF SpareMoves, RouteKept, SpareAccount, InSpare,
        PushesSpare, TakesSpare, OwnedState, FreePcs
<1>1. ASSUME NEW s \in Segments, NEW g \in 0..generation[s], AcquireCheck(t, s, g)
       PROVE  SpareMoves(t) /\ RouteKept(t)
  BY <1>1 DEF AcquireCheck, Start, header, pins, queues
<1>2. ASSUME NEW s \in Segments, PinWriterCheck(t, s)
       PROVE  SpareMoves(t) /\ RouteKept(t)
  BY <1>2 DEF PinWriterCheck, Start, header, pins, queues
<1>3. ASSUME NEW s \in Segments, PinRemoverCheck(t, s)
       PROVE  SpareMoves(t) /\ RouteKept(t)
  BY <1>3 DEF PinRemoverCheck, Start, header, pins, queues
<1>4. ASSUME NEW s \in Segments, ClaimForDrain(t, s)
       PROVE  SpareMoves(t) /\ RouteKept(t)
  BY <1>4 DEF ClaimForDrain, Start, pins, queues
<1>5. ASSUME NEW s \in Segments, NEW r \in {"expand", "dest"}, StealFree(t, s, r)
       PROVE  SpareMoves(t) /\ RouteKept(t)
  BY <1>5 DEF StealFree, Start, header, pins
<1>6. ASSUME NEW s \in Segments, StealSpare(t, s)
       PROVE  SpareMoves(t) /\ RouteKept(t)
  <2>1. spare_queue[s] = 1
    BY <1>6 DEF StealSpare, OnePlace
  <2>2. QED BY <1>6, <2>1 DEF StealSpare, Start
<1>7. CASE AcquireIncrement(t)
  BY <1>7 DEF AcquireIncrement, Go, header, queues
<1>8. CASE AcquireRecheck(t)
  BY <1>8 DEF AcquireRecheck, Go, header, pins, queues
<1>9. CASE TagCheck(t)
  BY <1>9 DEF TagCheck, Go, GoSee, header, pins, queues
<1>10. CASE AcquireBackout(t)
  <2>1. CASE ref_count[seg[t]] = 1
    BY <1>10, <2>1 DEF AcquireBackout, ReleaseReader, GoVia, header, queues
  <2>2. CASE ref_count[seg[t]] # 1
    <3>1. pc[t] = "backout" /\ Finish(t) /\ UNCHANGED <<header, queues, uses>>
      BY <1>10, <2>2 DEF AcquireBackout, ReleaseReader
    <3>2. QED BY <3>1 DEF Finish, header, queues
  <2>3. QED BY <2>1, <2>2
<1>11. CASE GuardDrop(t)
  <2>1. CASE ref_count[seg[t]] = 1
    BY <1>11, <2>1 DEF GuardDrop, ReleaseReader, GoVia, header, queues
  <2>2. CASE ref_count[seg[t]] # 1
    <3>1. pc[t] \in {"reading", "mismatch"} /\ Finish(t) /\ UNCHANGED <<header, queues, uses>>
      BY <1>11, <2>2 DEF GuardDrop, ReleaseReader
    <3>2. QED BY <3>1 DEF Finish, header, queues
  <2>3. QED BY <2>1, <2>2
<1>12. CASE ReleaseLoad(t)
  BY <1>12 DEF ReleaseLoad, Finish, header, pins, queues
<1>13. CASE ReleaseCas(t)
  <2>1. CASE state[seg[t]] = "AwaitingRelease" /\ tag[seg[t]] = token[t]
    BY <1>13, <2>1 DEF ReleaseCas, Go, queues
  <2>2. CASE ~(state[seg[t]] = "AwaitingRelease" /\ tag[seg[t]] = token[t])
    BY <1>13, <2>2 DEF ReleaseCas, Finish, header, queues
  <2>3. QED BY <2>1, <2>2
<1>14. CASE BumpGeneration(t)
  BY <1>14 DEF BumpGeneration, Go, pins, queues
<1>15. CASE ResetWriteStats(t)
  BY <1>15 DEF ResetWriteStats, Go, pins, queues
<1>16. CASE ReturnSegment(t)
  BY <1>16 DEF ReturnSegment, Go, header, pins
<1>17. CASE PushFreed(t)
  BY <1>17 DEF PushFreed, Finish, header, pins
<1>18. CASE PushSpare(t)
  <2>1. seg[t] \in Segments /\ spare_queue[seg[t]] = 0
    BY <1>18 DEF PushSpare, OnePlace, Owns, OwnerPcs, ReturnPcs, Queued
  <2>2. QED BY <1>18, <2>1 DEF PushSpare, Finish
<1>19. CASE PinWriterIncrement(t)
  BY <1>19 DEF PinWriterIncrement, Go, header, queues
<1>20. CASE PinWriterRecheck(t)
  BY <1>20 DEF PinWriterRecheck, Go, header, pins, queues
<1>21. CASE AllocItem(t)
  BY <1>21 DEF AllocItem, Go, GoSee, pins, queues
<1>22. CASE DefineAndPublish(t)
  BY <1>22 DEF DefineAndPublish, Go, header, pins, queues
<1>23. CASE ReleaseWriter(t)
  BY <1>23 DEF ReleaseWriter, Finish, header, queues
<1>24. CASE PinRemoverIncrement(t)
  BY <1>24 DEF PinRemoverIncrement, Go, header, queues
<1>25. CASE PinRemoverRecheck(t)
  BY <1>25 DEF PinRemoverRecheck, Go, header, pins, queues
<1>26. CASE ReleaseRemover(t)
  BY <1>26 DEF ReleaseRemover, Finish, header, queues
<1>27. CASE WaitWriters(t)
  BY <1>27 DEF WaitWriters, Go, header, pins, queues
<1>28. CASE WaitRemovers(t)
  BY <1>28 DEF WaitRemovers, Go, header, pins, queues
<1>29. CASE ClearSegment(t)
  BY <1>29 DEF ClearSegment, Go, pins, queues
<1>30. CASE CheckRefs(t)
  BY <1>30 DEF CheckRefs, Go, GoVia, header, pins, queues
<1>31. CASE RecycleReset(t)
  BY <1>31 DEF RecycleReset, Go, pins, queues
<1>32. CASE ReleaseDrained(t)
  BY <1>32 DEF ReleaseDrained, Go, SetState, pins, queues
<1>33. CASE Condemn(t)
  BY <1>33 DEF Condemn, Go, SetState, pins, queues
<1>34. CASE CondemnRecheck(t)
  BY <1>34 DEF CondemnRecheck, GoVia, Finish, header, pins, queues
<1>35. CASE TryReserve(t)
  <2>1. state[seg[t]] = "Free"
    BY <1>35 DEF TryReserve
  <2>2. QED BY <1>35, <2>1 DEF TryReserve, Go
<1>36. CASE SpareTaken(t)
  BY <1>36 DEF SpareTaken, GoVia, header, pins
<1>37. CASE LinkSegment(t)
  BY <1>37 DEF LinkSegment, Go, SetState, pins, queues
<1>38. CASE PublishTail(t)
  BY <1>38 DEF PublishTail, Finish, SetState, pins, queues
<1>39. CASE PublishDest(t)
  BY <1>39 DEF PublishDest, Go, SetState, pins, queues
<1>40. CASE PublishDestSealed(t)
  BY <1>40 DEF PublishDestSealed, Finish, SetState, pins, queues
<1>41. CASE ReleaseUnused(t)
  BY <1>41 DEF ReleaseUnused, Go, SetState, pins, queues
<1>42. ASSUME NEW tail \in Segments, SealTail(t, tail)
       PROVE  SpareMoves(t) /\ RouteKept(t)
  BY <1>42 DEF SealTail, Go, SetState, pins, queues
<1>43. CASE CopyIntoDest(t)
  BY <1>43 DEF CopyIntoDest, pins, queues, local
<1> HIDE <1>0 DEF SpareMoves, RouteKept, SpareAccount, InSpare,
        PushesSpare, TakesSpare, OwnedState, FreePcs
<1>44. QED
  BY <1>1, <1>2, <1>3, <1>4, <1>5, <1>6, <1>7, <1>8, <1>9, <1>10, <1>11,
     <1>12, <1>13, <1>14, <1>15, <1>16, <1>17, <1>18, <1>19, <1>20, <1>21,
     <1>22, <1>23, <1>24, <1>25, <1>26, <1>27, <1>28, <1>29, <1>30, <1>31,
     <1>32, <1>33, <1>34, <1>35, <1>36, <1>37, <1>38, <1>39, <1>40, <1>41,
     <1>42, <1>43
     DEF Begin, Step, Choice, ReaderStep, ReleaseStep, ReturnStep,
         WriterStep, RemoverStep, DrainStep, ReserveStep

\* A step keeps the local variables' types.
LEMMA LocalTypedStep ==
  ASSUME TypeOK,
         NEW t \in Threads, Begin(t) \/ Step(t) \/ Choice(t)
  PROVE  LocalTyped'
<1>0. /\ pc \in [Threads -> Pcs]
      /\ seg \in [Threads -> Segments \cup {NoSegment}]
      /\ \A u \in Threads : pc[u] # "idle" => seg[u] \in Segments
      /\ route \in [Threads -> Routes]
      /\ token \in [Threads -> Nat]
      /\ seen \in [Threads -> Nat]
      /\ generation \in [Segments -> Nat]
      /\ tag \in [Segments -> Nat]
  BY DEF TypeOK
<1> USE <1>0, NoSegmentIsNone DEF LocalTyped, Pcs, Routes, ReaderPcs, ReleasePcs, ReturnPcs,
        WriterPcs, RemoverPcs, DrainPcs, ReservePcs
<1>1. ASSUME NEW s \in Segments, NEW g \in 0..generation[s], AcquireCheck(t, s, g)
       PROVE  LocalTyped'
  BY <1>1 DEF AcquireCheck, Start, header, pins, queues
<1>2. ASSUME NEW s \in Segments, PinWriterCheck(t, s)
       PROVE  LocalTyped'
  BY <1>2 DEF PinWriterCheck, Start, header, pins, queues
<1>3. ASSUME NEW s \in Segments, PinRemoverCheck(t, s)
       PROVE  LocalTyped'
  BY <1>3 DEF PinRemoverCheck, Start, header, pins, queues
<1>4. ASSUME NEW s \in Segments, ClaimForDrain(t, s)
       PROVE  LocalTyped'
  BY <1>4 DEF ClaimForDrain, Start, pins, queues
<1>5. ASSUME NEW s \in Segments, NEW r \in {"expand", "dest"}, StealFree(t, s, r)
       PROVE  LocalTyped'
  BY <1>5 DEF StealFree, Start, header, pins
<1>6. ASSUME NEW s \in Segments, StealSpare(t, s)
       PROVE  LocalTyped'
  BY <1>6 DEF StealSpare, Start, header, pins
<1>7. CASE AcquireIncrement(t)
  BY <1>7 DEF AcquireIncrement, Go, header, queues
<1>8. CASE AcquireRecheck(t)
  BY <1>8 DEF AcquireRecheck, Go, header, pins, queues
<1>9. CASE TagCheck(t)
  BY <1>9 DEF TagCheck, Go, GoSee, header, pins, queues
<1>10. CASE AcquireBackout(t)
  <2>1. CASE ref_count[seg[t]] = 1
    BY <1>10, <2>1 DEF AcquireBackout, ReleaseReader, GoVia
  <2>2. CASE ref_count[seg[t]] # 1
    <3>1. pc[t] = "backout" /\ Finish(t) /\ UNCHANGED <<header, queues, uses>>
      BY <1>10, <2>2 DEF AcquireBackout, ReleaseReader
    <3>2. QED BY <3>1 DEF Finish
  <2>3. QED BY <2>1, <2>2
<1>11. CASE GuardDrop(t)
  <2>1. CASE ref_count[seg[t]] = 1
    BY <1>11, <2>1 DEF GuardDrop, ReleaseReader, GoVia
  <2>2. CASE ref_count[seg[t]] # 1
    <3>1. pc[t] \in {"reading", "mismatch"} /\ Finish(t) /\ UNCHANGED <<header, queues, uses>>
      BY <1>11, <2>2 DEF GuardDrop, ReleaseReader
    <3>2. QED BY <3>1 DEF Finish
  <2>3. QED BY <2>1, <2>2
<1>12. CASE ReleaseLoad(t)
  BY <1>12 DEF ReleaseLoad, Finish, header, pins, queues
<1>13. CASE ReleaseCas(t)
  BY <1>13 DEF ReleaseCas, Go, Finish, header, pins, queues
<1>14. CASE BumpGeneration(t)
  BY <1>14 DEF BumpGeneration, Go, pins, queues
<1>15. CASE ResetWriteStats(t)
  BY <1>15 DEF ResetWriteStats, Go, pins, queues
<1>16. CASE ReturnSegment(t)
  BY <1>16 DEF ReturnSegment, Go, header, pins
<1>17. CASE PushFreed(t)
  BY <1>17 DEF PushFreed, Finish, header, pins
<1>18. CASE PushSpare(t)
  BY <1>18 DEF PushSpare, Finish, header, pins
<1>19. CASE PinWriterIncrement(t)
  BY <1>19 DEF PinWriterIncrement, Go, header, queues
<1>20. CASE PinWriterRecheck(t)
  BY <1>20 DEF PinWriterRecheck, Go, header, pins, queues
<1>21. CASE AllocItem(t)
  BY <1>21 DEF AllocItem, Go, GoSee, pins, queues
<1>22. CASE DefineAndPublish(t)
  BY <1>22 DEF DefineAndPublish, Go, header, pins, queues
<1>23. CASE ReleaseWriter(t)
  BY <1>23 DEF ReleaseWriter, Finish, header, queues
<1>24. CASE PinRemoverIncrement(t)
  BY <1>24 DEF PinRemoverIncrement, Go, header, queues
<1>25. CASE PinRemoverRecheck(t)
  BY <1>25 DEF PinRemoverRecheck, Go, header, pins, queues
<1>26. CASE ReleaseRemover(t)
  BY <1>26 DEF ReleaseRemover, Finish, header, queues
<1>27. CASE WaitWriters(t)
  BY <1>27 DEF WaitWriters, Go, header, pins, queues
<1>28. CASE WaitRemovers(t)
  BY <1>28 DEF WaitRemovers, Go, header, pins, queues
<1>29. CASE ClearSegment(t)
  BY <1>29 DEF ClearSegment, Go, pins, queues
<1>30. CASE CheckRefs(t)
  BY <1>30 DEF CheckRefs, Go, GoVia, header, pins, queues
<1>31. CASE RecycleReset(t)
  BY <1>31 DEF RecycleReset, Go, pins, queues
<1>32. CASE ReleaseDrained(t)
  BY <1>32 DEF ReleaseDrained, Go, SetState, pins, queues
<1>33. CASE Condemn(t)
  BY <1>33 DEF Condemn, Go, SetState, pins, queues
<1>34. CASE CondemnRecheck(t)
  BY <1>34 DEF CondemnRecheck, GoVia, Finish, header, pins, queues
<1>35. CASE TryReserve(t)
  BY <1>35 DEF TryReserve, Go, Finish, header, pins
<1>36. CASE SpareTaken(t)
  BY <1>36 DEF SpareTaken, GoVia, header, pins
<1>37. CASE LinkSegment(t)
  BY <1>37 DEF LinkSegment, Go, SetState, pins, queues
<1>38. CASE PublishTail(t)
  BY <1>38 DEF PublishTail, Finish, SetState, pins, queues
<1>39. CASE PublishDest(t)
  BY <1>39 DEF PublishDest, Go, SetState, pins, queues
<1>40. CASE PublishDestSealed(t)
  BY <1>40 DEF PublishDestSealed, Finish, SetState, pins, queues
<1>41. CASE ReleaseUnused(t)
  BY <1>41 DEF ReleaseUnused, Go, SetState, pins, queues
<1>42. ASSUME NEW tail \in Segments, SealTail(t, tail)
       PROVE  LocalTyped'
  BY <1>42 DEF SealTail, Go, SetState, pins, queues
<1>43. CASE CopyIntoDest(t)
  BY <1>43 DEF CopyIntoDest, pins, queues, local
<1> HIDE <1>0 DEF LocalTyped, Pcs, Routes, ReaderPcs, ReleasePcs, ReturnPcs,
        WriterPcs, RemoverPcs, DrainPcs, ReservePcs
<1>44. QED
  BY <1>1, <1>2, <1>3, <1>4, <1>5, <1>6, <1>7, <1>8, <1>9, <1>10, <1>11,
     <1>12, <1>13, <1>14, <1>15, <1>16, <1>17, <1>18, <1>19, <1>20, <1>21,
     <1>22, <1>23, <1>24, <1>25, <1>26, <1>27, <1>28, <1>29, <1>30, <1>31,
     <1>32, <1>33, <1>34, <1>35, <1>36, <1>37, <1>38, <1>39, <1>40, <1>41,
     <1>42, <1>43
     DEF Begin, Step, Choice, ReaderStep, ReleaseStep, ReturnStep,
         WriterStep, RemoverStep, DrainStep, ReserveStep

\* A step keeps the header words' types.
LEMMA HeaderTypedStep ==
  ASSUME TypeOK,
         NEW t \in Threads, Begin(t) \/ Step(t) \/ Choice(t)
  PROVE  HeaderTyped'
<1>0. /\ state \in [Segments -> States]
      /\ tag \in [Segments -> Nat]
      /\ generation \in [Segments -> Nat]
      /\ write_offset \in [Segments -> 0..SegmentSize]
      /\ uses \in [Segments -> Nat]
      /\ pc \in [Threads -> Pcs]
      /\ seg \in [Threads -> Segments \cup {NoSegment}]
      /\ \A u \in Threads : pc[u] # "idle" => seg[u] \in Segments
  BY DEF TypeOK
<1> USE <1>0, NoSegmentIsNone, Sizes DEF HeaderTyped, States
<1>1. ASSUME NEW s \in Segments, NEW g \in 0..generation[s], AcquireCheck(t, s, g)
       PROVE  HeaderTyped'
  BY <1>1 DEF AcquireCheck, Start, header, pins, queues
<1>2. ASSUME NEW s \in Segments, PinWriterCheck(t, s)
       PROVE  HeaderTyped'
  BY <1>2 DEF PinWriterCheck, Start, header, pins, queues
<1>3. ASSUME NEW s \in Segments, PinRemoverCheck(t, s)
       PROVE  HeaderTyped'
  BY <1>3 DEF PinRemoverCheck, Start, header, pins, queues
<1>4. ASSUME NEW s \in Segments, ClaimForDrain(t, s)
       PROVE  HeaderTyped'
  BY <1>4 DEF ClaimForDrain, Start, pins, queues
<1>5. ASSUME NEW s \in Segments, NEW r \in {"expand", "dest"}, StealFree(t, s, r)
       PROVE  HeaderTyped'
  BY <1>5 DEF StealFree, Start, header, pins
<1>6. ASSUME NEW s \in Segments, StealSpare(t, s)
       PROVE  HeaderTyped'
  BY <1>6 DEF StealSpare, Start, header, pins
<1>7. CASE AcquireIncrement(t)
  BY <1>7 DEF AcquireIncrement, Go, header, queues
<1>8. CASE AcquireRecheck(t)
  BY <1>8 DEF AcquireRecheck, Go, header, pins, queues
<1>9. CASE TagCheck(t)
  BY <1>9 DEF TagCheck, Go, GoSee, header, pins, queues
<1>10. CASE AcquireBackout(t)
  BY <1>10 DEF AcquireBackout, ReleaseReader, GoVia, Finish, header, queues
<1>11. CASE GuardDrop(t)
  BY <1>11 DEF GuardDrop, ReleaseReader, GoVia, Finish, header, queues
<1>12. CASE ReleaseLoad(t)
  BY <1>12 DEF ReleaseLoad, Finish, header, pins, queues
<1>13. CASE ReleaseCas(t)
  BY <1>13 DEF ReleaseCas, Go, Finish, header, pins, queues
<1>14. CASE BumpGeneration(t)
  BY <1>14 DEF BumpGeneration, Go, pins, queues
<1>15. CASE ResetWriteStats(t)
  BY <1>15 DEF ResetWriteStats, Go, pins, queues
<1>16. CASE ReturnSegment(t)
  BY <1>16 DEF ReturnSegment, Go, header, pins
<1>17. CASE PushFreed(t)
  BY <1>17 DEF PushFreed, Finish, header, pins
<1>18. CASE PushSpare(t)
  BY <1>18 DEF PushSpare, Finish, header, pins
<1>19. CASE PinWriterIncrement(t)
  BY <1>19 DEF PinWriterIncrement, Go, header, queues
<1>20. CASE PinWriterRecheck(t)
  BY <1>20 DEF PinWriterRecheck, Go, header, pins, queues
<1>21. CASE AllocItem(t)
  BY <1>21 DEF AllocItem, Go, GoSee, pins, queues
<1>22. CASE DefineAndPublish(t)
  BY <1>22 DEF DefineAndPublish, Go, header, pins, queues
<1>23. CASE ReleaseWriter(t)
  BY <1>23 DEF ReleaseWriter, Finish, header, queues
<1>24. CASE PinRemoverIncrement(t)
  BY <1>24 DEF PinRemoverIncrement, Go, header, queues
<1>25. CASE PinRemoverRecheck(t)
  BY <1>25 DEF PinRemoverRecheck, Go, header, pins, queues
<1>26. CASE ReleaseRemover(t)
  BY <1>26 DEF ReleaseRemover, Finish, header, queues
<1>27. CASE WaitWriters(t)
  BY <1>27 DEF WaitWriters, Go, header, pins, queues
<1>28. CASE WaitRemovers(t)
  BY <1>28 DEF WaitRemovers, Go, header, pins, queues
<1>29. CASE ClearSegment(t)
  BY <1>29 DEF ClearSegment, Go, pins, queues
<1>30. CASE CheckRefs(t)
  BY <1>30 DEF CheckRefs, Go, GoVia, header, pins, queues
<1>31. CASE RecycleReset(t)
  BY <1>31 DEF RecycleReset, Go, pins, queues
<1>32. CASE ReleaseDrained(t)
  BY <1>32 DEF ReleaseDrained, Go, SetState, pins, queues
<1>33. CASE Condemn(t)
  BY <1>33 DEF Condemn, Go, SetState, pins, queues
<1>34. CASE CondemnRecheck(t)
  BY <1>34 DEF CondemnRecheck, GoVia, Finish, header, pins, queues
<1>35. CASE TryReserve(t)
  BY <1>35 DEF TryReserve, Go, Finish, header, pins
<1>36. CASE SpareTaken(t)
  BY <1>36 DEF SpareTaken, GoVia, header, pins
<1>37. CASE LinkSegment(t)
  BY <1>37 DEF LinkSegment, Go, SetState, pins, queues
<1>38. CASE PublishTail(t)
  BY <1>38 DEF PublishTail, Finish, SetState, pins, queues
<1>39. CASE PublishDest(t)
  BY <1>39 DEF PublishDest, Go, SetState, pins, queues
<1>40. CASE PublishDestSealed(t)
  BY <1>40 DEF PublishDestSealed, Finish, SetState, pins, queues
<1>41. CASE ReleaseUnused(t)
  BY <1>41 DEF ReleaseUnused, Go, SetState, pins, queues
<1>42. ASSUME NEW tail \in Segments, SealTail(t, tail)
       PROVE  HeaderTyped'
  BY <1>42 DEF SealTail, Go, SetState, pins, queues
<1>43. CASE CopyIntoDest(t)
  BY <1>43 DEF CopyIntoDest, pins, queues, local
<1> HIDE <1>0 DEF HeaderTyped, States
<1>44. QED
  BY <1>1, <1>2, <1>3, <1>4, <1>5, <1>6, <1>7, <1>8, <1>9, <1>10, <1>11,
     <1>12, <1>13, <1>14, <1>15, <1>16, <1>17, <1>18, <1>19, <1>20, <1>21,
     <1>22, <1>23, <1>24, <1>25, <1>26, <1>27, <1>28, <1>29, <1>30, <1>31,
     <1>32, <1>33, <1>34, <1>35, <1>36, <1>37, <1>38, <1>39, <1>40, <1>41,
     <1>42, <1>43
     DEF Begin, Step, Choice, ReaderStep, ReleaseStep, ReturnStep,
         WriterStep, RemoverStep, DrainStep, ReserveStep

\* A step keeps the pin counters functions to the integers.
LEMMA PinsTypedStep ==
  ASSUME TypeOK,
         NEW t \in Threads, Begin(t) \/ Step(t) \/ Choice(t)
  PROVE  PinsTyped'
<1>0. /\ ref_count \in [Segments -> Nat]
      /\ active_writers \in [Segments -> Nat]
      /\ active_removers \in [Segments -> Nat]
      /\ pc \in [Threads -> Pcs]
      /\ seg \in [Threads -> Segments \cup {NoSegment}]
      /\ \A u \in Threads : pc[u] # "idle" => seg[u] \in Segments
  BY DEF TypeOK
<1> USE <1>0, NoSegmentIsNone DEF PinsTyped
<1>1. ASSUME NEW s \in Segments, NEW g \in 0..generation[s], AcquireCheck(t, s, g)
       PROVE  PinsTyped'
  BY <1>1 DEF AcquireCheck, Start, header, pins, queues
<1>2. ASSUME NEW s \in Segments, PinWriterCheck(t, s)
       PROVE  PinsTyped'
  BY <1>2 DEF PinWriterCheck, Start, header, pins, queues
<1>3. ASSUME NEW s \in Segments, PinRemoverCheck(t, s)
       PROVE  PinsTyped'
  BY <1>3 DEF PinRemoverCheck, Start, header, pins, queues
<1>4. ASSUME NEW s \in Segments, ClaimForDrain(t, s)
       PROVE  PinsTyped'
  BY <1>4 DEF ClaimForDrain, Start, pins, queues
<1>5. ASSUME NEW s \in Segments, NEW r \in {"expand", "dest"}, StealFree(t, s, r)
       PROVE  PinsTyped'
  BY <1>5 DEF StealFree, Start, header, pins
<1>6. ASSUME NEW s \in Segments, StealSpare(t, s)
       PROVE  PinsTyped'
  BY <1>6 DEF StealSpare, Start, header, pins
<1>7. CASE AcquireIncrement(t)
  BY <1>7 DEF AcquireIncrement, Go, header, queues
<1>8. CASE AcquireRecheck(t)
  BY <1>8 DEF AcquireRecheck, Go, header, pins, queues
<1>9. CASE TagCheck(t)
  BY <1>9 DEF TagCheck, Go, GoSee, header, pins, queues
<1>10. CASE AcquireBackout(t)
  BY <1>10 DEF AcquireBackout, ReleaseReader, GoVia, Finish, header, queues
<1>11. CASE GuardDrop(t)
  BY <1>11 DEF GuardDrop, ReleaseReader, GoVia, Finish, header, queues
<1>12. CASE ReleaseLoad(t)
  BY <1>12 DEF ReleaseLoad, Finish, header, pins, queues
<1>13. CASE ReleaseCas(t)
  BY <1>13 DEF ReleaseCas, Go, Finish, header, pins, queues
<1>14. CASE BumpGeneration(t)
  BY <1>14 DEF BumpGeneration, Go, pins, queues
<1>15. CASE ResetWriteStats(t)
  BY <1>15 DEF ResetWriteStats, Go, pins, queues
<1>16. CASE ReturnSegment(t)
  BY <1>16 DEF ReturnSegment, Go, header, pins
<1>17. CASE PushFreed(t)
  BY <1>17 DEF PushFreed, Finish, header, pins
<1>18. CASE PushSpare(t)
  BY <1>18 DEF PushSpare, Finish, header, pins
<1>19. CASE PinWriterIncrement(t)
  BY <1>19 DEF PinWriterIncrement, Go, header, queues
<1>20. CASE PinWriterRecheck(t)
  BY <1>20 DEF PinWriterRecheck, Go, header, pins, queues
<1>21. CASE AllocItem(t)
  BY <1>21 DEF AllocItem, Go, GoSee, pins, queues
<1>22. CASE DefineAndPublish(t)
  BY <1>22 DEF DefineAndPublish, Go, header, pins, queues
<1>23. CASE ReleaseWriter(t)
  BY <1>23 DEF ReleaseWriter, Finish, header, queues
<1>24. CASE PinRemoverIncrement(t)
  BY <1>24 DEF PinRemoverIncrement, Go, header, queues
<1>25. CASE PinRemoverRecheck(t)
  BY <1>25 DEF PinRemoverRecheck, Go, header, pins, queues
<1>26. CASE ReleaseRemover(t)
  BY <1>26 DEF ReleaseRemover, Finish, header, queues
<1>27. CASE WaitWriters(t)
  BY <1>27 DEF WaitWriters, Go, header, pins, queues
<1>28. CASE WaitRemovers(t)
  BY <1>28 DEF WaitRemovers, Go, header, pins, queues
<1>29. CASE ClearSegment(t)
  BY <1>29 DEF ClearSegment, Go, pins, queues
<1>30. CASE CheckRefs(t)
  BY <1>30 DEF CheckRefs, Go, GoVia, header, pins, queues
<1>31. CASE RecycleReset(t)
  BY <1>31 DEF RecycleReset, Go, pins, queues
<1>32. CASE ReleaseDrained(t)
  BY <1>32 DEF ReleaseDrained, Go, SetState, pins, queues
<1>33. CASE Condemn(t)
  BY <1>33 DEF Condemn, Go, SetState, pins, queues
<1>34. CASE CondemnRecheck(t)
  BY <1>34 DEF CondemnRecheck, GoVia, Finish, header, pins, queues
<1>35. CASE TryReserve(t)
  BY <1>35 DEF TryReserve, Go, Finish, header, pins
<1>36. CASE SpareTaken(t)
  BY <1>36 DEF SpareTaken, GoVia, header, pins
<1>37. CASE LinkSegment(t)
  BY <1>37 DEF LinkSegment, Go, SetState, pins, queues
<1>38. CASE PublishTail(t)
  BY <1>38 DEF PublishTail, Finish, SetState, pins, queues
<1>39. CASE PublishDest(t)
  BY <1>39 DEF PublishDest, Go, SetState, pins, queues
<1>40. CASE PublishDestSealed(t)
  BY <1>40 DEF PublishDestSealed, Finish, SetState, pins, queues
<1>41. CASE ReleaseUnused(t)
  BY <1>41 DEF ReleaseUnused, Go, SetState, pins, queues
<1>42. ASSUME NEW tail \in Segments, SealTail(t, tail)
       PROVE  PinsTyped'
  BY <1>42 DEF SealTail, Go, SetState, pins, queues
<1>43. CASE CopyIntoDest(t)
  BY <1>43 DEF CopyIntoDest, pins, queues, local
<1> HIDE <1>0 DEF PinsTyped
<1>44. QED
  BY <1>1, <1>2, <1>3, <1>4, <1>5, <1>6, <1>7, <1>8, <1>9, <1>10, <1>11,
     <1>12, <1>13, <1>14, <1>15, <1>16, <1>17, <1>18, <1>19, <1>20, <1>21,
     <1>22, <1>23, <1>24, <1>25, <1>26, <1>27, <1>28, <1>29, <1>30, <1>31,
     <1>32, <1>33, <1>34, <1>35, <1>36, <1>37, <1>38, <1>39, <1>40, <1>41,
     <1>42, <1>43
     DEF Begin, Step, Choice, ReaderStep, ReleaseStep, ReturnStep,
         WriterStep, RemoverStep, DrainStep, ReserveStep

\* A step keeps the queues' types.
LEMMA QueuesTypedStep ==
  ASSUME TypeOK,
         NEW t \in Threads, Begin(t) \/ Step(t) \/ Choice(t)
  PROVE  QueuesTyped'
<1>0. /\ free_queue \in [Segments -> Nat]
      /\ spare_queue \in [Segments -> Nat]
      /\ pc \in [Threads -> Pcs]
      /\ seg \in [Threads -> Segments \cup {NoSegment}]
      /\ \A u \in Threads : pc[u] # "idle" => seg[u] \in Segments
  BY DEF TypeOK
<1> USE <1>0, NoSegmentIsNone DEF QueuesTyped
<1>1. ASSUME NEW s \in Segments, NEW g \in 0..generation[s], AcquireCheck(t, s, g)
       PROVE  QueuesTyped'
  BY <1>1 DEF AcquireCheck, Start, header, pins, queues
<1>2. ASSUME NEW s \in Segments, PinWriterCheck(t, s)
       PROVE  QueuesTyped'
  BY <1>2 DEF PinWriterCheck, Start, header, pins, queues
<1>3. ASSUME NEW s \in Segments, PinRemoverCheck(t, s)
       PROVE  QueuesTyped'
  BY <1>3 DEF PinRemoverCheck, Start, header, pins, queues
<1>4. ASSUME NEW s \in Segments, ClaimForDrain(t, s)
       PROVE  QueuesTyped'
  BY <1>4 DEF ClaimForDrain, Start, pins, queues
<1>5. ASSUME NEW s \in Segments, NEW r \in {"expand", "dest"}, StealFree(t, s, r)
       PROVE  QueuesTyped'
  BY <1>5 DEF StealFree, Start, header, pins
<1>6. ASSUME NEW s \in Segments, StealSpare(t, s)
       PROVE  QueuesTyped'
  BY <1>6 DEF StealSpare, Start, header, pins
<1>7. CASE AcquireIncrement(t)
  BY <1>7 DEF AcquireIncrement, Go, header, queues
<1>8. CASE AcquireRecheck(t)
  BY <1>8 DEF AcquireRecheck, Go, header, pins, queues
<1>9. CASE TagCheck(t)
  BY <1>9 DEF TagCheck, Go, GoSee, header, pins, queues
<1>10. CASE AcquireBackout(t)
  BY <1>10 DEF AcquireBackout, ReleaseReader, GoVia, Finish, header, queues
<1>11. CASE GuardDrop(t)
  BY <1>11 DEF GuardDrop, ReleaseReader, GoVia, Finish, header, queues
<1>12. CASE ReleaseLoad(t)
  BY <1>12 DEF ReleaseLoad, Finish, header, pins, queues
<1>13. CASE ReleaseCas(t)
  BY <1>13 DEF ReleaseCas, Go, Finish, header, pins, queues
<1>14. CASE BumpGeneration(t)
  BY <1>14 DEF BumpGeneration, Go, pins, queues
<1>15. CASE ResetWriteStats(t)
  BY <1>15 DEF ResetWriteStats, Go, pins, queues
<1>16. CASE ReturnSegment(t)
  BY <1>16 DEF ReturnSegment, Go, header, pins
<1>17. CASE PushFreed(t)
  BY <1>17 DEF PushFreed, Finish, header, pins
<1>18. CASE PushSpare(t)
  BY <1>18 DEF PushSpare, Finish, header, pins
<1>19. CASE PinWriterIncrement(t)
  BY <1>19 DEF PinWriterIncrement, Go, header, queues
<1>20. CASE PinWriterRecheck(t)
  BY <1>20 DEF PinWriterRecheck, Go, header, pins, queues
<1>21. CASE AllocItem(t)
  BY <1>21 DEF AllocItem, Go, GoSee, pins, queues
<1>22. CASE DefineAndPublish(t)
  BY <1>22 DEF DefineAndPublish, Go, header, pins, queues
<1>23. CASE ReleaseWriter(t)
  BY <1>23 DEF ReleaseWriter, Finish, header, queues
<1>24. CASE PinRemoverIncrement(t)
  BY <1>24 DEF PinRemoverIncrement, Go, header, queues
<1>25. CASE PinRemoverRecheck(t)
  BY <1>25 DEF PinRemoverRecheck, Go, header, pins, queues
<1>26. CASE ReleaseRemover(t)
  BY <1>26 DEF ReleaseRemover, Finish, header, queues
<1>27. CASE WaitWriters(t)
  BY <1>27 DEF WaitWriters, Go, header, pins, queues
<1>28. CASE WaitRemovers(t)
  BY <1>28 DEF WaitRemovers, Go, header, pins, queues
<1>29. CASE ClearSegment(t)
  BY <1>29 DEF ClearSegment, Go, pins, queues
<1>30. CASE CheckRefs(t)
  BY <1>30 DEF CheckRefs, Go, GoVia, header, pins, queues
<1>31. CASE RecycleReset(t)
  BY <1>31 DEF RecycleReset, Go, pins, queues
<1>32. CASE ReleaseDrained(t)
  BY <1>32 DEF ReleaseDrained, Go, SetState, pins, queues
<1>33. CASE Condemn(t)
  BY <1>33 DEF Condemn, Go, SetState, pins, queues
<1>34. CASE CondemnRecheck(t)
  BY <1>34 DEF CondemnRecheck, GoVia, Finish, header, pins, queues
<1>35. CASE TryReserve(t)
  BY <1>35 DEF TryReserve, Go, Finish, header, pins
<1>36. CASE SpareTaken(t)
  BY <1>36 DEF SpareTaken, GoVia, header, pins
<1>37. CASE LinkSegment(t)
  BY <1>37 DEF LinkSegment, Go, SetState, pins, queues
<1>38. CASE PublishTail(t)
  BY <1>38 DEF PublishTail, Finish, SetState, pins, queues
<1>39. CASE PublishDest(t)
  BY <1>39 DEF PublishDest, Go, SetState, pins, queues
<1>40. CASE PublishDestSealed(t)
  BY <1>40 DEF PublishDestSealed, Finish, SetState, pins, queues
<1>41. CASE ReleaseUnused(t)
  BY <1>41 DEF ReleaseUnused, Go, SetState, pins, queues
<1>42. ASSUME NEW tail \in Segments, SealTail(t, tail)
       PROVE  QueuesTyped'
  BY <1>42 DEF SealTail, Go, SetState, pins, queues
<1>43. CASE CopyIntoDest(t)
  BY <1>43 DEF CopyIntoDest, pins, queues, local
<1> HIDE <1>0 DEF QueuesTyped
<1>44. QED
  BY <1>1, <1>2, <1>3, <1>4, <1>5, <1>6, <1>7, <1>8, <1>9, <1>10, <1>11,
     <1>12, <1>13, <1>14, <1>15, <1>16, <1>17, <1>18, <1>19, <1>20, <1>21,
     <1>22, <1>23, <1>24, <1>25, <1>26, <1>27, <1>28, <1>29, <1>30, <1>31,
     <1>32, <1>33, <1>34, <1>35, <1>36, <1>37, <1>38, <1>39, <1>40, <1>41,
     <1>42, <1>43
     DEF Begin, Step, Choice, ReaderStep, ReleaseStep, ReturnStep,
         WriterStep, RemoverStep, DrainStep, ReserveStep

-----------------------------------------------------------------------------
(* The conjuncts that count or name threads, from the steps above.         *)

\* Finite sets of threads that differ by at most the thread t.
LEMMA MoveOne ==
  ASSUME NEW A, NEW B, NEW t, IsFiniteSet(A), A \ {t} = B \ {t}
  PROVE  /\ IsFiniteSet(B)
         /\ Cardinality(A) \in Nat
         /\ (t \in A <=> t \in B) => Cardinality(B) = Cardinality(A)
         /\ t \notin A /\ t \in B => Cardinality(B) = Cardinality(A) + 1
         /\ t \in A /\ t \notin B => Cardinality(B) = Cardinality(A) - 1
<1>0. Cardinality(A) \in Nat
  BY FS_CardinalityType
<1>1. CASE t \in A <=> t \in B
  <2>1. A = B
    BY <1>1
  <2>2. QED BY <1>0, <1>1, <2>1
<1>2. CASE t \notin A /\ t \in B
  <2>1. B = A \cup {t}
    BY <1>2
  <2>2. QED BY <1>0, <1>2, <2>1, FS_AddElement
<1>3. CASE t \in A /\ t \notin B
  <2>1. B = A \ {t}
    BY <1>3
  <2>2. QED BY <1>0, <1>3, <2>1, FS_RemoveElement
<1>4. QED BY <1>1, <1>2, <1>3

\* The threads at the steps P that work on s, before and after a step of t.
LEMMA HoldersMove ==
  ASSUME NEW t \in Threads, OthersKeep(t), NEW P, NEW s
  PROVE  /\ IsFiniteSet(Holders(P, s))
         /\ Holders(P, s) \ {t} = Holders(P, s)' \ {t}
         /\ t \in Holders(P, s) <=> At(P, t, s)
         /\ t \in Holders(P, s)' <=> At(P, t, s)'
<1>1. IsFiniteSet(Holders(P, s))
  BY FS_Subset, ThreadsFinite DEF Holders
<1>2. QED BY <1>1 DEF Holders, At, OthersKeep

\* A pin counter stays the number of its holders.
LEMMA CountersExactStep ==
  ASSUME CountersExact, NEW t \in Threads, OthersKeep(t), CountersMove(t)
  PROVE  CountersExact'
<1> SUFFICES ASSUME NEW s \in Segments
             PROVE  /\ ref_count'[s] = Cardinality(Holders(RefPcs, s)')
                    /\ active_writers'[s] = Cardinality(Holders(WPinPcs, s)')
                    /\ active_removers'[s] = Cardinality(Holders(RPinPcs, s)')
  BY DEF CountersExact, RefPcs, WPinPcs, RPinPcs
<1>1. ref_count'[s] = Cardinality(Holders(RefPcs, s)')
  <2>1. /\ IsFiniteSet(Holders(RefPcs, s))
        /\ Holders(RefPcs, s) \ {t} = Holders(RefPcs, s)' \ {t}
        /\ t \in Holders(RefPcs, s) <=> At(RefPcs, t, s)
        /\ t \in Holders(RefPcs, s)' <=> At(RefPcs, t, s)'
    BY HoldersMove
  <2>2. ref_count[s] = Cardinality(Holders(RefPcs, s))
    BY DEF CountersExact
  <2>3. CounterMoves(ref_count, ref_count', RefPcs, t)
    BY DEF CountersMove
  <2>4. QED BY <2>1, <2>2, <2>3, MoveOne DEF CounterMoves
<1>2. active_writers'[s] = Cardinality(Holders(WPinPcs, s)')
  <2>1. /\ IsFiniteSet(Holders(WPinPcs, s))
        /\ Holders(WPinPcs, s) \ {t} = Holders(WPinPcs, s)' \ {t}
        /\ t \in Holders(WPinPcs, s) <=> At(WPinPcs, t, s)
        /\ t \in Holders(WPinPcs, s)' <=> At(WPinPcs, t, s)'
    BY HoldersMove
  <2>2. active_writers[s] = Cardinality(Holders(WPinPcs, s))
    BY DEF CountersExact
  <2>3. CounterMoves(active_writers, active_writers', WPinPcs, t)
    BY DEF CountersMove
  <2>4. QED BY <2>1, <2>2, <2>3, MoveOne DEF CounterMoves
<1>3. active_removers'[s] = Cardinality(Holders(RPinPcs, s)')
  <2>1. /\ IsFiniteSet(Holders(RPinPcs, s))
        /\ Holders(RPinPcs, s) \ {t} = Holders(RPinPcs, s)' \ {t}
        /\ t \in Holders(RPinPcs, s) <=> At(RPinPcs, t, s)
        /\ t \in Holders(RPinPcs, s)' <=> At(RPinPcs, t, s)'
    BY HoldersMove
  <2>2. active_removers[s] = Cardinality(Holders(RPinPcs, s))
    BY DEF CountersExact
  <2>3. CounterMoves(active_removers, active_removers', RPinPcs, t)
    BY DEF CountersMove
  <2>4. QED BY <2>1, <2>2, <2>3, MoveOne DEF CounterMoves
<1>4. QED BY <1>1, <1>2, <1>3

\* A segment outside the chains keeps a place.
LEMMA AccountedStep ==
  ASSUME Accounted, NEW t \in Threads, OthersKeep(t), \A s \in Segments : PlaceKept(t, s)
  PROVE  Accounted'
<1> SUFFICES ASSUME NEW s \in Segments, state'[s] \in OffChain,
                    ~Queued(s)', ~Owns(t, s)'
             PROVE  \E u \in Threads : Owns(u, s)'
  BY DEF Accounted, OffChain
<1>1. state[s] \in OffChain /\ ~Queued(s) /\ ~Owns(t, s)
  BY DEF PlaceKept
<1>2. PICK u \in Threads : Owns(u, s)
  BY <1>1 DEF Accounted
<1>3. u # t /\ Owns(u, s)'
  BY <1>1, <1>2 DEF OthersKeep, Owns
<1>4. QED BY <1>3

\* A condemned segment keeps a claimant.
LEMMA HandoffStep ==
  ASSUME TypeOK, Handoff, NEW t \in Threads, OthersKeep(t), \A s \in Segments : HandoffKept(t, s)
  PROVE  Handoff'
<1> SUFFICES ASSUME NEW s \in Segments, state'[s] = "AwaitingRelease",
                    ~(ref_count'[s] > 0), ~Claims(t, s)'
             PROVE  \E u \in Threads : Claims(u, s)'
  BY DEF Handoff, Claims
<1>1. state[s] = "AwaitingRelease" /\ tag'[s] = tag[s] /\ ref_count[s] <= 0 /\ ~Claims(t, s)
  BY DEF HandoffKept
<1>2. ~(ref_count[s] > 0)
  BY <1>1 DEF TypeOK
<1>3. PICK u \in Threads : Claims(u, s)
  BY <1>1, <1>2 DEF Handoff, Claims
<1>4. u # t /\ Claims(u, s)'
  BY <1>1, <1>3 DEF OthersKeep, Claims
<1>5. QED BY <1>4

\* spare_count stays exact and inside its capacity.
LEMMA SpareAccountStep ==
  ASSUME TypeOK, SpareAccount, NEW t \in Threads, OthersKeep(t), SpareMoves(t), RouteKept(t)
  PROVE  SpareAccount' /\ spare_count' \in 0..SpareCapacity
<1>1. /\ IsFiniteSet(ToSpare) /\ IsFiniteSet(FromSpare)
      /\ ToSpare \ {t} = ToSpare' \ {t} /\ FromSpare \ {t} = FromSpare' \ {t}
      /\ t \in ToSpare <=> PushesSpare(t)
      /\ t \in ToSpare' <=> PushesSpare(t)'
      /\ t \in FromSpare <=> TakesSpare(t)
      /\ t \in FromSpare' <=> TakesSpare(t)'
  <2>1. IsFiniteSet(ToSpare) /\ IsFiniteSet(FromSpare)
    BY FS_Subset, ThreadsFinite DEF ToSpare, FromSpare
  <2>2. QED BY <2>1 DEF ToSpare, FromSpare, OthersKeep, PushesSpare, TakesSpare
<1>2. /\ IsFiniteSet(InSpare)
      /\ spare_count = Cardinality(InSpare) + Cardinality(ToSpare) + Cardinality(FromSpare)
      /\ spare_count \in 0..SpareCapacity
  BY DEF SpareAccount, TypeOK
<1>3. /\ Cardinality(InSpare) \in Nat /\ Cardinality(ToSpare) \in Nat
      /\ Cardinality(FromSpare) \in Nat /\ SpareCapacity \in Nat
  BY <1>1, <1>2, FS_CardinalityType, SparesAreSegments DEF SpareCapacity
<1>4. /\ (PushesSpare(t) <=> PushesSpare(t)') => Cardinality(ToSpare') = Cardinality(ToSpare)
      /\ ~PushesSpare(t) /\ PushesSpare(t)' => Cardinality(ToSpare') = Cardinality(ToSpare) + 1
      /\ PushesSpare(t) /\ ~PushesSpare(t)' => Cardinality(ToSpare') = Cardinality(ToSpare) - 1
  BY <1>1, MoveOne
<1>5. /\ (TakesSpare(t) <=> TakesSpare(t)') => Cardinality(FromSpare') = Cardinality(FromSpare)
      /\ ~TakesSpare(t) /\ TakesSpare(t)' => Cardinality(FromSpare') = Cardinality(FromSpare) + 1
      /\ TakesSpare(t) /\ ~TakesSpare(t)' => Cardinality(FromSpare') = Cardinality(FromSpare) - 1
  BY <1>1, MoveOne
<1>6. IsFiniteSet(FromSpare') /\ Cardinality(FromSpare') \in Nat
  BY <1>1, MoveOne, FS_CardinalityType
<1>7. /\ IsFiniteSet(InSpare')
      /\ InSpare' = InSpare => Cardinality(InSpare') = Cardinality(InSpare)
      /\ seg[t] \notin InSpare /\ InSpare' = InSpare \cup {seg[t]}
           => Cardinality(InSpare') = Cardinality(InSpare) + 1
      /\ seg'[t] \in InSpare /\ InSpare' = InSpare \ {seg'[t]}
           => Cardinality(InSpare') = Cardinality(InSpare) - 1
  BY <1>2, FS_AddElement, FS_RemoveElement DEF SpareMoves
<1>8. /\ spare_count' = Cardinality(InSpare') + Cardinality(ToSpare') + Cardinality(FromSpare')
      /\ spare_count' \in 0..SpareCapacity
  BY <1>2, <1>3, <1>4, <1>5, <1>6, <1>7 DEF SpareMoves
<1>9. \A u \in Threads : pc'[u] = "spare_dec" => route'[u] = "spare"
  BY DEF SpareAccount, OthersKeep, RouteKept
<1>10. QED BY <1>7, <1>8, <1>9 DEF SpareAccount

-----------------------------------------------------------------------------
(* The theorems.                                                           *)

\* from_builder leaves every segment Free, unpinned and on one queue.
LEMMA InitInv == Init => IInv
<1> SUFFICES ASSUME Init PROVE IInv
  OBVIOUS
<1> USE DEF Init
<1>1. SpareCapacity \in Nat /\ SpareSegments \subseteq Segments
  BY SparesAreSegments, FS_CardinalityType DEF SpareCapacity
<1>2. TypeOK
  BY <1>1, Sizes DEF TypeOK, States, Pcs, Routes
<1>3. CountersExact
  <2>1. \A s : /\ Holders(RefPcs, s) = {} /\ Holders(WPinPcs, s) = {}
               /\ Holders(RPinPcs, s) = {}
    BY DEF Holders, RefPcs, WPinPcs, RPinPcs
  <2>2. QED BY <2>1, FS_EmptySet DEF CountersExact
<1>4. \A t \in Threads : pc[t] = "idle"
  OBVIOUS
<1>5. OwnedState
  BY <1>4 DEF OwnedState, FreePcs, ReturnPcs, DrainPcs
<1>6. OnePlace /\ Accounted
  BY <1>4 DEF OnePlace, Accounted, Queued, Owns, OwnerPcs, ReservePcs, DrainPcs, ReturnPcs
<1>7. ResetDone
  BY <1>4 DEF ResetDone, ReturnPcs
<1>8. GenerationLag
  BY <1>4 DEF GenerationLag, FreePcs, ReturnPcs
<1>9. DrainWaits
  BY <1>4 DEF DrainWaits, PinnedWriterPcs, WritersGonePcs, RemoversGonePcs, DrainPcs
<1>10. Handoff
  BY DEF Handoff
<1>11. SpareAccount
  <2>1. InSpare = SpareSegments /\ ToSpare = {} /\ FromSpare = {}
    BY <1>1, <1>4 DEF InSpare, ToSpare, FromSpare
  <2>2. QED BY <1>1, <1>4, <2>1, SparesAreSegments, FS_EmptySet DEF SpareAccount, SpareCapacity
<1>12. QED BY <1>2, <1>3, <1>5, <1>6, <1>7, <1>8, <1>9, <1>10, <1>11 DEF IInv

\* Every step of every thread keeps the invariant.
LEMMA NextInv == IInv /\ [Next]_vars => IInv'
<1> SUFFICES ASSUME IInv, [Next]_vars PROVE IInv'
  OBVIOUS
<1>1. ASSUME NEW t \in Threads, Begin(t) \/ Step(t) \/ Choice(t)
      PROVE  IInv'
  <2>1. /\ TypeOK /\ CountersExact /\ OwnedState /\ OnePlace /\ Accounted /\ ResetDone
        /\ GenerationLag /\ DrainWaits /\ Handoff /\ SpareAccount
    BY DEF IInv
  <2>2. OthersKeep(t)
    BY <1>1, <2>1, OthersKeepStep
  <2>3. CountersExact'
    BY <1>1, <2>1, <2>2, CountersMoveStep, CountersExactStep
  <2>4. OwnedState' /\ OnePlace'
    BY <1>1, <2>1, OwnedStateStep, OnePlaceStep
  <2>5. Accounted'
    BY <1>1, <2>1, <2>2, PlaceKeptStep, AccountedStep
  <2>6. ResetDone' /\ GenerationLag' /\ DrainWaits'
    BY <1>1, <2>1, ResetDoneStep, GenerationLagStep, DrainWaitsStep
  <2>7. Handoff'
    BY <1>1, <2>1, <2>2, HandoffKeptStep, HandoffStep
  <2>8. SpareAccount' /\ spare_count' \in 0..SpareCapacity
    BY <1>1, <2>1, <2>2, SpareMovesStep, SpareAccountStep
  <2>9. TypeOK'
    <3>1. LocalTyped' /\ HeaderTyped' /\ PinsTyped' /\ QueuesTyped'
      BY <1>1, <2>1, LocalTypedStep, HeaderTypedStep, PinsTypedStep, QueuesTypedStep
    <3>2. \A s \in Segments : /\ ref_count'[s] \in Nat
                              /\ active_writers'[s] \in Nat
                              /\ active_removers'[s] \in Nat
      <4>1. \A s : /\ Cardinality(Holders(RefPcs, s)') \in Nat
                   /\ Cardinality(Holders(WPinPcs, s)') \in Nat
                   /\ Cardinality(Holders(RPinPcs, s)') \in Nat
        BY FS_Subset, FS_CardinalityType, ThreadsFinite DEF Holders
      <4>2. QED BY <2>3, <4>1 DEF CountersExact, RefPcs, WPinPcs, RPinPcs
    <3>3. /\ ref_count' \in [Segments -> Nat]
          /\ active_writers' \in [Segments -> Nat]
          /\ active_removers' \in [Segments -> Nat]
      BY <3>1, <3>2 DEF PinsTyped
    <3>4. QED BY <2>8, <3>1, <3>3 DEF TypeOK, LocalTyped, HeaderTyped, QueuesTyped
  <2>10. QED BY <2>3, <2>4, <2>5, <2>6, <2>7, <2>8, <2>9 DEF IInv
<1>2. CASE UNCHANGED vars
  <2> USE <1>2 DEF vars, header, pins, queues, local
  <2>1. TypeOK' /\ CountersExact'
    BY DEF IInv, TypeOK, CountersExact, Holders
  <2>2. OwnedState' /\ OnePlace' /\ Accounted'
    BY DEF IInv, OwnedState, OnePlace, Accounted, Queued, Owns
  <2>3. ResetDone' /\ GenerationLag' /\ DrainWaits'
    BY DEF IInv, ResetDone, GenerationLag, DrainWaits, Queued
  <2>4. Handoff'
    BY DEF IInv, Handoff
  <2>5. SpareAccount'
    BY DEF IInv, SpareAccount, InSpare, ToSpare, FromSpare
  <2>6. QED BY <2>1, <2>2, <2>3, <2>4, <2>5 DEF IInv
<1>3. QED BY <1>1, <1>2 DEF Next

\* The inductive invariant holds in every reachable state, for any number of
\* threads and segments and without a bound on generations.
THEOREM InvHolds == Spec => []IInv
<1>1. Init => IInv
  BY InitInv
<1>2. IInv /\ [Next]_vars => IInv'
  BY NextInv
<1>3. QED BY <1>1, <1>2, PTL DEF Spec

\* The counters never wrap below zero, spare_count stays within the capacity
\* return_segment checks it against, and try_reserve_space never hands out more
\* than a segment holds.
THEOREM TypeCorrect == Spec => []TypeOK
<1>1. IInv => TypeOK
  BY DEF IInv
<1>2. QED BY <1>1, InvHolds, PTL

\* Whatever the races of recycle, guard drops, acquire backouts and condemners,
\* a segment is queued once or owned once, and a queued one is Free and empty.
THEOREM OneFree == Spec => []ExactlyOneFree
<1>1. IInv => ExactlyOneFree
  BY DEF IInv, OnePlace, ResetDone, ExactlyOneFree
<1>2. QED BY <1>1, InvHolds, PTL

\* No segment leaks: every one outside the chains has a place, and a condemned
\* one keeps a reader or a thread that will free it.
THEOREM NoneLost == Spec => []NoSegmentLost
<1>1. IInv => NoSegmentLost
  BY DEF IInv, Accounted, OffChain, Handoff, NoSegmentLost
<1>2. QED BY <1>1, InvHolds, PTL

\* One generation bump for each drain, visible before the segment's next life.
THEOREM GenerationExact == Spec => []GenerationCountsUses
<1>1. IInv => GenerationCountsUses
  BY DEF IInv, GenerationLag, GenerationCountsUses
<1>2. QED BY <1>1, InvHolds, PTL

\* A drain works on a segment alone, except for its readers.
THEOREM DrainExclusive == Spec => []DrainIsExclusive
<1>1. IInv => DrainIsExclusive
  BY DEF IInv, DrainWaits, DrainIsExclusive, WritersGonePcs, RemoversGonePcs,
         PinnedWriterPcs, DrainPcs
<1>2. QED BY <1>1, InvHolds, PTL

\* A reserver publishes a location of the life its segment is still in.
THEOREM PublishCurrent == Spec => []PublishedGenerationCurrent
<1>1. IInv => PublishedGenerationCurrent
  BY DEF IInv, DrainWaits, PublishedGenerationCurrent, PinnedWriterPcs
<1>2. QED BY <1>1, InvHolds, PTL

\* The spare queue never holds more ids than it was built for.
THEOREM SparesExact == Spec => []SpareCountExact
<1>1. IInv => SpareCountExact
  BY DEF IInv, SpareAccount, InSpare, ToSpare, FromSpare, SpareCountExact
<1>2. QED BY <1>1, InvHolds, PTL

-----------------------------------------------------------------------------
(***************************************************************************)
(* A reader's pin, under the condition the code leaves to scheduling: no   *)
(* thread is stalled between the decrement that took ref_count to zero and *)
(* the load of try_release_condemned while another reader pins the segment.*)
(***************************************************************************)

\* Stamps of generations less than TagMod apart differ.
LEMMA ModUnique ==
  ASSUME NEW m \in Nat \ {0}, NEW a \in Nat, NEW b \in Nat,
         a % m = b % m, b <= a, a - b < m
  PROVE  a = b
<1>1. ASSUME NEW c \in Nat PROVE \E p \in Int : c = m * p + (c % m)
  <2>1. ASSUME NEW p, p = c \div m, NEW r, r = c % m PROVE c = m * p + r /\ p \in Int
    BY <2>1
  <2>2. QED BY <2>1
<1>2. PICK p \in Int : a = m * p + (a % m)
  BY <1>1
<1>3. PICK q \in Int : b = m * q + (b % m)
  BY <1>1
<1>4. ASSUME NEW r \in Int, r = a % m PROVE p = q
  <2>1. a = m * p + r /\ b = m * q + r
    BY <1>2, <1>3, <1>4
  <2>2. a - b = m * (p - q)
    BY <2>1
  <2>3. \A k \in Int : (k >= 1 => m * k >= m) /\ (k <= -1 => m * k <= -m)
    OBVIOUS
  <2>4. p - q = 0
    <3>1. p - q \in Int
      OBVIOUS
    <3>2. QED BY <2>2, <2>3, <3>1
  <2>5. QED BY <2>4
<1>5. QED BY <1>2, <1>3, <1>4

\* A token held across the release CAS is the stamp of the generation it was
\* loaded at, and that generation is within the stamp's window.
LEMMA TokenFreshStep ==
  ASSUME TypeOK, OwnedState, GenerationLag, TokenFresh,
         NEW t \in Threads, Begin(t) \/ Step(t) \/ Choice(t)
  PROVE  TokenFresh'
<1>0. /\ state \in [Segments -> States]
      /\ pc \in [Threads -> Pcs]
      /\ seg \in [Threads -> Segments \cup {NoSegment}]
      /\ \A u \in Threads : pc[u] # "idle" => seg[u] \in Segments
      /\ generation \in [Segments -> Nat]
      /\ tag \in [Segments -> Nat]
      /\ uses \in [Segments -> Nat]
      /\ seen \in [Threads -> Nat]
      /\ token \in [Threads -> Nat]
  BY DEF TypeOK
<1> USE <1>0, NoSegmentIsNone DEF OwnedState, GenerationLag, TokenFresh, FreePcs, ReturnPcs, DrainPcs
<1>1. ASSUME NEW s \in Segments, NEW g \in 0..generation[s], AcquireCheck(t, s, g)
       PROVE  TokenFresh'
  BY <1>1 DEF AcquireCheck, Start, header, pins, queues
<1>2. ASSUME NEW s \in Segments, PinWriterCheck(t, s)
       PROVE  TokenFresh'
  BY <1>2 DEF PinWriterCheck, Start, header, pins, queues
<1>3. ASSUME NEW s \in Segments, PinRemoverCheck(t, s)
       PROVE  TokenFresh'
  BY <1>3 DEF PinRemoverCheck, Start, header, pins, queues
<1>4. ASSUME NEW s \in Segments, ClaimForDrain(t, s)
       PROVE  TokenFresh'
  BY <1>4 DEF ClaimForDrain, Start, pins, queues
<1>5. ASSUME NEW s \in Segments, NEW r \in {"expand", "dest"}, StealFree(t, s, r)
       PROVE  TokenFresh'
  BY <1>5 DEF StealFree, Start, header, pins
<1>6. ASSUME NEW s \in Segments, StealSpare(t, s)
       PROVE  TokenFresh'
  BY <1>6 DEF StealSpare, Start, header, pins
<1>7. CASE AcquireIncrement(t)
  BY <1>7 DEF AcquireIncrement, Go, header, queues
<1>8. CASE AcquireRecheck(t)
  BY <1>8 DEF AcquireRecheck, Go, header, pins, queues
<1>9. CASE TagCheck(t)
  BY <1>9 DEF TagCheck, Go, GoSee, header, pins, queues
<1>10. CASE AcquireBackout(t)
  <2>1. CASE ref_count[seg[t]] = 1
    BY <1>10, <2>1 DEF AcquireBackout, ReleaseReader, GoVia, header
  <2>2. CASE ref_count[seg[t]] # 1
    <3>1. pc[t] = "backout" /\ Finish(t) /\ UNCHANGED <<header, queues, uses>>
      BY <1>10, <2>2 DEF AcquireBackout, ReleaseReader
    <3>2. QED BY <3>1 DEF Finish, header
  <2>3. QED BY <2>1, <2>2
<1>11. CASE GuardDrop(t)
  <2>1. CASE ref_count[seg[t]] = 1
    BY <1>11, <2>1 DEF GuardDrop, ReleaseReader, GoVia, header
  <2>2. CASE ref_count[seg[t]] # 1
    <3>1. pc[t] \in {"reading", "mismatch"} /\ Finish(t) /\ UNCHANGED <<header, queues, uses>>
      BY <1>11, <2>2 DEF GuardDrop, ReleaseReader
    <3>2. QED BY <3>1 DEF Finish, header
  <2>3. QED BY <2>1, <2>2
<1>12. CASE ReleaseLoad(t)
  BY <1>12, Sizes DEF ReleaseLoad, Finish, header, pins, queues
<1>13. CASE ReleaseCas(t)
  <2>1. CASE state[seg[t]] = "AwaitingRelease" /\ tag[seg[t]] = token[t]
    BY <1>13, <2>1 DEF ReleaseCas, Go
  <2>2. CASE ~(state[seg[t]] = "AwaitingRelease" /\ tag[seg[t]] = token[t])
    <3>1. pc[t] = "rel_cas" /\ Finish(t) /\ UNCHANGED <<header, pins, queues, uses>>
      BY <1>13, <2>2 DEF ReleaseCas
    <3>2. QED BY <2>2, <3>1 DEF Finish, header
  <2>3. QED BY <2>1, <2>2
<1>14. CASE BumpGeneration(t)
  BY <1>14, Sizes DEF BumpGeneration, Go, pins, queues, TokensInWindow
<1>15. CASE ResetWriteStats(t)
  BY <1>15 DEF ResetWriteStats, Go, pins, queues
<1>16. CASE ReturnSegment(t)
  BY <1>16 DEF ReturnSegment, Go, header, pins
<1>17. CASE PushFreed(t)
  BY <1>17 DEF PushFreed, Finish, header, pins
<1>18. CASE PushSpare(t)
  BY <1>18 DEF PushSpare, Finish, header, pins
<1>19. CASE PinWriterIncrement(t)
  BY <1>19 DEF PinWriterIncrement, Go, header, queues
<1>20. CASE PinWriterRecheck(t)
  BY <1>20 DEF PinWriterRecheck, Go, header, pins, queues
<1>21. CASE AllocItem(t)
  BY <1>21 DEF AllocItem, Go, GoSee, pins, queues
<1>22. CASE DefineAndPublish(t)
  BY <1>22 DEF DefineAndPublish, Go, header, pins, queues
<1>23. CASE ReleaseWriter(t)
  BY <1>23 DEF ReleaseWriter, Finish, header, queues
<1>24. CASE PinRemoverIncrement(t)
  BY <1>24 DEF PinRemoverIncrement, Go, header, queues
<1>25. CASE PinRemoverRecheck(t)
  BY <1>25 DEF PinRemoverRecheck, Go, header, pins, queues
<1>26. CASE ReleaseRemover(t)
  BY <1>26 DEF ReleaseRemover, Finish, header, queues
<1>27. CASE WaitWriters(t)
  BY <1>27 DEF WaitWriters, Go, header, pins, queues
<1>28. CASE WaitRemovers(t)
  BY <1>28 DEF WaitRemovers, Go, header, pins, queues
<1>29. CASE ClearSegment(t)
  BY <1>29 DEF ClearSegment, Go, pins, queues
<1>30. CASE CheckRefs(t)
  BY <1>30 DEF CheckRefs, Go, GoVia, header, pins, queues
<1>31. CASE RecycleReset(t)
  BY <1>31 DEF RecycleReset, Go, pins, queues
<1>32. CASE ReleaseDrained(t)
  BY <1>32 DEF ReleaseDrained, Go, SetState, pins, queues
<1>33. CASE Condemn(t)
  BY <1>33 DEF Condemn, Go, SetState, pins, queues
<1>34. CASE CondemnRecheck(t)
  BY <1>34 DEF CondemnRecheck, GoVia, Finish, header, pins, queues
<1>35. CASE TryReserve(t)
  BY <1>35 DEF TryReserve, Go, Finish, header, pins
<1>36. CASE SpareTaken(t)
  BY <1>36 DEF SpareTaken, GoVia, header, pins
<1>37. CASE LinkSegment(t)
  BY <1>37 DEF LinkSegment, Go, SetState, pins, queues
<1>38. CASE PublishTail(t)
  BY <1>38 DEF PublishTail, Finish, SetState, pins, queues
<1>39. CASE PublishDest(t)
  BY <1>39 DEF PublishDest, Go, SetState, pins, queues
<1>40. CASE PublishDestSealed(t)
  BY <1>40 DEF PublishDestSealed, Finish, SetState, pins, queues
<1>41. CASE ReleaseUnused(t)
  BY <1>41 DEF ReleaseUnused, Go, SetState, pins, queues
<1>42. ASSUME NEW tail \in Segments, SealTail(t, tail)
       PROVE  TokenFresh'
  BY <1>42 DEF SealTail, Go, SetState, pins, queues
<1>43. CASE CopyIntoDest(t)
  BY <1>43 DEF CopyIntoDest, pins, queues, local
<1> HIDE <1>0 DEF OwnedState, GenerationLag, TokenFresh, FreePcs, ReturnPcs, DrainPcs
<1>44. QED
  BY <1>1, <1>2, <1>3, <1>4, <1>5, <1>6, <1>7, <1>8, <1>9, <1>10, <1>11,
     <1>12, <1>13, <1>14, <1>15, <1>16, <1>17, <1>18, <1>19, <1>20, <1>21,
     <1>22, <1>23, <1>24, <1>25, <1>26, <1>27, <1>28, <1>29, <1>30, <1>31,
     <1>32, <1>33, <1>34, <1>35, <1>36, <1>37, <1>38, <1>39, <1>40, <1>41,
     <1>42, <1>43
     DEF Begin, Step, Choice, ReaderStep, ReleaseStep, ReturnStep,
         WriterStep, RemoverStep, DrainStep, ReserveStep

\* No step takes a pinned segment away from its reader.
LEMMA PinHoldsStep ==
  ASSUME TypeOK, CountersExact, OwnedState, TokenFresh, PinHolds, NoDelayedRelease,
         NEW t \in Threads, Begin(t) \/ Step(t) \/ Choice(t)
  PROVE  PinHolds'
<1>0. /\ state \in [Segments -> States]
      /\ pc \in [Threads -> Pcs]
      /\ seg \in [Threads -> Segments \cup {NoSegment}]
      /\ \A u \in Threads : pc[u] # "idle" => seg[u] \in Segments
      /\ generation \in [Segments -> Nat]
      /\ seen \in [Threads -> Nat]
  BY DEF TypeOK
<1> USE <1>0, NoSegmentIsNone DEF OwnedState, PinHolds, Pinned, Readable, FreePcs, ReturnPcs, DrainPcs
<1>1. ASSUME NEW s \in Segments, NEW g \in 0..generation[s], AcquireCheck(t, s, g)
       PROVE  PinHolds'
  BY <1>1 DEF AcquireCheck, Start, header, pins, queues
<1>2. ASSUME NEW s \in Segments, PinWriterCheck(t, s)
       PROVE  PinHolds'
  BY <1>2 DEF PinWriterCheck, Start, header, pins, queues
<1>3. ASSUME NEW s \in Segments, PinRemoverCheck(t, s)
       PROVE  PinHolds'
  BY <1>3 DEF PinRemoverCheck, Start, header, pins, queues
<1>4. ASSUME NEW s \in Segments, ClaimForDrain(t, s)
       PROVE  PinHolds'
  BY <1>4 DEF ClaimForDrain, Start, pins, queues
<1>5. ASSUME NEW s \in Segments, NEW r \in {"expand", "dest"}, StealFree(t, s, r)
       PROVE  PinHolds'
  BY <1>5 DEF StealFree, Start, header, pins
<1>6. ASSUME NEW s \in Segments, StealSpare(t, s)
       PROVE  PinHolds'
  BY <1>6 DEF StealSpare, Start, header, pins
<1>7. CASE AcquireIncrement(t)
  BY <1>7 DEF AcquireIncrement, Go, header, queues
<1>8. CASE AcquireRecheck(t)
  BY <1>8 DEF AcquireRecheck, Go, header, pins, queues
<1>9. CASE TagCheck(t)
  BY <1>9 DEF TagCheck, Go, GoSee, header, pins, queues
<1>10. CASE AcquireBackout(t)
  <2>1. CASE ref_count[seg[t]] = 1
    BY <1>10, <2>1 DEF AcquireBackout, ReleaseReader, GoVia, header
  <2>2. CASE ref_count[seg[t]] # 1
    <3>1. pc[t] = "backout" /\ Finish(t) /\ UNCHANGED <<header, queues, uses>>
      BY <1>10, <2>2 DEF AcquireBackout, ReleaseReader
    <3>2. QED BY <3>1 DEF Finish, header
  <2>3. QED BY <2>1, <2>2
<1>11. CASE GuardDrop(t)
  <2>1. CASE ref_count[seg[t]] = 1
    BY <1>11, <2>1 DEF GuardDrop, ReleaseReader, GoVia, header
  <2>2. CASE ref_count[seg[t]] # 1
    <3>1. pc[t] \in {"reading", "mismatch"} /\ Finish(t) /\ UNCHANGED <<header, queues, uses>>
      BY <1>11, <2>2 DEF GuardDrop, ReleaseReader
    <3>2. QED BY <3>1 DEF Finish, header
  <2>3. QED BY <2>1, <2>2
<1>12. CASE ReleaseLoad(t)
  <2>1. \A u \in Threads : ~Pinned(u, seg[t])
    BY <1>12 DEF ReleaseLoad, NoDelayedRelease
  <2>2. QED BY <1>12, <2>1 DEF ReleaseLoad, Finish, header
<1>13. CASE ReleaseCas(t)
  <2>1. CASE state[seg[t]] = "AwaitingRelease" /\ tag[seg[t]] = token[t]
    <3>1. /\ seen[t] \in Nat /\ generation[seg[t]] \in Nat /\ TagMod \in Nat \ {0}
          /\ generation[seg[t]] % TagMod = seen[t] % TagMod
          /\ seen[t] <= generation[seg[t]] /\ generation[seg[t]] - seen[t] < TagMod
      BY <1>13, <2>1, Sizes DEF ReleaseCas, TokenFresh
    <3>2. seen[t] = generation[seg[t]]
      BY <3>1, ModUnique
    <3>3. \A u \in Threads : ~Pinned(u, seg[t])
      BY <1>13, <2>1, <3>2 DEF ReleaseCas
    <3>4. QED BY <1>13, <2>1, <3>3 DEF ReleaseCas, Go
  <2>2. CASE ~(state[seg[t]] = "AwaitingRelease" /\ tag[seg[t]] = token[t])
    <3>1. pc[t] = "rel_cas" /\ Finish(t) /\ UNCHANGED <<header, pins, queues, uses>>
      BY <1>13, <2>2 DEF ReleaseCas
    <3>2. QED BY <3>1 DEF Finish, header
  <2>3. QED BY <2>1, <2>2
<1>14. CASE BumpGeneration(t)
  BY <1>14 DEF BumpGeneration, Go, pins, queues
<1>15. CASE ResetWriteStats(t)
  BY <1>15 DEF ResetWriteStats, Go, pins, queues
<1>16. CASE ReturnSegment(t)
  BY <1>16 DEF ReturnSegment, Go, header, pins
<1>17. CASE PushFreed(t)
  BY <1>17 DEF PushFreed, Finish, header, pins
<1>18. CASE PushSpare(t)
  BY <1>18 DEF PushSpare, Finish, header, pins
<1>19. CASE PinWriterIncrement(t)
  BY <1>19 DEF PinWriterIncrement, Go, header, queues
<1>20. CASE PinWriterRecheck(t)
  BY <1>20 DEF PinWriterRecheck, Go, header, pins, queues
<1>21. CASE AllocItem(t)
  BY <1>21 DEF AllocItem, Go, GoSee, pins, queues
<1>22. CASE DefineAndPublish(t)
  BY <1>22 DEF DefineAndPublish, Go, header, pins, queues
<1>23. CASE ReleaseWriter(t)
  BY <1>23 DEF ReleaseWriter, Finish, header, queues
<1>24. CASE PinRemoverIncrement(t)
  BY <1>24 DEF PinRemoverIncrement, Go, header, queues
<1>25. CASE PinRemoverRecheck(t)
  BY <1>25 DEF PinRemoverRecheck, Go, header, pins, queues
<1>26. CASE ReleaseRemover(t)
  BY <1>26 DEF ReleaseRemover, Finish, header, queues
<1>27. CASE WaitWriters(t)
  BY <1>27 DEF WaitWriters, Go, header, pins, queues
<1>28. CASE WaitRemovers(t)
  BY <1>28 DEF WaitRemovers, Go, header, pins, queues
<1>29. CASE ClearSegment(t)
  BY <1>29 DEF ClearSegment, Go, pins, queues
<1>30. CASE CheckRefs(t)
  <2>1. ref_count[seg[t]] = 0 => Holders(RefPcs, seg[t]) = {}
    BY <1>30, NoHolders DEF CheckRefs, CountersExact
  <2>2. ref_count[seg[t]] = 0 => \A u \in Threads : ~Pinned(u, seg[t])
    BY <2>1 DEF Holders, RefPcs
  <2>3. QED BY <1>30, <2>2 DEF CheckRefs, Go, GoVia, header
<1>31. CASE RecycleReset(t)
  BY <1>31 DEF RecycleReset, Go, pins, queues
<1>32. CASE ReleaseDrained(t)
  BY <1>32 DEF ReleaseDrained, Go, SetState, pins, queues
<1>33. CASE Condemn(t)
  BY <1>33 DEF Condemn, Go, SetState, pins, queues, TokenFresh
<1>34. CASE CondemnRecheck(t)
  BY <1>34 DEF CondemnRecheck, GoVia, Finish, header, pins, queues
<1>35. CASE TryReserve(t)
  BY <1>35 DEF TryReserve, Go, Finish, header, pins, Readable
<1>36. CASE SpareTaken(t)
  BY <1>36 DEF SpareTaken, GoVia, header, pins
<1>37. CASE LinkSegment(t)
  BY <1>37 DEF LinkSegment, Go, SetState, pins, queues
<1>38. CASE PublishTail(t)
  BY <1>38 DEF PublishTail, Finish, SetState, pins, queues
<1>39. CASE PublishDest(t)
  BY <1>39 DEF PublishDest, Go, SetState, pins, queues
<1>40. CASE PublishDestSealed(t)
  BY <1>40 DEF PublishDestSealed, Finish, SetState, pins, queues
<1>41. CASE ReleaseUnused(t)
  BY <1>41 DEF ReleaseUnused, Go, SetState, pins, queues
<1>42. ASSUME NEW tail \in Segments, SealTail(t, tail)
       PROVE  PinHolds'
  BY <1>42 DEF SealTail, Go, SetState, pins, queues
<1>43. CASE CopyIntoDest(t)
  BY <1>43 DEF CopyIntoDest, pins, queues, local
<1> HIDE <1>0 DEF OwnedState, PinHolds, Pinned, Readable, FreePcs, ReturnPcs, DrainPcs
<1>44. QED
  BY <1>1, <1>2, <1>3, <1>4, <1>5, <1>6, <1>7, <1>8, <1>9, <1>10, <1>11,
     <1>12, <1>13, <1>14, <1>15, <1>16, <1>17, <1>18, <1>19, <1>20, <1>21,
     <1>22, <1>23, <1>24, <1>25, <1>26, <1>27, <1>28, <1>29, <1>30, <1>31,
     <1>32, <1>33, <1>34, <1>35, <1>36, <1>37, <1>38, <1>39, <1>40, <1>41,
     <1>42, <1>43
     DEF Begin, Step, Choice, ReaderStep, ReleaseStep, ReturnStep,
         WriterStep, RemoverStep, DrainStep, ReserveStep

\* Every step keeps the readers' invariant.
LEMMA PinInvNext == PinInv /\ NoDelayedRelease /\ [Next]_vars => PinInv'
<1> SUFFICES ASSUME PinInv, NoDelayedRelease, [Next]_vars PROVE PinInv'
  OBVIOUS
<1>1. IInv'
  BY NextInv DEF PinInv
<1>2. ASSUME NEW t \in Threads, Begin(t) \/ Step(t) \/ Choice(t)
      PROVE  TokenFresh' /\ PinHolds'
  <2>1. TypeOK /\ CountersExact /\ OwnedState /\ GenerationLag /\ TokenFresh /\ PinHolds
    BY DEF PinInv, IInv
  <2>2. QED BY <1>2, <2>1, TokenFreshStep, PinHoldsStep
<1>3. CASE UNCHANGED vars
  <2>1. TokenFresh'
    BY <1>3 DEF vars, header, local, PinInv, TokenFresh
  <2>2. PinHolds'
    BY <1>3 DEF vars, header, local, PinInv, PinHolds, Pinned
  <2>3. QED BY <1>1, <2>1, <2>2 DEF PinInv
<1>4. QED BY <1>1, <1>2, <1>3 DEF Next, PinInv

\* What try_acquire_reader promises holds in every behaviour in which no release
\* is delayed past the arrival of another reader: the segment under a pin is not
\* recycled and keeps the generation its reader matched.
THEOREM PinSafe == Spec => PinSafety
<1>1. Init => PinInv
  <2>1. Init => IInv
    BY InitInv
  <2>2. Init => TokenFresh /\ PinHolds
    BY DEF Init, TokenFresh, PinHolds, Pinned
  <2>3. QED BY <2>1, <2>2 DEF PinInv
<1>2. PinInv /\ NoDelayedRelease /\ [Next]_vars => PinInv'
  BY PinInvNext
<1>3. PinInv => PinnedSegmentNotReused
  BY DEF PinInv, IInv, TypeOK, PinHolds, Pinned, PinnedSegmentNotReused
<1>4. QED BY <1>1, <1>2, <1>3, PTL DEF Spec, PinSafety
=============================================================================
