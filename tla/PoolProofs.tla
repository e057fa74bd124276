----------------------------- MODULE PoolProofs -----------------------------
(***************************************************************************)
(* AdmissionPool for any number of segments and threads: the unlocked      *)
(* counter is the number of labelled segments, up to those in transit, and *)
(* never underflows; a segment enters service labelled Main.  The loop of  *)
(* reserve_and_define takes only such steps, and its wait for running      *)
(* evictions waits for no more of them than there are.  The last part is   *)
(* about the ghost queue that names the pool of an insert: its set never   *)
(* outgrows its capacity and never holds a hash the queue has lost.        *)
(***************************************************************************)
EXTENDS ReserveLoop, GhostQueue, FiniteSetTheorems, WellFoundedInduction, TLAPS

DrainPcs == {"wait"} \cup LeavePcs

\* Where threads and segments are, and what that says about the labels.
Places ==
  \A t \in Threads :
    /\ pc[t] \in InsertPcs => seg[t] \in Segments /\ service[seg[t]] \in {"Linked", "Draining"}
    /\ pc[t] \in DrainPcs => seg[t] \in Segments /\ service[seg[t]] = "Draining"
    /\ pc[t] \in {"count", "uncount"} => pool[seg[t]] = "Admission"
    /\ pc[t] = "release" => pool[seg[t]] = "Main"

\* Two drains are never at one segment, nor two counting inserts; and a drain past
\* its wait shares its segment with no pinned insert.
Apart ==
  \A t, u \in Threads : t # u /\ seg[t] = seg[u] =>
    /\ ~(pc[t] \in DrainPcs /\ pc[u] \in DrainPcs)
    /\ ~(pc[t] = "count" /\ pc[u] = "count")
    /\ ~(pc[t] \in LeavePcs /\ pc[u] \in InsertPcs)

Shape == TypeOK /\ Places /\ Apart /\ FreshIsMain

PoolInv == Shape /\ PoolCountExact

Counted == Labelled \ InTransit

-----------------------------------------------------------------------------
\* No segment is labelled, no thread under way.
LEMMA InitPoolInv == Init => PoolInv
<1> SUFFICES ASSUME Init PROVE PoolInv
  OBVIOUS
<1>1. TypeOK
  BY PoolConstants DEF Init, TypeOK, Pools, Services, Pcs
<1>2. Places /\ Apart /\ FreshIsMain
  BY DEF Init, Places, Apart, FreshIsMain, InsertPcs, DrainPcs, LeavePcs
<1>3. Labelled \ InTransit = {}
  BY DEF Init, Labelled
<1>4. PoolCountExact
  BY <1>3, FS_EmptySet DEF Init, PoolCountExact
<1> QED
  BY <1>1, <1>2, <1>4 DEF PoolInv, Shape

-----------------------------------------------------------------------------
\* Every step of a thread moves that thread alone, and keeps the labels of the
\* segments other threads are at as they need them.
LEMMA NextShape == Shape /\ [Next]_vars => Shape'
<1> SUFFICES ASSUME Shape, [Next]_vars PROVE Shape'
  OBVIOUS
<1> USE DEF Shape, TypeOK, Places, Apart, FreshIsMain, Go, Finish, Pools, Services, Pcs,
            InsertPcs, LeavePcs, DrainPcs
<1>1. ASSUME NEW t \in Threads, NEW p \in Pools, Route(t, p) PROVE Shape'
  BY <1>1 DEF Route
<1>2. ASSUME NEW t \in Threads, NEW s \in Segments, Reserve(t, s) PROVE Shape'
  BY <1>2 DEF Reserve
<1>3. ASSUME NEW t \in Threads, ReserveFailed(t) PROVE Shape'
  BY <1>3, PoolConstants DEF ReserveFailed
<1>4. ASSUME NEW t \in Threads, Label(t) PROVE Shape'
  BY <1>4 DEF Label
<1>5. ASSUME NEW t \in Threads, Count(t) PROVE Shape'
  BY <1>5 DEF Count
<1>6. ASSUME NEW t \in Threads, Unpin(t) PROVE Shape'
  BY <1>6 DEF Unpin
<1>7. ASSUME NEW s \in Segments, Expand(s) PROVE Shape'
  BY <1>7 DEF Expand
<1>8. ASSUME NEW s \in Segments, LinkDest(s) PROVE Shape'
  BY <1>8 DEF LinkDest
<1>9. ASSUME NEW s \in Segments, CondemnedFreed(s) PROVE Shape'
  BY <1>9 DEF CondemnedFreed
<1>10. ASSUME NEW t \in Threads, BeginDrain(t) PROVE Shape'
  BY <1>10 DEF BeginDrain
<1>11. ASSUME NEW t \in Threads, NEW s \in Segments, Claim(t, s) PROVE Shape'
  BY <1>11 DEF Claim
<1>12. ASSUME NEW t \in Threads, EvictDone(t) PROVE Shape'
  BY <1>12 DEF EvictDone
<1>13. ASSUME NEW t \in Threads, WaitWriters(t) PROVE Shape'
  BY <1>13 DEF WaitWriters, Writers
<1>14. ASSUME NEW t \in Threads, ReadLabel(t) PROVE Shape'
  BY <1>14 DEF ReadLabel
<1>15. ASSUME NEW t \in Threads, Uncount(t) PROVE Shape'
  BY <1>15 DEF Uncount
<1>16. ASSUME NEW t \in Threads, ResetPool(t) PROVE Shape'
  BY <1>16 DEF ResetPool
<1>17. ASSUME NEW t \in Threads, Leave(t) PROVE Shape'
  BY <1>17 DEF Leave
<1>18. CASE UNCHANGED vars
  BY <1>18 DEF vars
<1> QED
  BY <1>1, <1>2, <1>3, <1>4, <1>5, <1>6, <1>7, <1>8, <1>9, <1>10, <1>11, <1>12, <1>13,
     <1>14, <1>15, <1>16, <1>17, <1>18 DEF Next, InsertStep, DrainStep

-----------------------------------------------------------------------------
\* Counted is finite and its cardinality moves by one with an element.
LEMMA CountedStep ==
  ASSUME NEW S \in SUBSET Segments, NEW s \in Segments
  PROVE  /\ IsFiniteSet(S) /\ Cardinality(S) \in Nat
         /\ s \notin S => Cardinality(S \cup {s}) = Cardinality(S) + 1
         /\ s \in S => Cardinality(S \ {s}) = Cardinality(S) - 1 /\ Cardinality(S) > 0
<1>1. IsFiniteSet(S)
  BY FS_Subset, PoolConstants
<1>2. Cardinality(S) \in Nat
  BY <1>1, FS_CardinalityType
<1>3. s \in S => Cardinality(S) # 0
  BY <1>1, FS_EmptySet
<1>4. s \notin S => Cardinality(S \cup {s}) = Cardinality(S) + 1
  BY <1>1, FS_AddElement
<1>5. s \in S => Cardinality(S \ {s}) = Cardinality(S) - 1
  BY <1>1, FS_RemoveElement
<1> QED
  BY <1>1, <1>2, <1>3, <1>4, <1>5

\* A step that changes no label and moves no thread into or out of a transit leaves
\* the counted segments alone.
LEMMA CountedSame ==
  ASSUME Shape, UNCHANGED pool,
         \A t \in Threads : \/ UNCHANGED <<pc[t], seg[t]>>
                            \/ /\ pc[t] \notin {"count", "reset"}
                               /\ \/ pc[t]' \notin {"count", "reset"}
                                  \/ seg[t] \in Segments /\ seg[t]' = seg[t] /\ pool[seg[t]] = "Main"
  PROVE  Counted' = Counted
<1>1. Labelled' = Labelled
  BY DEF Labelled
<1>2. InTransit' = InTransit
  BY DEF InTransit
<1> QED
  BY <1>1, <1>2 DEF Counted

\* The count follows the counted segments through every step.
LEMMA NextCount == PoolInv /\ [Next]_vars => PoolCountExact'
<1> SUFFICES ASSUME PoolInv, [Next]_vars PROVE PoolCountExact'
  OBVIOUS
<1>a. Shape /\ Shape' /\ admission_count = Cardinality(Counted)
  BY NextShape DEF PoolInv, PoolCountExact, Counted
<1>b. ASSUME Counted' = Counted, UNCHANGED admission_count PROVE PoolCountExact'
  BY <1>a, <1>b DEF PoolCountExact, Counted
<1>c. Counted \in SUBSET Segments
  BY DEF Counted, Labelled
<1>1. ASSUME NEW t \in Threads, NEW p \in Pools, Route(t, p) PROVE PoolCountExact'
  BY <1>1, <1>a, <1>b, CountedSame DEF Route, Shape, TypeOK
<1>2. ASSUME NEW t \in Threads, NEW s \in Segments, Reserve(t, s) PROVE PoolCountExact'
  BY <1>2, <1>a, <1>b, CountedSame DEF Reserve, Shape, TypeOK
<1>3. ASSUME NEW t \in Threads, ReserveFailed(t) PROVE PoolCountExact'
  BY <1>3, <1>a, <1>b, CountedSame DEF ReserveFailed, Go, Finish, Shape, TypeOK
<1>4. ASSUME NEW t \in Threads, Label(t) PROVE PoolCountExact'
  <2> DEFINE s == seg[t]
  <2>0. s \in Segments
    BY <1>4, <1>a DEF Label, Shape, Places, InsertPcs
  <2>1. CASE pool[s] = "Main"
    <3>1. Labelled' = Labelled \cup {s}
      BY <1>4, <2>0, <2>1, <1>a DEF Label, Labelled, Shape, TypeOK
    <3>2. InTransit' = InTransit \cup {s}
      BY <1>4, <2>0, <2>1, <1>a DEF Label, Go, InTransit, Shape, TypeOK
    <3>3. s \notin Labelled
      BY <2>1 DEF Labelled
    <3>4. Counted' = Counted
      BY <3>1, <3>2, <3>3 DEF Counted
    <3> QED
      BY <3>4, <1>b, <1>4 DEF Label
  <2>2. CASE pool[s] # "Main"
    BY <2>2, <1>4, <1>a, <1>b, CountedSame DEF Label, Go, Shape, TypeOK
  <2> QED
    BY <2>1, <2>2
<1>5. ASSUME NEW t \in Threads, Count(t) PROVE PoolCountExact'
  <2> DEFINE s == seg[t]
  <2>0. s \in Segments /\ pool[s] = "Admission"
    BY <1>5, <1>a DEF Count, Shape, Places, InsertPcs
  <2>1. \A u \in Threads : u # t /\ seg[u] = s => pc[u] \notin {"count", "reset"}
    BY <1>5, <1>a DEF Count, Shape, Apart, LeavePcs, InsertPcs
  <2>2. s \in InTransit /\ s \in Labelled
    BY <1>5, <2>0 DEF Count, InTransit, Labelled
  <2>3. InTransit' = InTransit \ {s}
    BY <1>5, <2>0, <2>1, <1>a DEF Count, Go, InTransit, Shape, TypeOK
  <2>4. Labelled' = Labelled
    BY <1>5 DEF Count, Labelled
  <2>5. Counted' = Counted \cup {s} /\ s \notin Counted
    BY <2>2, <2>3, <2>4 DEF Counted
  <2>6. Cardinality(Counted') = Cardinality(Counted) + 1
    BY <2>0, <2>5, <1>c, CountedStep
  <2> QED
    BY <1>5, <1>a, <2>6 DEF Count, PoolCountExact, Counted
<1>6. ASSUME NEW t \in Threads, Unpin(t) PROVE PoolCountExact'
  BY <1>6, <1>a, <1>b, CountedSame DEF Unpin, Finish, Shape, TypeOK
<1>7. ASSUME NEW s \in Segments, Expand(s) PROVE PoolCountExact'
  BY <1>7, <1>a, <1>b, CountedSame DEF Expand
<1>8. ASSUME NEW s \in Segments, LinkDest(s) PROVE PoolCountExact'
  <2>1. pool' = pool
    BY <1>8, <1>a DEF LinkDest, Shape, FreshIsMain, TypeOK
  <2> QED
    BY <1>8, <2>1, <1>a, <1>b, CountedSame DEF LinkDest
<1>9. ASSUME NEW s \in Segments, CondemnedFreed(s) PROVE PoolCountExact'
  BY <1>9, <1>a, <1>b, CountedSame DEF CondemnedFreed
<1>10. ASSUME NEW t \in Threads, BeginDrain(t) PROVE PoolCountExact'
  BY <1>10, <1>a, <1>b, CountedSame DEF BeginDrain, Go, Shape, TypeOK
<1>11. ASSUME NEW t \in Threads, NEW s \in Segments, Claim(t, s) PROVE PoolCountExact'
  BY <1>11, <1>a, <1>b, CountedSame DEF Claim, Shape, TypeOK
<1>12. ASSUME NEW t \in Threads, EvictDone(t) PROVE PoolCountExact'
  BY <1>12, <1>a, <1>b, CountedSame DEF EvictDone, Go, Finish, Shape, TypeOK
<1>13. ASSUME NEW t \in Threads, WaitWriters(t) PROVE PoolCountExact'
  BY <1>13, <1>a, <1>b, CountedSame DEF WaitWriters, Go, Shape, TypeOK
<1>14. ASSUME NEW t \in Threads, ReadLabel(t) PROVE PoolCountExact'
  <2>1. seg[t] \in Segments
    BY <1>14, <1>a DEF ReadLabel, Shape, Places, DrainPcs, LeavePcs
  <2> QED
    BY <2>1, <1>14, <1>a, <1>b, CountedSame DEF ReadLabel, Go, Shape, TypeOK, Pools
<1>15. ASSUME NEW t \in Threads, Uncount(t) PROVE PoolCountExact'
  <2> DEFINE s == seg[t]
  <2>0. s \in Segments /\ pool[s] = "Admission"
    BY <1>15, <1>a DEF Uncount, Shape, Places, DrainPcs, LeavePcs
  <2>1. \A u \in Threads : u # t /\ seg[u] = s => pc[u] \notin {"count", "reset"}
    BY <1>15, <1>a DEF Uncount, Shape, Apart, LeavePcs, InsertPcs, DrainPcs
  <2>2. s \notin InTransit /\ s \in Labelled
    BY <1>15, <2>0, <2>1 DEF Uncount, InTransit, Labelled
  <2>3. InTransit' = InTransit \cup {s}
    BY <1>15, <2>0, <2>1, <1>a DEF Uncount, Go, InTransit, Shape, TypeOK
  <2>4. Labelled' = Labelled
    BY <1>15 DEF Uncount, Labelled
  <2>5. Counted' = Counted \ {s} /\ s \in Counted
    BY <2>2, <2>3, <2>4 DEF Counted
  <2>6. Cardinality(Counted') = Cardinality(Counted) - 1
    BY <2>0, <2>5, <1>c, CountedStep
  <2> QED
    BY <1>15, <1>a, <2>6 DEF Uncount, PoolCountExact, Counted
<1>16. ASSUME NEW t \in Threads, ResetPool(t) PROVE PoolCountExact'
  <2> DEFINE s == seg[t]
  <2>0. s \in Segments
    BY <1>16, <1>a DEF ResetPool, Shape, Places, DrainPcs, LeavePcs
  <2>1. Labelled' = Labelled \ {s}
    BY <1>16, <2>0, <1>a DEF ResetPool, Labelled, Shape, TypeOK
  <2>2. InTransit' = InTransit \ {s}
    BY <1>16, <2>0, <1>a DEF ResetPool, Go, InTransit, Shape, TypeOK
  <2>3. s \in Labelled => s \in InTransit
    BY <1>16, <2>0 DEF ResetPool, Labelled, InTransit
  <2>4. Counted' = Counted
    BY <2>1, <2>2, <2>3 DEF Counted
  <2> QED
    BY <2>4, <1>b, <1>16 DEF ResetPool
<1>17. ASSUME NEW t \in Threads, Leave(t) PROVE PoolCountExact'
  BY <1>17, <1>a, <1>b, CountedSame DEF Leave, Shape, TypeOK
<1>18. CASE UNCHANGED vars
  BY <1>18, <1>a, <1>b, CountedSame DEF vars
<1> QED
  BY <1>1, <1>2, <1>3, <1>4, <1>5, <1>6, <1>7, <1>8, <1>9, <1>10, <1>11, <1>12, <1>13,
     <1>14, <1>15, <1>16, <1>17, <1>18 DEF Next, InsertStep, DrainStep

-----------------------------------------------------------------------------
\* The invariant of every run of inserts and drains on the pool.
THEOREM PoolInvHolds == Spec => []PoolInv
<1>1. PoolInv /\ [Next]_vars => PoolInv'
  BY NextShape, NextCount DEF PoolInv
<1> QED
  BY InitPoolInv, <1>1, PTL DEF Spec

\* admission_count is the number of labelled segments, up to those in transit.
THEOREM CountExact == Spec => []PoolCountExact
<1>1. PoolInv => PoolCountExact
  BY DEF PoolInv
<1> QED
  BY PoolInvHolds, <1>1, PTL

\* A segment about to be uncounted is counted: fetch_sub never sees zero.
THEOREM NeverUnderflows == Spec => []NoUnderflow
<1>1. PoolInv => NoUnderflow
  <2> SUFFICES ASSUME PoolInv, NEW t \in Threads, pc[t] = "uncount"
               PROVE  admission_count > 0
    BY DEF NoUnderflow
  <2> DEFINE s == seg[t]
  <2>1. s \in Segments /\ pool[s] = "Admission"
    BY DEF PoolInv, Shape, Places, DrainPcs, LeavePcs
  <2>2. \A u \in Threads : u # t /\ seg[u] = s => pc[u] \notin {"count", "reset"}
    BY DEF PoolInv, Shape, Apart, LeavePcs, InsertPcs, DrainPcs
  <2>3. s \in Counted /\ Counted \in SUBSET Segments
    BY <2>1, <2>2 DEF Counted, Labelled, InTransit
  <2>4. Cardinality(Counted) > 0
    BY <2>1, <2>3, CountedStep
  <2> QED
    BY <2>4 DEF PoolInv, PoolCountExact, Counted
<1> QED
  BY PoolInvHolds, <1>1, PTL

\* No segment enters service with the label of an earlier life.
THEOREM FreshMain == Spec => []FreshIsMain
<1>1. PoolInv => FreshIsMain
  BY DEF PoolInv, Shape
<1> QED
  BY PoolInvHolds, <1>1, PTL

-----------------------------------------------------------------------------
(* The loop of reserve_and_define. *)

\* The rounds in which a thread is about to reserve, and in which it evicts.
ReserveRounds == {"try", "failed", "passed", "await"}
EvictRounds == {"first", "pass"}

LoopTypeOK ==
  /\ round \in [Threads -> {"none"} \cup ReserveRounds \cup EvictRounds]
  /\ owed \in [Threads -> Nat]

\* Where in the loop a thread is says which of the pool's steps it is at.
LoopPlaces ==
  /\ room => tail \in Segments
  /\ \A t \in Threads :
       /\ round[t] \in ReserveRounds <=> pc[t] = "reserve"
       /\ round[t] \in EvictRounds => pc[t] \in {"evict"} \cup DrainPcs
       /\ pc[t] = "idle" => target[t] = "none"
       /\ pc[t] \in {"evict", "reserve"} \cup DrainPcs =>
            (round[t] = "none" <=> target[t] = "none")

\* Only a thread in its wait is owed anything.
OwedInWait == \A t \in Threads : owed[t] > 0 => round[t] = "await"

LoopInv == PoolInv /\ LoopTypeOK /\ LoopPlaces /\ OwedInWait /\ WaitCovered

\* Every step of the loop is a step of the pool, or leaves the pool as it is.
LEMMA LoopStep == LoopInv /\ [LoopNext]_loopvars => [Next]_vars
<1> SUFFICES ASSUME LoopInv, [LoopNext]_loopvars PROVE [Next]_vars
  OBVIOUS
<1> USE DEF LoopInv, LoopPlaces, Next, InsertStep, DrainStep
<1>1. ASSUME NEW t \in Threads, Work(t) PROVE [Next]_vars
  <2>1. CASE ReserveInTail(t)
    BY <2>1 DEF ReserveInTail
  <2>2. CASE NoFreeSegments(t) \/ PassOver(t) \/ WaitFreed(t)
    BY <2>2 DEF NoFreeSegments, PassOver, WaitFreed
  <2>3. CASE StartPass(t)
    BY <2>3 DEF StartPass, ReserveFailed, ReserveRounds
  <2>4. CASE EvictReturns(t)
    BY <2>4 DEF EvictReturns
  <2>5. CASE WaitOver(t)
    BY <2>5 DEF WaitOver
  <2>6. CASE LeaveService(t)
    BY <2>6 DEF LeaveService
  <2>7. ASSUME NEW s \in Segments, ExpandTail(t, s) \/ ClaimSegment(t, s) PROVE [Next]_vars
    BY <2>7 DEF ExpandTail, ClaimSegment
  <2>8. CASE Label(t) \/ Count(t) \/ Unpin(t) \/ WaitWriters(t) \/ ReadLabel(t) \/ Uncount(t)
             \/ ResetPool(t)
    BY <2>8
  <2> QED BY <1>1, <2>1, <2>2, <2>3, <2>4, <2>5, <2>6, <2>7, <2>8 DEF Work
<1>2. ASSUME NEW t \in Threads, NEW p \in Pools, RouteInsert(t, p) PROVE [Next]_vars
  BY <1>2 DEF RouteInsert
<1>3. ASSUME NEW t \in Threads, NEW s \in Segments, TakeDest(t, s) PROVE [Next]_vars
  BY <1>3 DEF TakeDest
<1>4. ASSUME NEW s \in Segments, ReadersGone(s) PROVE [Next]_vars
  BY <1>4 DEF ReadersGone
<1>5. CASE UNCHANGED loopvars
  BY <1>5 DEF loopvars
<1> QED
  BY <1>1, <1>2, <1>3, <1>4, <1>5 DEF LoopNext

\* The loop keeps its places: the pool's step a thread takes, and the round it enters.
LEMMA LoopPlacesStep ==
  ASSUME LoopInv, [LoopNext]_loopvars
  PROVE  LoopTypeOK' /\ LoopPlaces' /\ OwedInWait'
<1> USE DEF LoopInv, LoopTypeOK, LoopPlaces, OwedInWait, ReserveRounds, EvictRounds, loop, Enter,
            Go, Finish, DrainPcs, LeavePcs
<1>0. TypeOK
  BY DEF PoolInv, Shape
<1> USE <1>0 DEF TypeOK
<1>1. ASSUME NEW t \in Threads, NEW p \in Pools, RouteInsert(t, p)
      PROVE  LoopTypeOK' /\ LoopPlaces' /\ OwedInWait'
  BY <1>1 DEF RouteInsert, Route, Pools
<1>2. ASSUME NEW t \in Threads, ReserveInTail(t) PROVE LoopTypeOK' /\ LoopPlaces' /\ OwedInWait'
  BY <1>2 DEF ReserveInTail, Reserve
<1>3. ASSUME NEW t \in Threads, NEW s \in Segments, ExpandTail(t, s)
      PROVE  LoopTypeOK' /\ LoopPlaces' /\ OwedInWait'
  BY <1>3 DEF ExpandTail, Expand
<1>4. ASSUME NEW t \in Threads, NoFreeSegments(t) PROVE LoopTypeOK' /\ LoopPlaces' /\ OwedInWait'
  BY <1>4 DEF NoFreeSegments, vars
<1>5. ASSUME NEW t \in Threads, StartPass(t) PROVE LoopTypeOK' /\ LoopPlaces' /\ OwedInWait'
  BY <1>5 DEF StartPass
<1>6. ASSUME NEW t \in Threads, NEW s \in Segments, ClaimSegment(t, s)
      PROVE  LoopTypeOK' /\ LoopPlaces' /\ OwedInWait'
  BY <1>6 DEF ClaimSegment, Claim
<1>7. ASSUME NEW t \in Threads, EvictReturns(t) PROVE LoopTypeOK' /\ LoopPlaces' /\ OwedInWait'
  BY <1>7 DEF EvictReturns, EvictDone, Finished, OneLess
<1>8. ASSUME NEW t \in Threads, PassOver(t) PROVE LoopTypeOK' /\ LoopPlaces' /\ OwedInWait'
  <2>1. Cardinality(Evicting) \in Nat
    BY PoolConstants, FS_Subset, FS_CardinalityType DEF Evicting
  <2> QED BY <1>8, <2>1 DEF PassOver, vars
<1>9. ASSUME NEW t \in Threads, WaitFreed(t) PROVE LoopTypeOK' /\ LoopPlaces' /\ OwedInWait'
  BY <1>9 DEF WaitFreed, vars
<1>10. ASSUME NEW t \in Threads, WaitOver(t) PROVE LoopTypeOK' /\ LoopPlaces' /\ OwedInWait'
  BY <1>10 DEF WaitOver, vars
<1>11. ASSUME NEW t \in Threads, LeaveService(t) PROVE LoopTypeOK' /\ LoopPlaces' /\ OwedInWait'
  BY <1>11 DEF LeaveService, Leave
<1>12. ASSUME NEW s \in Segments, ReadersGone(s) PROVE LoopTypeOK' /\ LoopPlaces' /\ OwedInWait'
  BY <1>12 DEF ReadersGone, CondemnedFreed
<1>13. ASSUME NEW t \in Threads, NEW s \in Segments, TakeDest(t, s)
       PROVE  LoopTypeOK' /\ LoopPlaces' /\ OwedInWait'
  BY <1>13 DEF TakeDest, LinkDest
<1>14. ASSUME NEW t \in Threads, UNCHANGED <<tail, room, loop>>,
              Label(t) \/ Count(t) \/ Unpin(t) \/ WaitWriters(t) \/ ReadLabel(t) \/ Uncount(t)
              \/ ResetPool(t) \/ BeginDrain(t)
       PROVE  LoopTypeOK' /\ LoopPlaces' /\ OwedInWait'
  BY <1>14 DEF Label, Count, Unpin, WaitWriters, ReadLabel, Uncount, ResetPool, BeginDrain
<1>15. CASE UNCHANGED loopvars
  BY <1>15 DEF loopvars, vars
<1> QED
  BY <1>1, <1>2, <1>3, <1>4, <1>5, <1>6, <1>7, <1>8, <1>9, <1>10, <1>11, <1>12, <1>13, <1>14, <1>15
     DEF LoopNext, Work

\* Evictions that run beside thread t, as threads enter and leave an eviction.
LEMMA EvictingSteps ==
  ASSUME NEW A \in SUBSET Threads, NEW t \in Threads, NEW u \in Threads
  PROVE  /\ Cardinality(A \ {u}) \in Nat
         /\ Cardinality((A \cup {t}) \ {u}) >= Cardinality(A \ {u})
         /\ t \in A /\ u # t => /\ Cardinality(A \ {u}) >= 1
                                /\ Cardinality((A \ {t}) \ {u}) = Cardinality(A \ {u}) - 1
<1>1. IsFiniteSet(A \ {u}) /\ IsFiniteSet((A \cup {t}) \ {u})
  BY FS_Subset, PoolConstants
<1>2. Cardinality(A \ {u}) \in Nat
  BY <1>1, FS_CardinalityType
<1>3. Cardinality((A \cup {t}) \ {u}) >= Cardinality(A \ {u})
  <2>1. A \ {u} \subseteq (A \cup {t}) \ {u}
    OBVIOUS
  <2> QED BY <1>1, <2>1, FS_Subset, FS_CardinalityType
<1>4. ASSUME t \in A, u # t
      PROVE  /\ Cardinality(A \ {u}) >= 1
             /\ Cardinality((A \ {t}) \ {u}) = Cardinality(A \ {u}) - 1
  <2>1. t \in A \ {u} /\ (A \ {t}) \ {u} = (A \ {u}) \ {t}
    BY <1>4
  <2>2. Cardinality((A \ {u}) \ {t}) = Cardinality(A \ {u}) - 1
    BY <1>1, <2>1, FS_RemoveElement
  <2>3. A \ {u} # {}
    BY <2>1
  <2>4. Cardinality(A \ {u}) # 0
    BY <1>1, <2>3, FS_EmptySet
  <2> QED BY <1>2, <2>1, <2>2, <2>4
<1> QED BY <1>2, <1>3, <1>4

\* What a thread waits for stays covered: an eviction that ends is taken off both sides.
LEMMA WaitCoveredStep == ASSUME LoopInv, [LoopNext]_loopvars PROVE WaitCovered'
<1> USE DEF LoopInv, loop, Enter
<1>0. /\ TypeOK /\ round \in [Threads -> {"none"} \cup ReserveRounds \cup EvictRounds]
      /\ owed \in [Threads -> Nat] /\ Evicting \in SUBSET Threads
  BY DEF PoolInv, Shape, LoopTypeOK, Evicting
<1>a. ASSUME UNCHANGED <<round, owed>> PROVE WaitCovered'
  BY <1>a DEF WaitCovered, Evicting
<1>b. ASSUME NEW t \in Threads, Evicting' = Evicting \cup {t} \/ Evicting' = Evicting,
             \A u \in Threads : owed'[u] = owed[u] \/ owed'[u] = 0
      PROVE  WaitCovered'
  <2> SUFFICES ASSUME NEW u \in Threads PROVE owed'[u] <= Cardinality(Evicting' \ {u})
    BY DEF WaitCovered
  <2>1. owed[u] \in Nat /\ owed[u] <= Cardinality(Evicting \ {u})
    BY <1>0 DEF WaitCovered
  <2>2. /\ Cardinality(Evicting \ {u}) \in Nat
        /\ Cardinality((Evicting \cup {t}) \ {u}) >= Cardinality(Evicting \ {u})
    BY <1>0, EvictingSteps
  <2>3. Cardinality((Evicting \cup {t}) \ {u}) \in Nat
    BY <1>0, EvictingSteps
  <2> QED BY <1>b, <2>1, <2>2, <2>3
<1>1. ASSUME NEW t \in Threads, NEW p \in Pools, RouteInsert(t, p) PROVE WaitCovered'
  <2>1. Evicting' = Evicting \cup {t} \/ Evicting' = Evicting
    BY <1>0, <1>1 DEF RouteInsert, Route, Evicting, LoopPlaces, EvictRounds, DrainPcs, LeavePcs
  <2> QED BY <1>1, <1>b, <2>1 DEF RouteInsert
<1>2. ASSUME NEW t \in Threads, ReserveInTail(t) \/ NoFreeSegments(t) \/ WaitOver(t)
      PROVE  WaitCovered'
  <2>1. Evicting' = Evicting /\ UNCHANGED owed
    BY <1>0, <1>2 DEF ReserveInTail, NoFreeSegments, WaitOver, Evicting
  <2> QED BY <1>b, <2>1
<1>3. ASSUME NEW t \in Threads, StartPass(t) PROVE WaitCovered'
  <2>1. Evicting' = Evicting \cup {t} /\ UNCHANGED owed
    BY <1>0, <1>3 DEF StartPass, Evicting
  <2> QED BY <1>b, <2>1
<1>4. ASSUME NEW t \in Threads, WaitFreed(t) PROVE WaitCovered'
  <2>1. Evicting' = Evicting /\ \A u \in Threads : owed'[u] = owed[u] \/ owed'[u] = 0
    BY <1>0, <1>4 DEF WaitFreed, Evicting
  <2> QED BY <1>b, <2>1
<1>5. ASSUME NEW t \in Threads, PassOver(t) PROVE WaitCovered'
  <2>1. Evicting' = Evicting /\ Evicting \ {t} = Evicting
    BY <1>0, <1>5 DEF PassOver, Evicting
  <2>2. CASE UNCHANGED owed
    BY <1>b, <2>1, <2>2
  <2>3. CASE owed' = [owed EXCEPT ![t] = Cardinality(Evicting)]
    <3>1. Cardinality(Evicting) \in Nat
      BY <1>0, <2>1, EvictingSteps
    <3> QED BY <1>0, <2>1, <2>3, <3>1 DEF WaitCovered
  <2> QED BY <1>5, <2>2, <2>3 DEF PassOver
<1>6. ASSUME NEW t \in Threads, EvictReturns(t) PROVE WaitCovered'
  <2>1. CASE round[t] = "none"
    BY <1>6, <1>a, <2>1 DEF EvictReturns
  <2>2. CASE round[t] # "none"
    <3>1. Evicting' = Evicting \ {t} /\ t \in Evicting /\ owed' = OneLess
      BY <1>0, <1>6, <2>2 DEF EvictReturns, Evicting, Finished
    <3> SUFFICES ASSUME NEW u \in Threads PROVE owed'[u] <= Cardinality(Evicting' \ {u})
      BY DEF WaitCovered
    <3>2. /\ owed[u] \in Nat /\ owed[u] <= Cardinality(Evicting \ {u})
          /\ owed[u] > 0 => round[u] = "await"
      BY <1>0 DEF WaitCovered, OwedInWait
    <3>3. owed'[u] = IF owed[u] > 0 THEN owed[u] - 1 ELSE 0
      BY <3>1, <3>2 DEF OneLess
    <3>4. Cardinality(Evicting' \ {u}) \in Nat
      BY <1>0, <3>1, EvictingSteps
    <3>5. CASE u = t
      <4>1. owed[u] = 0
        BY <3>1, <3>2, <3>5 DEF Evicting
      <4> QED BY <3>3, <3>4, <4>1
    <3>6. CASE u # t
      <4>1. /\ Cardinality(Evicting \ {u}) \in Nat /\ Cardinality(Evicting \ {u}) >= 1
            /\ Cardinality(Evicting' \ {u}) = Cardinality(Evicting \ {u}) - 1
        BY <1>0, <3>1, <3>6, EvictingSteps
      <4> QED BY <3>2, <3>3, <4>1
    <3> QED BY <3>5, <3>6
  <2> QED BY <2>1, <2>2
<1>7. ASSUME NEW t \in Threads, NEW s \in Segments,
             ExpandTail(t, s) \/ ClaimSegment(t, s) \/ TakeDest(t, s) \/ ReadersGone(s)
      PROVE  WaitCovered'
  BY <1>7, <1>a DEF ExpandTail, ClaimSegment, TakeDest, ReadersGone
<1>8. ASSUME NEW t \in Threads, LeaveService(t) PROVE WaitCovered'
  BY <1>8, <1>a DEF LeaveService
<1>9. ASSUME NEW s \in Segments, ReadersGone(s) PROVE WaitCovered'
  BY <1>9, <1>a DEF ReadersGone
<1>10. CASE UNCHANGED <<tail, room, loop>>
  BY <1>10, <1>a
<1>11. CASE UNCHANGED loopvars
  BY <1>11, <1>a DEF loopvars
<1> QED
  BY <1>1, <1>2, <1>3, <1>4, <1>5, <1>6, <1>7, <1>8, <1>9, <1>10, <1>11 DEF LoopNext, Work

\* The loop's invariant, with the pool's.
THEOREM LoopInvHolds == LoopSpec => []LoopInv
<1>1. LoopInit => LoopInv
  <2> SUFFICES ASSUME LoopInit PROVE LoopInv
    OBVIOUS
  <2>1. PoolInv
    BY InitPoolInv DEF LoopInit
  <2>2. LoopTypeOK /\ LoopPlaces /\ OwedInWait
    BY DEF LoopInit, Init, LoopTypeOK, LoopPlaces, OwedInWait, ReserveRounds, EvictRounds, DrainPcs,
       LeavePcs
  <2>3. WaitCovered
    <3>1. Evicting \in SUBSET Threads
      BY DEF Evicting
    <3>2. \A t \in Threads : Cardinality(Evicting \ {t}) \in Nat
      BY <3>1, EvictingSteps
    <3> QED BY <3>2 DEF LoopInit, WaitCovered
  <2> QED BY <2>1, <2>2, <2>3 DEF LoopInv
<1>2. LoopInv /\ [LoopNext]_loopvars => LoopInv'
  BY LoopStep, NextShape, NextCount, LoopPlacesStep, WaitCoveredStep DEF LoopInv, PoolInv
<1> QED BY <1>1, <1>2, PTL DEF LoopSpec

\* wait_for_running_evictions waits for no more evictions than are running beside
\* it, whichever finish first: none is missed and none counted twice.
THEOREM LoopWaitCovered == LoopSpec => []WaitCovered
<1>1. LoopInv => WaitCovered
  BY DEF LoopInv
<1> QED BY <1>1, LoopInvHolds, PTL

\* reserve_and_define's loop takes the pool's steps and no others, so what holds of
\* the pool (its count, its labels) holds under the loop.
THEOREM LoopImplementsPool == LoopSpec => Spec
<1>1. LoopInit => Init
  BY DEF LoopInit
<1> QED BY <1>1, LoopStep, LoopInvHolds, PTL DEF LoopSpec, Spec

-----------------------------------------------------------------------------
(* The ghost queue, for every capacity and every number of threads.        *)

\* The inductive invariant: the set is bounded because each of its members can
\* be found by the eviction loop.
GhostInv == GhostTypeOK /\ GhostBounded /\ MembersQueued

\* A nonempty set of naturals has a least element.
LEMMA LeastNat ==
  ASSUME NEW T, T \subseteq Nat, T # {}
  PROVE  \E x \in T : \A y \in T : x <= y
<1>1. PICK x \in T : \A y \in T : ~ (<<y, x>> \in OpToRel(<, Nat))
  BY NatLessThanWellFounded, WFMin
<1>2. \A y \in T : ~(y < x)
  BY <1>1 DEF OpToRel
<1> QED BY <1>2

\* The eviction loop of insert stops, and when it stops there is room.
LEMMA LoopMakesRoom ==
  ASSUME GhostInv
  PROVE  /\ Pops \in 0..Len(queue)
         /\ HasRoom(Pops)
         /\ \A j \in 0..Len(queue) : j < Pops => ~HasRoom(j)
<1> DEFINE T == {k \in 0..Len(queue) : HasRoom(k)}
<1>1. Len(queue) \in Nat
  BY DEF GhostInv, GhostTypeOK
<1>2. HasRoom(Len(queue))
  <2>1. set \ Popped(Len(queue)) = {}
    BY DEF GhostInv, MembersQueued, Popped
  <2> QED BY <2>1, FS_EmptySet, CapacityPositive DEF HasRoom
<1>3. PICK k \in T : \A j \in T : k <= j
  <2>1. T \subseteq Nat /\ Len(queue) \in T
    BY <1>1, <1>2
  <2> HIDE DEF T
  <2> QED BY <2>1, LeastNat
<1>4. \E i \in 0..Len(queue) :
        /\ HasRoom(i) \/ i = Len(queue)
        /\ \A j \in 0..Len(queue) : j < i => ~HasRoom(j)
  <2> WITNESS k \in 0..Len(queue)
  <2> QED BY <1>1, <1>3
<1> DEFINE C(i) == /\ HasRoom(i) \/ i = Len(queue)
                   /\ \A j \in 0..Len(queue) : j < i => ~HasRoom(j)
<1>5. \E i \in 0..Len(queue) : C(i)
  BY <1>4
<1>6. Pops = CHOOSE i \in 0..Len(queue) : C(i)
  BY DEF Pops
<1> HIDE DEF C
<1>7. Pops \in 0..Len(queue) /\ C(Pops)
  BY <1>5, <1>6
<1> QED BY <1>2, <1>7 DEF C

\* The first state.
LEMMA GhostInvInit == GhostInit => GhostInv
<1> SUFFICES ASSUME GhostInit PROVE GhostInv
  OBVIOUS
<1>1. GhostTypeOK
  BY FS_EmptySet DEF GhostInit, GhostTypeOK
<1>2. GhostBounded
  BY FS_EmptySet, CapacityPositive DEF GhostInit, GhostBounded
<1> QED BY <1>1, <1>2 DEF GhostInit, GhostInv, MembersQueued

\* An insert keeps the set within its capacity and in the queue.
LEMMA InsertKeeps ==
  ASSUME GhostInv, NEW h \in Hashes, Insert(h)
  PROVE  GhostInv'
<1> DEFINE k == Pops
           kept == set \ Popped(k)
<1>1. k \in 0..Len(queue) /\ Cardinality(kept) < Capacity
  BY LoopMakesRoom DEF HasRoom
<1>2. queue \in Seq(Hashes) /\ Len(queue) \in Nat
  BY DEF GhostInv, GhostTypeOK
<1>3. queue' = Append(SubSeq(queue, k + 1, Len(queue)), h) /\ set' = kept \cup {h}
  BY DEF Insert
<1> HIDE DEF k
<1>4. kept \subseteq Hashes /\ IsFiniteSet(kept)
  BY FS_Subset DEF GhostInv, GhostTypeOK
<1>5. GhostTypeOK'
  <2>1. queue' \in Seq(Hashes)
    BY <1>1, <1>2, <1>3
  <2>2. set' \subseteq Hashes /\ IsFiniteSet(set')
    BY <1>3, <1>4, FS_AddElement
  <2> QED BY <2>1, <2>2 DEF GhostTypeOK, GhostInv, Insert
<1>6. GhostBounded'
  <2> HIDE DEF kept
  <2>1. Cardinality(kept) \in Nat
    BY <1>4, FS_CardinalityType
  <2>2. Cardinality(kept \cup {h}) \in {Cardinality(kept), Cardinality(kept) + 1}
    BY <1>4, <2>1, FS_AddElement
  <2>3. Cardinality(kept \cup {h}) <= Capacity
    BY <1>1, <2>1, <2>2, CapacityPositive
  <2> QED BY <1>3, <2>3 DEF GhostBounded
<1>7. MembersQueued'
  <2>1. Len(queue') = Len(queue) - k + 1
    BY <1>1, <1>2, <1>3
  <2>2. queue'[Len(queue')] = h
    <3>1. SubSeq(queue, k + 1, Len(queue)) \in Seq(Hashes)
          /\ Len(SubSeq(queue, k + 1, Len(queue))) = Len(queue) - k
      BY <1>1, <1>2
    <3> QED BY <1>3, <2>1, <3>1
  <2>3. \A i \in k+1..Len(queue) : queue'[i - k] = queue[i]
    BY <1>1, <1>2, <1>3, <2>1
  <2>4. ASSUME NEW x \in kept PROVE \E i \in 1..Len(queue') : queue'[i] = x
    <3>1. PICK i \in 1..Len(queue) : queue[i] = x
      BY DEF GhostInv, MembersQueued
    <3>2. i \notin 1..k
      BY <3>1 DEF Popped
    <3>3. i \in k+1..Len(queue) /\ i - k \in 1..Len(queue')
      BY <1>1, <1>2, <2>1, <3>2
    <3>4. queue'[i - k] = x
      BY <2>3, <3>1, <3>3
    <3> QED BY <3>3, <3>4
  <2>5. Len(queue') \in 1..Len(queue')
    BY <1>1, <1>2, <2>1
  <2> QED BY <1>3, <2>2, <2>4, <2>5 DEF MembersQueued
<1> QED BY <1>5, <1>6, <1>7 DEF GhostInv

\* Looking a hash up and forgetting it keep the invariant.
LEMMA RoutingKeeps ==
  ASSUME GhostInv, NEW t \in Inserters,
         Remove(t) \/ \E h \in Hashes : Contains(t, h)
  PROVE  GhostInv'
<1>1. CASE Remove(t)
  <2>1. set' \subseteq set /\ queue' = queue
    BY <1>1 DEF Remove
  <2>2. IsFiniteSet(set') /\ Cardinality(set') <= Cardinality(set)
        /\ Cardinality(set') \in Nat /\ Cardinality(set) \in Nat
    BY <2>1, FS_Subset, FS_CardinalityType DEF GhostInv, GhostTypeOK
  <2>3. GhostTypeOK'
    BY <1>1, <2>1, <2>2 DEF GhostInv, GhostTypeOK, Remove
  <2>4. GhostBounded'
    BY <2>2, CapacityPositive DEF GhostInv, GhostBounded
  <2>5. MembersQueued'
    BY <2>1 DEF GhostInv, MembersQueued
  <2> QED BY <2>3, <2>4, <2>5 DEF GhostInv
<1>2. CASE \E h \in Hashes : Contains(t, h)
  BY <1>2 DEF Contains, GhostInv, GhostTypeOK, GhostBounded, MembersQueued
<1> QED BY <1>1, <1>2

\* Every step keeps the invariant.
LEMMA GhostInvNext == GhostInv /\ [GhostNext]_ghostVars => GhostInv'
<1> SUFFICES ASSUME GhostInv, [GhostNext]_ghostVars PROVE GhostInv'
  OBVIOUS
<1>1. CASE UNCHANGED ghostVars
  BY <1>1 DEF ghostVars, GhostInv, GhostTypeOK, GhostBounded, MembersQueued
<1>2. CASE GhostNext
  BY <1>2, InsertKeeps, RoutingKeeps DEF GhostNext
<1> QED BY <1>1, <1>2

\* GhostQueue::insert keeps the set within ghost_capacity, in every execution.
THEOREM GhostSetBounded == GhostSpec => []GhostBounded
<1>1. GhostSpec => []GhostInv
  BY GhostInvInit, GhostInvNext, PTL DEF GhostSpec
<1>2. GhostInv => GhostBounded
  BY DEF GhostInv
<1> QED BY <1>1, <1>2, PTL

\* The eviction loop of GhostQueue::insert never runs out of queue with a full
\* set: each member of the set is in the queue.
THEOREM GhostMembersQueued == GhostSpec => []MembersQueued
<1>1. GhostSpec => []GhostInv
  BY GhostInvInit, GhostInvNext, PTL DEF GhostSpec
<1>2. GhostInv => MembersQueued
  BY DEF GhostInv
<1> QED BY <1>1, <1>2, PTL

\* The least number of pops that makes room takes exactly one member off a full
\* set, and none off any other: the action property of the runs, for every
\* capacity.
THEOREM ForgetsOne == GhostSpec => ForgetsOneWhenFull
<1> DEFINE A == \A h \in set \ set' :
       /\ set \ set' = {h}
       /\ \/ \E t \in Inserters : routing[t] = h /\ routing'[t] = NoHash
          \/ Cardinality(set) = Capacity
<1>1. ASSUME GhostInv, [GhostNext]_ghostVars PROVE [A]_ghostVars
  <2> SUFFICES ASSUME GhostNext, NEW x \in set \ set'
               PROVE  /\ set \ set' = {x}
                      /\ \/ \E t \in Inserters : routing[t] = x /\ routing'[t] = NoHash
                         \/ Cardinality(set) = Capacity
    BY <1>1
  <2>1. ASSUME NEW t \in Inserters, Remove(t)
        PROVE  set \ set' = {x} /\ routing[t] = x /\ routing'[t] = NoHash
    BY <1>1, <2>1 DEF Remove, GhostInv, GhostTypeOK
  <2>2. ASSUME NEW h \in Hashes, Insert(h)
        PROVE  set \ set' = {x} /\ Cardinality(set) = Capacity
    <3> DEFINE k == Pops
    <3>1. /\ k \in 0..Len(queue)
          /\ HasRoom(k)
          /\ \A j \in 0..Len(queue) : j < k => ~HasRoom(j)
      BY <1>1, LoopMakesRoom
    <3>2. set' = (set \ Popped(k)) \cup {h} /\ h \notin set
      BY <2>2 DEF Insert
    <3> HIDE DEF k
    <3>3. IsFiniteSet(set) /\ Cardinality(set) \in Nat /\ Cardinality(set) <= Capacity
          /\ Len(queue) \in Nat
      BY <1>1, FS_CardinalityType DEF GhostInv, GhostTypeOK, GhostBounded
    <3>4. x \in Popped(k) /\ k # 0
      BY <3>1, <3>2 DEF Popped
    <3>5. ~HasRoom(0) /\ ~HasRoom(k - 1) /\ k - 1 \in Nat
      <4>1. 0 \in 0..Len(queue) /\ 0 < k /\ k - 1 \in 0..Len(queue) /\ k - 1 < k
        BY <3>1, <3>3, <3>4
      <4> QED BY <3>1, <4>1
    <3>6. set \ Popped(0) = set
      BY DEF Popped
    <3>7. Cardinality(set) = Capacity
      <4>1. ~(Cardinality(set \ Popped(0)) < Capacity)
        BY <3>5 DEF HasRoom
      <4>2. ~(Cardinality(set) < Capacity)
        BY <3>6, <4>1
      <4> QED BY <3>3, <4>2, CapacityPositive
    <3> DEFINE before == set \ Popped(k - 1)
    <3>8. IsFiniteSet(before) /\ Cardinality(before) \in Nat
          /\ Cardinality(before) >= Capacity
      BY <3>3, <3>5, FS_Subset, FS_CardinalityType, CapacityPositive DEF HasRoom
    <3>9. before = set
      <4>1. Cardinality(before) = Cardinality(set)
        BY <3>3, <3>7, <3>8, FS_Subset, CapacityPositive
      <4> QED BY <3>3, <4>1, FS_Subset
    <3>10. Popped(k) = Popped(k - 1) \cup {queue[k]}
      BY <3>1, <3>3, <3>4, <3>5 DEF Popped
    <3>11. set \ set' \subseteq {queue[k]}
      BY <3>2, <3>9, <3>10
    <3> QED BY <3>7, <3>11
  <2>3. ASSUME NEW t \in Inserters, NEW h \in Hashes, Contains(t, h) PROVE FALSE
    BY <2>3 DEF Contains
  <2> QED BY <2>1, <2>2, <2>3 DEF GhostNext
<1>2. GhostSpec => []GhostInv
  BY GhostInvInit, GhostInvNext, PTL DEF GhostSpec
<1>3. GhostSpec => [][A]_ghostVars
  BY <1>1, <1>2, PTL DEF GhostSpec
<1> QED BY <1>3 DEF ForgetsOneWhenFull
=============================================================================
