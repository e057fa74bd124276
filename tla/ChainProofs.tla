---------------------------- MODULE ChainProofs ----------------------------
(***************************************************************************)
(* TtlChain for any number of segments, buckets and threads: whatever the  *)
(* passes do to a chain, it is one doubly linked list again when the lock  *)
(* is free, oldest segment first, and stale observations do no harm.       *)
(***************************************************************************)
EXTENDS TtlChain, TLAPS

MemberStates == {"Live", "Sealed", "Relinking", "Draining"}

\* A segment is in one of these from its publication to its release.
UsedStates == MemberStates \cup {"AwaitingRelease"}

DrainJobs == {"expire", "clear"}

PassJobs == {"drop", "promote", "merge"}

\* The segment of the pass is claimed and still linked.
ClaimedPcs == {"dest", "link", "copy"}

\* The segment of the pass is on its way out of the chain.
GapPcs == {"finalize", "release", "splice", "after"}

-----------------------------------------------------------------------------
\* No set of segments is closed under f.
NoCycle(L, f) == \A C \in SUBSET L : C = {} \/ \E x \in C : f[x] \notin C

\* L is one list, linked forwards by n and backwards by p, from h to e.
List(L, n, p, h, e) ==
  /\ L = {} => h = None /\ e = None
  /\ L # {} => h \in L /\ e \in L
  /\ \A x \in L : IF x = e THEN n[x] = None ELSE n[x] \in L /\ p[n[x]] = x
  /\ \A x \in L : IF x = h THEN p[x] = None ELSE p[x] \in L /\ n[p[x]] = x
  /\ NoCycle(L, n)
  /\ NoCycle(L, p)

\* What a bucket's chain will be once the pass that holds the lock has patched
\* the neighbours of the segment it takes out, and the head word.
Gap(b) == lock[b] # None /\ pc[lock[b]] \in GapPcs

Chain(b) == IF Gap(b) THEN Members(b) \ {cur[lock[b]]} ELSE Members(b)

NextIn(b) ==
  IF Gap(b) THEN [x \in Segments |-> IF x = pv[lock[b]] THEN nx[lock[b]] ELSE next[x]] ELSE next

PrevIn(b) ==
  IF Gap(b) THEN [x \in Segments |-> IF x = nx[lock[b]] THEN pv[lock[b]] ELSE prev[x]] ELSE prev

HeadIn(b) == IF Gap(b) /\ pv[lock[b]] = None THEN nx[lock[b]] ELSE head[b]

\* A state other than Live at the tail and Sealed elsewhere is of the two segments
\* that the holder of the lock works on.
StateIn(b, x) ==
  IF x = tail[b] THEN state[x] = "Live"
  ELSE \/ state[x] = "Sealed"
       \/ /\ lock[b] # None
          /\ \/ /\ state[x] = "Draining" /\ x = cur[lock[b]] /\ pc[lock[b]] \in ClaimedPcs
             \/ /\ state[x] = "Relinking" /\ x = mine[lock[b]]
                /\ \/ pc[lock[b]] = "copy"
                   \/ pc[lock[b]] \in GapPcs /\ job[lock[b]] = "merge"

ChainOK(b) ==
  /\ List(Chain(b), NextIn(b), PrevIn(b), HeadIn(b), tail[b])
  /\ \A x \in Chain(b) : StateIn(b, x)
  /\ \A x \in Chain(b) : NextIn(b)[x] # None => created[x] <= created[NextIn(b)[x]]

-----------------------------------------------------------------------------
\* The job, the bucket, and which segments a thread has, by its step.
PlaceOK(t) ==
  /\ pc[t] = "idle" => mine[t] = None
  /\ pc[t] # "idle" => bk[t] \in Buckets
  /\ pc[t] \in {"read_gen", "try_alloc", "expand_reserve", "expand_lock"} => job[t] = "expand"
  /\ pc[t] \in {"drain_lock", "drain_walk"} => job[t] \in DrainJobs
  /\ pc[t] = "spare" => job[t] = "merge"
  /\ pc[t] \in {"evict_lock", "member_ttl", "claim"} => job[t] \in PassJobs
  /\ pc[t] = "dest" => job[t] = "promote"
  /\ pc[t] \in {"link", "copy"} => job[t] \in {"promote", "merge"}
  /\ pc[t] \in GapPcs => job[t] \in DrainJobs \cup PassJobs
  /\ pc[t] \in {"read_gen", "try_alloc", "spare", "evict_lock", "member_ttl", "claim"}
               \cup ClaimedPcs \cup GapPcs => cur[t] \in Segments
  /\ mine[t] # None => \/ pc[t] \in {"expand_lock", "link", "copy"}
                       \/ pc[t] \in {"evict_lock", "member_ttl", "claim"} /\ job[t] = "merge"
                       \/ pc[t] \in GapPcs /\ job[t] \in {"promote", "merge"}
  /\ mine[t] = None => pc[t] \notin {"expand_lock", "link", "copy"}
  /\ mine[t] = None /\ pc[t] \in {"evict_lock", "member_ttl", "claim"} \cup GapPcs =>
       job[t] # "merge"
  /\ merged[t] # 0 => job[t] = "merge" /\ pc[t] \in {"copy"} \cup GapPcs
  /\ pc[t] = "copy" => merged[t] <= MaxMerge

\* The segment a thread has reserved is its own until it is linked, and then in
\* the chain the thread has locked, just before the claimed segment.
MineOK(t) ==
  mine[t] # None =>
    /\ pc[t] \in {"expand_lock", "evict_lock", "member_ttl", "claim", "link"} =>
         state[mine[t]] = "Reserved"
    /\ pc[t] = "expand_lock" => ttl[mine[t]] = bk[t]
    /\ pc[t] = "copy" =>
         state[mine[t]] = "Relinking" /\ ttl[mine[t]] = bk[t] /\ next[mine[t]] = cur[t]
    /\ pc[t] \in GapPcs =>
         /\ state[mine[t]] = IF job[t] = "merge" THEN "Relinking" ELSE "Sealed"
         /\ ttl[mine[t]] = bk[t] /\ pv[t] = mine[t]

\* The segment a pass has claimed, and the links it goes by.
CurOK(t) ==
  /\ pc[t] = "drain_walk" => cur[t] = head[bk[t]]
  /\ pc[t] \in ClaimedPcs \cup {"finalize", "release"} =>
       state[cur[t]] = "Draining" /\ ttl[cur[t]] = bk[t]
  /\ pc[t] \in {"dest", "finalize"} => nx[t] = next[cur[t]] /\ pv[t] = prev[cur[t]]
  /\ pc[t] \in {"splice", "after"} => cur[t] \notin Members(bk[t])
  /\ pc[t] \in GapPcs =>
       /\ nx[t] \in Chain(bk[t]) \cup {None} /\ pv[t] \in Chain(bk[t]) \cup {None}
       /\ job[t] \in DrainJobs => pv[t] = None /\ head[bk[t]] = nx[t]
  /\ pc[t] \in {"release", "after"} =>
       /\ pv[t] # None => next[pv[t]] = nx[t]
       /\ nx[t] # None => prev[nx[t]] = pv[t]

\* What a writer learned of the tail it wants to seal: while the generation is the
\* observed one the segment is full, and no younger than the one to be linked.
TailOK(t) ==
  /\ pc[t] = "try_alloc" => obs[t] <= gen[cur[t]]
  /\ pc[t] \in {"expand_reserve", "expand_lock"} /\ cur[t] # None =>
       /\ obs[t] <= gen[cur[t]]
       /\ obs[t] = gen[cur[t]] =>
            /\ state[cur[t]] \in UsedStates /\ full[cur[t]]
            /\ pc[t] = "expand_lock" => created[cur[t]] <= created[mine[t]]

\* is_sealed_member: a TTL that names the locked bucket is of a Sealed member, or
\* of a segment that a writer has stamped and can link only after this pass.
HintOK(t) ==
  /\ pc[t] = "claim" => ttl[cur[t]] = bk[t]
  /\ pc[t] \in {"member_ttl", "claim"} /\ ttl[cur[t]] = bk[t] =>
       \/ state[cur[t]] = "Sealed"
       \/ \E u \in Threads : pc[u] = "expand_lock" /\ mine[u] = cur[t] /\ bk[u] = bk[t]

ThreadOK(t) == PlaceOK(t) /\ MineOK(t) /\ CurOK(t) /\ TailOK(t) /\ HintOK(t)

\* No segment is reserved by two threads.
MineApart == \A t, u \in Threads : t # u /\ mine[t] = mine[u] => mine[t] = None

\* Creation times lie in the past, and before the deadline of every item inside.
SegmentOK(s) ==
  /\ created[s] <= clock
  /\ state[s] \in MemberStates => created[s] <= limit[s]
  /\ state[s] = "Reserved" => limit[s] = MaxTime

IInv ==
  /\ TypeOK
  /\ \A t \in Threads : ThreadOK(t)
  /\ \A b \in Buckets : ChainOK(b)
  /\ MineApart
  /\ \A s \in Segments : SegmentOK(s)
-----------------------------------------------------------------------------
\* A new element after a, and before what a was followed by, closes no cycle.
LEMMA NoCycleInsert ==
  ASSUME NEW L, NEW f, NEW g, NEW d, NEW a,
         NoCycle(L, f), d \notin L, g[d] # d,
         \A x \in L : f[x] # d,
         \A x \in L : x # a => g[x] = f[x],
         a \in L => f[a] = g[d] /\ g[a] = d
  PROVE  NoCycle(L \cup {d}, g)
<1> SUFFICES ASSUME NEW C \in SUBSET (L \cup {d}), C # {}
             PROVE  \E x \in C : g[x] \notin C
  BY DEF NoCycle
<1>1. CASE d \notin C
  <2>1. C \in SUBSET L
    BY <1>1
  <2>2. PICK x \in C : f[x] \notin C
    BY <2>1 DEF NoCycle
  <2>3. CASE a \in C
    BY <2>1, <2>3, <1>1
  <2>4. CASE a \notin C
    BY <2>1, <2>2, <2>4
  <2> QED BY <2>3, <2>4
<1>2. CASE d \in C /\ g[d] \notin C
  BY <1>2
<1>3. CASE d \in C /\ g[d] \in C
  <2>1. C \ {d} \in SUBSET L /\ C \ {d} # {}
    BY <1>3
  <2>2. PICK x \in C \ {d} : f[x] \notin C \ {d}
    BY <2>1 DEF NoCycle
  <2>3. x # a
    BY <2>1, <2>2, <1>3
  <2> QED BY <2>1, <2>2, <2>3
<1> QED BY <1>1, <1>2, <1>3

\* Taking s out, with its predecessor a linked to its successor, closes no cycle.
LEMMA NoCycleRemove ==
  ASSUME NEW L, NEW f, NEW g, NEW a, NEW s,
         NoCycle(L, f), s \in L,
         \A x \in L : x # a /\ x # s => g[x] = f[x],
         a \in L => f[a] = s /\ g[a] = f[s]
  PROVE  NoCycle(L \ {s}, g)
<1> SUFFICES ASSUME NEW C \in SUBSET (L \ {s}), C # {}
             PROVE  \E x \in C : g[x] \notin C
  BY DEF NoCycle
<1>1. CASE a \notin C
  <2>1. PICK x \in C : f[x] \notin C
    BY DEF NoCycle
  <2> QED BY <2>1, <1>1
<1>2. CASE a \in C /\ f[s] \notin C
  BY <1>2
<1>3. CASE a \in C /\ f[s] \in C
  <2>1. C \cup {s} \in SUBSET L /\ C \cup {s} # {}
    OBVIOUS
  <2>2. PICK x \in C \cup {s} : f[x] \notin C \cup {s}
    BY <2>1 DEF NoCycle
  <2>3. x # a /\ x # s
    BY <1>3, <2>1, <2>2
  <2> QED BY <2>2, <2>3
<1> QED BY <1>1, <1>2, <1>3

\* A list depends on the links of its elements only.
LEMMA ListSame ==
  ASSUME NEW L, NEW n, NEW p, NEW h, NEW e, NEW n2, NEW p2, List(L, n, p, h, e),
         \A x \in L : n2[x] = n[x] /\ p2[x] = p[x]
  PROVE  List(L, n2, p2, h, e)
<1>1. NoCycle(L, n2) /\ NoCycle(L, p2)
  BY DEF List, NoCycle
<1> QED BY <1>1 DEF List

\* link_dest_before: d goes where s was, and s follows.
LEMMA ListInsert ==
  ASSUME NEW L \in SUBSET Segments, NEW n, NEW p, NEW h, NEW e, NEW n2, NEW p2, NEW h2,
         NEW s \in L, NEW d \in Segments, d \notin L, List(L, n, p, h, e),
         n2[d] = s, p2[d] = p[s],
         \A x \in L : n2[x] = IF x = p[s] THEN d ELSE n[x],
         \A x \in L : p2[x] = IF x = s THEN d ELSE p[x],
         h2 = IF p[s] = None THEN d ELSE h
  PROVE  List(L \cup {d}, n2, p2, h2, e)
<1>0. None \notin Segments
  BY NoneIsNone
<1>1. p[s] \in L => n[p[s]] = s
  BY <1>0 DEF List
<1>2. \A x \in L : n[x] # d /\ p[x] # d
  BY <1>0 DEF List
<1>3. NoCycle(L \cup {d}, n2)
  <2>1. NoCycle(L, n) /\ s # d
    BY DEF List
  <2>2. p[s] \in L => n[p[s]] = n2[d] /\ n2[p[s]] = d
    BY <1>1
  <2>3. \A x \in L : x # p[s] => n2[x] = n[x]
    OBVIOUS
  <2>4. \A x \in L : n[x] # d
    BY <1>2
  <2> QED BY <2>1, <2>2, <2>3, <2>4, NoCycleInsert
<1>4. NoCycle(L \cup {d}, p2)
  <2>1. p[s] # d /\ NoCycle(L, p)
    BY <1>2 DEF List
  <2> QED BY <1>2, <2>1, NoCycleInsert
<1>5. h2 \in L \cup {d} /\ e \in L \cup {d}
  BY DEF List
<1>6. \A x \in L \cup {d} : IF x = e THEN n2[x] = None
                            ELSE n2[x] \in L \cup {d} /\ p2[n2[x]] = x
  BY <1>0, <1>1, <1>2 DEF List
<1>7. \A x \in L \cup {d} : IF x = h2 THEN p2[x] = None
                            ELSE p2[x] \in L \cup {d} /\ n2[p2[x]] = x
  BY <1>0, <1>1, <1>2 DEF List
<1> QED BY <1>3, <1>4, <1>5, <1>6, <1>7 DEF List

\* try_expand: d follows the tail, or is the whole list.
LEMMA ListAppend ==
  ASSUME NEW L \in SUBSET Segments, NEW n, NEW p, NEW h, NEW e, NEW n2, NEW p2, NEW h2,
         NEW d \in Segments, d \notin L, List(L, n, p, h, e),
         n2[d] = None, p2[d] = e,
         \A x \in L : n2[x] = IF x = e THEN d ELSE n[x],
         \A x \in L : p2[x] = p[x],
         h2 = IF e = None THEN d ELSE h
  PROVE  List(L \cup {d}, n2, p2, h2, d)
<1>0. None \notin Segments
  BY NoneIsNone
<1>2. \A x \in L : n[x] # d /\ p[x] # d
  BY <1>0 DEF List
<1>3. NoCycle(L \cup {d}, n2)
  <2>1. (e \in L => n[e] = n2[d] /\ n2[e] = d) /\ None # d /\ NoCycle(L, n)
    BY <1>0 DEF List
  <2>2. \A x \in L : x # e => n2[x] = n[x]
    OBVIOUS
  <2>4. \A x \in L : n[x] # d
    BY <1>2
  <2> QED BY <2>1, <2>2, <2>4, NoCycleInsert
<1>4. NoCycle(L \cup {d}, p2)
  <2>1. None \notin L /\ e # d /\ NoCycle(L, p)
    BY <1>0 DEF List
  <2>2. \A x \in L : x # None => p2[x] = p[x]
    OBVIOUS
  <2>3. None \in L => p[None] = p2[d] /\ p2[None] = d
    BY <2>1
  <2> QED BY <1>2, <2>1, <2>2, <2>3, NoCycleInsert
<1>5. h2 \in L \cup {d}
  BY <1>0 DEF List
<1>6. \A x \in L \cup {d} : IF x = d THEN n2[x] = None
                            ELSE n2[x] \in L \cup {d} /\ p2[n2[x]] = x
  BY <1>0, <1>2 DEF List
<1>7. \A x \in L \cup {d} : IF x = h2 THEN p2[x] = None
                            ELSE p2[x] \in L \cup {d} /\ n2[p2[x]] = x
  BY <1>0, <1>2 DEF List
<1> QED BY <1>3, <1>4, <1>5, <1>6, <1>7 DEF List

\* The neighbours of an element are others, and point back at it.
LEMMA ListNeighbours ==
  ASSUME NEW L \in SUBSET Segments, NEW n, NEW p, NEW h, NEW e, NEW s \in L,
         List(L, n, p, h, e)
  PROVE  /\ p[s] \in L => n[p[s]] = s
         /\ n[s] \in L => p[n[s]] = s
         /\ n[s] \in (L \ {s}) \cup {None} /\ p[s] \in (L \ {s}) \cup {None}
<1>0. None \notin Segments
  BY NoneIsNone
<1>1. /\ p[s] \in L => n[p[s]] = s
      /\ n[s] \in L => p[n[s]] = s
      /\ n[s] \in L \cup {None} /\ p[s] \in L \cup {None}
  BY <1>0 DEF List
<1>2. n[s] # s /\ p[s] # s
  <2>1. {s} \in SUBSET L /\ {s} # {}
    OBVIOUS
  <2>2. \E x \in {s} : n[x] \notin {s}
    BY <2>1 DEF List, NoCycle
  <2>3. \E x \in {s} : p[x] \notin {s}
    BY <2>1 DEF List, NoCycle
  <2> QED BY <2>2, <2>3
<1> QED BY <1>1, <1>2

\* The ends of a list without s.
FirstWithout(s, n, p, h) == IF p[s] = None THEN n[s] ELSE h

LastWithout(s, n, p, e) == IF n[s] = None THEN p[s] ELSE e

\* unlink: the neighbours of s are linked to each other.
LEMMA ListRemove ==
  ASSUME NEW L \in SUBSET Segments, NEW n, NEW p, NEW h, NEW e, NEW n2, NEW p2,
         NEW s \in L, List(L, n, p, h, e),
         \A x \in L : n2[x] = IF x = p[s] THEN n[s] ELSE n[x],
         \A x \in L : p2[x] = IF x = n[s] THEN p[s] ELSE p[x]
  PROVE  List(L \ {s}, n2, p2, FirstWithout(s, n, p, h), LastWithout(s, n, p, e))
<1> DEFINE h2 == FirstWithout(s, n, p, h)
           e2 == LastWithout(s, n, p, e)
<1> USE DEF FirstWithout, LastWithout
<1>0. None \notin Segments
  BY NoneIsNone
<1>1. /\ p[s] \in L => n[p[s]] = s
      /\ n[s] \in L => p[n[s]] = s
      /\ n[s] \in L \cup {None} /\ p[s] \in L \cup {None}
      /\ n[s] # s /\ p[s] # s
  <2>1. /\ p[s] \in L => n[p[s]] = s
        /\ n[s] \in L => p[n[s]] = s
        /\ n[s] \in (L \ {s}) \cup {None} /\ p[s] \in (L \ {s}) \cup {None}
    BY ListNeighbours
  <2> QED BY <1>0, <2>1
<1>2. n[s] # s /\ p[s] # s
  BY <1>1
<1>3. NoCycle(L \ {s}, n2)
  BY <1>1, NoCycleRemove DEF List
<1>4. NoCycle(L \ {s}, p2)
  <2>1. NoCycle(L, p)
    BY DEF List
  <2> QED BY <1>1, <2>1, NoCycleRemove
<1>5. L \ {s} # {} => h2 \in L \ {s} /\ e2 \in L \ {s}
  <2> SUFFICES ASSUME L \ {s} # {} PROVE h2 \in L \ {s} /\ e2 \in L \ {s}
    OBVIOUS
  <2>1. L \ {s} \in SUBSET L
    OBVIOUS
  <2>2. PICK x \in L \ {s} : n[x] \notin L \ {s}
    BY <2>1 DEF List, NoCycle
  <2>3. ~(n[s] = None /\ p[s] = None)
    BY <1>0, <2>2 DEF List
  <2> QED BY <1>0, <1>1, <1>2, <2>3 DEF List
<1>5a. L \ {s} = {} => h2 = None /\ e2 = None
  BY <1>0, <1>1, <1>2 DEF List
<1>6. \A x \in L \ {s} : IF x = e2 THEN n2[x] = None
                         ELSE n2[x] \in L \ {s} /\ p2[n2[x]] = x
  BY <1>0, <1>1, <1>2 DEF List
<1>7. \A x \in L \ {s} : IF x = h2 THEN p2[x] = None
                         ELSE p2[x] \in L \ {s} /\ n2[p2[x]] = x
  BY <1>0, <1>1, <1>2 DEF List
<1> QED BY <1>3, <1>4, <1>5, <1>5a, <1>6, <1>7 DEF List

-----------------------------------------------------------------------------
\* What a step of t does to the other threads.
OthersSame(t) ==
  \A u \in Threads : u # t =>
    /\ pc'[u] = pc[u] /\ job'[u] = job[u] /\ bk'[u] = bk[u] /\ cur'[u] = cur[u]
    /\ mine'[u] = mine[u] /\ obs'[u] = obs[u] /\ nx'[u] = nx[u] /\ pv'[u] = pv[u]
    /\ merged'[u] = merged[u]

HeaderSame(x) ==
  /\ state'[x] = state[x] /\ next'[x] = next[x] /\ prev'[x] = prev[x]
  /\ ttl'[x] = ttl[x] /\ created'[x] = created[x]

\* The segments a step of t at bucket c may touch: members of c's chain and
\* segments of no chain, and none that another thread has reserved.
Touches(t, c, x) ==
  /\ state[x] \notin MemberStates \/ ttl[x] = c
  /\ state'[x] \notin MemberStates \/ ttl'[x] = c
  /\ \A u \in Threads : u # t => mine[u] # x
  /\ \/ ttl'[x] = ttl[x] \/ ttl'[x] = c
     \/ t \in Threads /\ pc'[t] = "expand_lock" /\ mine'[t] = x /\ bk'[t] = ttl'[x]

\* A generation stands for one incarnation: what was published under it stays
\* published and full, with its creation time, until the generation is bumped.
Incarnation(x) ==
  /\ gen[x] <= gen'[x]
  /\ gen'[x] = gen[x] /\ state[x] \in UsedStates =>
       state'[x] \in UsedStates /\ (full[x] => full'[x]) /\ created'[x] = created[x]

\* A step of t (None: of no thread) at bucket c (None: at no chain), which no other
\* thread has locked.
StepAt(t, c) ==
  /\ OthersSame(t)
  /\ \A b \in Buckets : b # c =>
       /\ head'[b] = head[b] /\ tail'[b] = tail[b] /\ lock'[b] = lock[b]
       /\ t \in Threads => lock[b] # t
  /\ c \in Buckets => lock[c] \in {t, None}
  /\ \A x \in Segments : HeaderSame(x) \/ Touches(t, c, x)
  /\ \A x \in Segments : Incarnation(x)
  /\ t \in Threads /\ pc[t] = "expand_lock" => lock[bk[t]] = None

\* A step at one bucket leaves the members of the others as they are.
LEMMA MembersSame ==
  ASSUME IInv, NEW t \in Threads \cup {None}, NEW c \in Buckets \cup {None}, StepAt(t, c),
         NEW b \in Buckets, b # c
  PROVE  /\ Members(b)' = Members(b)
         /\ \A x \in Members(b) : HeaderSame(x)
BY DEF StepAt, Touches, HeaderSame, Members, MemberStates

\* A step at one bucket leaves the chains of the others as they are.
LEMMA OtherChains ==
  ASSUME IInv, NEW t \in Threads \cup {None}, NEW c \in Buckets \cup {None}, StepAt(t, c),
         TypeOK', NEW b \in Buckets, b # c
  PROVE  ChainOK(b)' /\ Chain(b)' = Chain(b)
<1>0. TypeOK /\ ChainOK(b) /\ None \notin Segments \cup Buckets \cup Threads
  BY NoneIsNone DEF IInv
<1>1. /\ Members(b)' = Members(b)
      /\ \A x \in Members(b) : HeaderSame(x)
  BY MembersSame
<1>2. /\ head'[b] = head[b] /\ tail'[b] = tail[b] /\ lock'[b] = lock[b]
      /\ lock[b] # None => lock[b] # t
  BY DEF StepAt
<1>3. lock[b] # None =>
        /\ pc'[lock[b]] = pc[lock[b]] /\ cur'[lock[b]] = cur[lock[b]] /\ nx'[lock[b]] = nx[lock[b]]
        /\ pv'[lock[b]] = pv[lock[b]] /\ mine'[lock[b]] = mine[lock[b]]
        /\ job'[lock[b]] = job[lock[b]]
  BY <1>0, <1>2 DEF StepAt, OthersSame, TypeOK
<1>4. Gap(b)' = Gap(b) /\ Chain(b)' = Chain(b) /\ HeadIn(b)' = HeadIn(b)
  BY <1>1, <1>2, <1>3 DEF Gap, Chain, HeadIn
<1>5. Chain(b) \subseteq Members(b) /\ Chain(b) \subseteq Segments
  BY DEF Chain, Members
<1>6. \A x \in Chain(b) : NextIn(b)'[x] = NextIn(b)[x] /\ PrevIn(b)'[x] = PrevIn(b)[x]
  BY <1>0, <1>1, <1>2, <1>3, <1>4, <1>5 DEF NextIn, PrevIn, Gap, TypeOK, HeaderSame
<1>7. List(Chain(b), NextIn(b)', PrevIn(b)', HeadIn(b), tail[b])
  BY <1>0, <1>6, ListSame DEF ChainOK
<1>8. \A x \in Chain(b) : StateIn(b, x)'
  BY <1>0, <1>1, <1>2, <1>3, <1>5 DEF StateIn, ChainOK, HeaderSame
<1>9. \A x \in Chain(b) : NextIn(b)[x] # None => NextIn(b)[x] \in Chain(b)
  BY <1>0 DEF ChainOK, List
<1>10. \A x \in Chain(b) : NextIn(b)'[x] # None => created'[x] <= created'[NextIn(b)'[x]]
  BY <1>0, <1>1, <1>5, <1>6, <1>9 DEF ChainOK, HeaderSame
<1> QED BY <1>2, <1>4, <1>7, <1>8, <1>10 DEF ChainOK

\* A step of one thread leaves what the others rely on.
LEMMA OtherThreads ==
  ASSUME IInv, NEW t \in Threads \cup {None}, NEW c \in Buckets \cup {None}, StepAt(t, c),
         TypeOK', NEW u \in Threads, u # t
  PROVE  ThreadOK(u)'
<1>0. /\ TypeOK /\ ThreadOK(u) /\ None \notin Segments \cup Buckets \cup Threads
      /\ pc[u] # "idle" => bk[u] \in Buckets
  BY NoneIsNone DEF IInv, ThreadOK, PlaceOK
<1>1. /\ pc'[u] = pc[u] /\ job'[u] = job[u] /\ bk'[u] = bk[u] /\ cur'[u] = cur[u]
      /\ mine'[u] = mine[u] /\ obs'[u] = obs[u] /\ nx'[u] = nx[u] /\ pv'[u] = pv[u]
      /\ merged'[u] = merged[u]
  BY DEF StepAt, OthersSame
<1>2. pc[u] \in LockedPcs => bk[u] \in Buckets /\ bk[u] # c /\ lock[bk[u]] = u
  BY <1>0 DEF TypeOK, StepAt, LockedPcs
<1>3. mine[u] # None => HeaderSame(mine[u])
  BY <1>0 DEF StepAt, Touches, TypeOK
<1>4. pc[u] \in LockedPcs =>
        /\ Members(bk[u])' = Members(bk[u]) /\ Chain(bk[u])' = Chain(bk[u])
        /\ \A x \in Members(bk[u]) : HeaderSame(x)
        /\ head'[bk[u]] = head[bk[u]]
  <2>1. pc[u] \in LockedPcs => head'[bk[u]] = head[bk[u]]
    BY <1>2 DEF StepAt
  <2>2. ASSUME NEW b \in Buckets, b # c
        PROVE  /\ Members(b)' = Members(b) /\ Chain(b)' = Chain(b)
               /\ \A x \in Members(b) : HeaderSame(x)
    BY <2>2, MembersSame, OtherChains
  <2> QED BY <1>1, <1>2, <2>1, <2>2
<1>5. PlaceOK(u)'
  BY <1>0, <1>1 DEF ThreadOK, PlaceOK
<1>6. MineOK(u)'
  BY <1>0, <1>1, <1>3 DEF ThreadOK, MineOK, HeaderSame
<1>7. CurOK(u)'
  <2>1. pc[u] \in ClaimedPcs \cup {"finalize", "release"} =>
          cur[u] \in Members(bk[u]) /\ HeaderSame(cur[u])
    BY <1>0, <1>4 DEF ThreadOK, CurOK, PlaceOK, Members, ClaimedPcs, GapPcs, LockedPcs
  <2>2. pc[u] \in GapPcs => /\ nx[u] # None => HeaderSame(nx[u])
                            /\ pv[u] # None => HeaderSame(pv[u])
    <3>1. Chain(bk[u]) \subseteq Members(bk[u])
      BY DEF Chain
    <3> QED BY <1>0, <1>4, <3>1 DEF ThreadOK, CurOK, GapPcs, LockedPcs
  <2>3. (pc[u] = "drain_walk" => cur[u] = head[bk[u]])'
    BY <1>0, <1>1, <1>4 DEF ThreadOK, CurOK, LockedPcs
  <2>4. (pc[u] \in ClaimedPcs \cup {"finalize", "release"} =>
           state[cur[u]] = "Draining" /\ ttl[cur[u]] = bk[u])'
    BY <1>0, <1>1, <2>1 DEF ThreadOK, CurOK, HeaderSame
  <2>5. (pc[u] \in {"dest", "finalize"} => nx[u] = next[cur[u]] /\ pv[u] = prev[cur[u]])'
    BY <1>0, <1>1, <2>1 DEF ThreadOK, CurOK, HeaderSame, ClaimedPcs
  <2>6. (pc[u] \in {"splice", "after"} => cur[u] \notin Members(bk[u]))'
    BY <1>0, <1>1, <1>4 DEF ThreadOK, CurOK, LockedPcs
  <2>7. (pc[u] \in GapPcs =>
           /\ nx[u] \in Chain(bk[u]) \cup {None} /\ pv[u] \in Chain(bk[u]) \cup {None}
           /\ job[u] \in DrainJobs => pv[u] = None /\ head[bk[u]] = nx[u])'
    BY <1>0, <1>1, <1>4 DEF ThreadOK, CurOK, LockedPcs, GapPcs
  <2>8. (pc[u] \in {"release", "after"} =>
           /\ pv[u] # None => next[pv[u]] = nx[u]
           /\ nx[u] # None => prev[nx[u]] = pv[u])'
    BY <1>0, <1>1, <2>2 DEF ThreadOK, CurOK, HeaderSame, GapPcs
  <2> QED BY <2>3, <2>4, <2>5, <2>6, <2>7, <2>8 DEF CurOK
<1>8. TailOK(u)'
  <2>1. cur[u] # None => Incarnation(cur[u]) /\ gen[cur[u]] \in Nat /\ gen'[cur[u]] \in Nat
    BY <1>0 DEF StepAt, TypeOK
  <2>2. obs[u] \in Nat
    BY <1>0 DEF TypeOK
  <2>3. pc[u] = "try_alloc" => cur[u] # None
    BY <1>0 DEF ThreadOK, PlaceOK
  <2>4. pc[u] = "expand_lock" => mine[u] # None
    BY <1>0 DEF ThreadOK, PlaceOK
  <2> QED BY <1>0, <1>1, <1>3, <2>1, <2>2, <2>3, <2>4 DEF ThreadOK, TailOK, Incarnation, HeaderSame
<1>9. HintOK(u)'
  <2> SUFFICES ASSUME pc[u] \in {"member_ttl", "claim"}
               PROVE  HintOK(u)'
    BY <1>1 DEF HintOK
  <2>1. cur[u] \in Segments /\ bk[u] \in Buckets /\ bk[u] # c /\ lock[bk[u]] = u
    BY <1>0, <1>2 DEF ThreadOK, PlaceOK, LockedPcs
  <2>2. ASSUME NEW w \in Threads, pc[w] = "expand_lock", mine[w] = cur[u], bk[w] = bk[u]
        PROVE  /\ pc'[w] = "expand_lock" /\ mine'[w] = cur[u] /\ bk'[w] = bk[u]
               /\ HeaderSame(cur[u])
    <3>1. w # t
      BY <1>0, <2>1, <2>2 DEF StepAt
    <3>2. mine[w] = cur[u] /\ cur[u] \in Segments
      BY <2>1, <2>2
    <3> QED BY <2>2, <3>1, <3>2 DEF StepAt, OthersSame, Touches
  <2>3. CASE HeaderSame(cur[u])
    <3>1. ttl'[cur[u]] = ttl[cur[u]] /\ state'[cur[u]] = state[cur[u]]
      BY <2>3 DEF HeaderSame
    <3>2. ASSUME NEW w \in Threads, pc[w] = "expand_lock", mine[w] = cur[u], bk[w] = bk[u]
          PROVE  \E v \in Threads : pc'[v] = "expand_lock" /\ mine'[v] = cur[u] /\ bk'[v] = bk[u]
      BY <2>2, <3>2
    <3> QED BY <1>0, <1>1, <3>1, <3>2 DEF ThreadOK, HintOK
  <2>4. CASE ~HeaderSame(cur[u])
    <3>1. Touches(t, c, cur[u])
      BY <2>1, <2>4 DEF StepAt
    <3>2. ttl[cur[u]] # bk[u]
      <4>1. ~ \E w \in Threads : pc[w] = "expand_lock" /\ mine[w] = cur[u] /\ bk[w] = bk[u]
        BY <2>2, <2>4
      <4> QED BY <1>0, <2>1, <3>1, <4>1 DEF Touches, ThreadOK, HintOK, MemberStates
    <3>3. pc[u] # "claim"
      BY <1>0, <3>2 DEF ThreadOK, HintOK
    <3>4. ttl'[cur[u]] = bk[u] => pc'[t] = "expand_lock" /\ mine'[t] = cur[u] /\ bk'[t] = bk[u]
      BY <2>1, <3>1, <3>2 DEF Touches
    <3>5. ttl'[cur[u]] = bk[u] => t \in Threads
      BY <2>1, <3>1, <3>2 DEF Touches
    <3> QED BY <1>1, <3>3, <3>4, <3>5 DEF HintOK
  <2> QED BY <2>3, <2>4
<1> QED BY <1>5, <1>6, <1>7, <1>8, <1>9 DEF ThreadOK

-----------------------------------------------------------------------------
\* Every variable keeps its type, and a chain lock is held exactly by the thread in
\* the locked part of a pass over the bucket.
LEMMA TypeStep ==
  ASSUME TypeOK, \A t \in Threads : ThreadOK(t), [Next]_vars
  PROVE  TypeOK'
<1>0. /\ None \notin Segments \cup Buckets \cup Threads
      /\ Ttl \in Nat /\ MaxMerge \in Nat /\ MaxTime \in Nat /\ MaxGen \in Nat
      /\ \A t \in Threads : PlaceOK(t)
  BY NoneIsNone, ChainBounds DEF ThreadOK
<1> USE <1>0 DEF TypeOK, States, Pcs, Jobs, header, bucket, local, LockedPcs
<1>1. ASSUME NEW t \in Threads, NEW b \in Buckets, ReadTail(t, b) PROVE TypeOK'
  BY <1>1 DEF ReadTail, Begin, PlaceOK, ClaimedPcs, GapPcs
<1>2. ASSUME NEW t \in Threads, ReadGen(t) PROVE TypeOK'
  BY <1>2 DEF ReadGen, PlaceOK, ClaimedPcs, GapPcs
<1>3. ASSUME NEW t \in Threads, TryAlloc(t) PROVE TypeOK'
  <2>1. CASE Go(t, "expand_reserve")
    BY <1>3, <2>1 DEF TryAlloc, Go
  <2>2. CASE Finish(t)
    BY <1>3, <2>2 DEF TryAlloc, Finish
  <2> QED BY <1>3, <2>1, <2>2 DEF TryAlloc
<1>4. ASSUME NEW t \in Threads, ExpandReserve(t) PROVE TypeOK'
  BY <1>4 DEF ExpandReserve, TryReserve, Reservable, PlaceOK, ClaimedPcs, GapPcs
<1>5. ASSUME NEW t \in Threads, ExpandNoFree(t) PROVE TypeOK'
  BY <1>5 DEF ExpandNoFree, Finish, PlaceOK, ClaimedPcs, GapPcs
<1>6. ASSUME NEW t \in Threads, ExpandBail(t) PROVE TypeOK'
  BY <1>6 DEF ExpandBail, ReleaseUnused, Finish, PlaceOK, ClaimedPcs, GapPcs
<1>7. ASSUME NEW t \in Threads, ExpandSeal(t) PROVE TypeOK'
  BY <1>7 DEF ExpandSeal, Finish, PlaceOK, ClaimedPcs, GapPcs
<1>8. ASSUME NEW t \in Threads, NEW b \in Buckets, NEW j \in {"expire", "clear"}, DrainBegin(t, b, j) PROVE TypeOK'
  BY <1>8 DEF DrainBegin, Begin, PlaceOK, ClaimedPcs, GapPcs
<1>9. ASSUME NEW t \in Threads, DrainLock(t) PROVE TypeOK'
  BY <1>9 DEF DrainLock, PlaceOK, ClaimedPcs, GapPcs
<1>10. ASSUME NEW t \in Threads, DrainStop(t) PROVE TypeOK'
  BY <1>10 DEF DrainStop, Unlock, Finish, PlaceOK, ClaimedPcs, GapPcs
<1>11. ASSUME NEW t \in Threads, DrainClaim(t) PROVE TypeOK'
  BY <1>11 DEF DrainClaim, DrainEnd, PlaceOK
<1>12. ASSUME NEW t \in Threads, DrainNext(t) PROVE TypeOK'
  BY <1>12 DEF DrainNext, PlaceOK, ClaimedPcs, GapPcs
<1>13. ASSUME NEW t \in Threads, NEW s \in Segments, NEW b \in Buckets, NEW j \in PassJobs, PassBegin(t, s, b, j) PROVE TypeOK'
  BY <1>13 DEF PassBegin, Begin, PassJobs, PlaceOK, ClaimedPcs, GapPcs
<1>14. ASSUME NEW t \in Threads, MergeSpare(t) PROVE TypeOK'
  BY <1>14 DEF MergeSpare, TryReserve, Reservable, PlaceOK, ClaimedPcs, GapPcs
<1>15. ASSUME NEW t \in Threads, MergeFallback(t) PROVE TypeOK'
  BY <1>15 DEF MergeFallback, PlaceOK, ClaimedPcs, GapPcs
<1>16. ASSUME NEW t \in Threads, MergeGiveUp(t) PROVE TypeOK'
  BY <1>16 DEF MergeGiveUp, Finish, PlaceOK, ClaimedPcs, GapPcs
<1>17. ASSUME NEW t \in Threads, EvictLock(t) PROVE TypeOK'
  BY <1>17 DEF EvictLock, Go, PlaceOK, ClaimedPcs, GapPcs
<1>18. ASSUME NEW t \in Threads, NotSealed(t) PROVE TypeOK'
  BY <1>18 DEF NotSealed, Abandon, Unlock, ReleaseUnused, Finish, PlaceOK, ClaimedPcs, GapPcs
<1>19. ASSUME NEW t \in Threads, MemberTtl(t) PROVE TypeOK'
  <2>1. CASE Go(t, "claim") /\ UNCHANGED <<header, bucket, clock>>
    BY <1>19, <2>1 DEF MemberTtl, Go
  <2>2. CASE Abandon(t)
    BY <1>19, <2>2, SMTT(30) DEF MemberTtl, Abandon, Unlock, ReleaseUnused, Finish, PlaceOK
  <2> QED BY <1>19, <2>1, <2>2 DEF MemberTtl
<1>20. ASSUME NEW t \in Threads, Claim(t) PROVE TypeOK'
  <2>1. job[t] \in {"drop", "promote", "merge"} /\ cur[t] \in Segments
    BY <1>20 DEF Claim, PlaceOK, PassJobs
  <2>2. PICK p \in {"finalize", "dest", "link"} : pc' = [pc EXCEPT ![t] = p]
    BY <1>20, <2>1 DEF Claim
  <2> QED BY <1>20, <2>1, <2>2 DEF Claim
<1>21. ASSUME NEW t \in Threads, ClaimLost(t) PROVE TypeOK'
  BY <1>21 DEF ClaimLost, Abandon, Unlock, ReleaseUnused, Finish, PlaceOK, ClaimedPcs, GapPcs
<1>22. ASSUME NEW t \in Threads, PromoteDest(t) PROVE TypeOK'
  BY <1>22 DEF PromoteDest, TryReserve, Reservable, PlaceOK, ClaimedPcs, GapPcs
<1>23. ASSUME NEW t \in Threads, PromoteNoDest(t) PROVE TypeOK'
  BY <1>23 DEF PromoteNoDest, Go, PlaceOK, ClaimedPcs, GapPcs
<1>24. ASSUME NEW t \in Threads, LinkDest(t) PROVE TypeOK'
  BY <1>24 DEF LinkDest, Go, PlaceOK, ClaimedPcs, GapPcs
<1>25. ASSUME NEW t \in Threads, CopyOut(t) PROVE TypeOK'
  BY <1>25 DEF CopyOut, Earlier, PlaceOK, ClaimedPcs, GapPcs
<1>26. ASSUME NEW t \in Threads, PassEnd(t) PROVE TypeOK'
  BY <1>26 DEF PassEnd, Unlock, Finish, PlaceOK, ClaimedPcs, GapPcs
<1>27. ASSUME NEW t \in Threads, MergeClaimNext(t) PROVE TypeOK'
  BY <1>27 DEF MergeClaimNext, MayMerge, PlaceOK, ClaimedPcs, GapPcs
<1>28. ASSUME NEW t \in Threads, MergeEnd(t) PROVE TypeOK'
  BY <1>28 DEF MergeEnd, Unlock, Finish, PlaceOK, ClaimedPcs, GapPcs
<1>29. ASSUME NEW t \in Threads, Unlink(t) PROVE TypeOK'
  BY <1>29 DEF Unlink, Go, PlaceOK, ClaimedPcs, GapPcs
<1>30. ASSUME NEW t \in Threads, Release(t) PROVE TypeOK'
  BY <1>30 DEF Release, FreeUsed, Go, PlaceOK, ClaimedPcs, GapPcs
<1>31. ASSUME NEW t \in Threads, Condemn(t) PROVE TypeOK'
  BY <1>31 DEF Condemn, Go, PlaceOK, ClaimedPcs, GapPcs
<1>32. ASSUME NEW t \in Threads, Splice(t) PROVE TypeOK'
  BY <1>32 DEF Splice, Go, PlaceOK, ClaimedPcs, GapPcs
<1>33. CASE Tick
  BY <1>33 DEF Tick
<1>34. ASSUME NEW s \in Segments, Fill(s) PROVE TypeOK'
  BY <1>34 DEF Fill
<1>35. ASSUME NEW s \in Segments, CondemnedFreed(s) PROVE TypeOK'
  BY <1>35 DEF CondemnedFreed, FreeUsed
<1>36. CASE UNCHANGED vars
  BY <1>36 DEF vars
<1> HIDE <1>0 DEF TypeOK, States, Pcs, Jobs, header, bucket, local, LockedPcs
<1>37. ASSUME NEW t \in Threads, Expand(t) PROVE TypeOK'
  BY <1>37, <1>1, <1>2, <1>3, <1>4, <1>5, <1>6, <1>7 DEF Expand
<1>38. ASSUME NEW t \in Threads, Drain(t) PROVE TypeOK'
  BY <1>38, <1>8, <1>9, <1>10, <1>11, <1>12 DEF Drain
<1>39. ASSUME NEW t \in Threads, Pass(t) PROVE TypeOK'
  BY <1>39, <1>13, <1>14, <1>15, <1>16, <1>17, <1>18, <1>19, <1>20, <1>21, <1>22, <1>23,
     <1>24, <1>25, <1>26, <1>27, <1>28 DEF Pass, PassJobs
<1>40. ASSUME NEW t \in Threads, Leave(t) PROVE TypeOK'
  BY <1>40, <1>29, <1>30, <1>31, <1>32 DEF Leave
<1> QED
  BY <1>33, <1>34, <1>35, <1>36, <1>37, <1>38, <1>39, <1>40 DEF Next

-----------------------------------------------------------------------------
\* A segment that another thread has reserved is Reserved, or in the chain that
\* thread has locked.
LEMMA OwnApart ==
  ASSUME IInv, NEW t \in Threads \cup {None}, NEW u \in Threads, u # t, mine[u] # None
  PROVE  /\ mine[u] \in Segments
         /\ state[mine[u]] \in {"Reserved", "Sealed", "Relinking"}
         /\ t \in Threads => mine[u] # mine[t]
         /\ \A b \in Buckets : mine[u] \in Members(b) => lock[b] = u
<1>0. TypeOK /\ PlaceOK(u) /\ MineOK(u) /\ MineApart
  BY DEF IInv, ThreadOK
<1>1. mine[u] \in Segments
  BY <1>0 DEF TypeOK
<1>2. state[mine[u]] \in {"Reserved", "Sealed", "Relinking"}
  BY <1>0 DEF PlaceOK, MineOK
<1>3. t \in Threads => mine[u] # mine[t]
  BY <1>0 DEF MineApart
<1>4. ASSUME NEW b \in Buckets, mine[u] \in Members(b) PROVE lock[b] = u
  <2>1. pc[u] \in {"copy"} \cup GapPcs /\ bk[u] = b
    BY <1>0, <1>4 DEF PlaceOK, MineOK, Members
  <2> QED BY <1>0, <2>1 DEF TypeOK, LockedPcs, GapPcs
<1> QED BY <1>1, <1>2, <1>3, <1>4

\* A step keeps reservations apart if it takes none, or one that nobody has.
LEMMA ApartStep ==
  ASSUME IInv, NEW t \in Threads, OthersSame(t),
         \/ mine'[t] = mine[t] \/ mine'[t] = None
         \/ mine'[t] \in Segments /\ state[mine'[t]] = "Free"
  PROVE  MineApart'
<1>1. \A u \in Threads : u # t /\ mine[u] # None => mine[u] # mine'[t]
  BY OwnApart DEF IInv
<1> QED BY <1>1 DEF OthersSame, MineApart, IInv

\* A step that does its own part keeps the invariant.
LEMMA KeepsIInv ==
  ASSUME IInv, [Next]_vars, NEW t \in Threads \cup {None}, NEW c \in Buckets \cup {None},
         StepAt(t, c), t \in Threads => ThreadOK(t)', c \in Buckets => ChainOK(c)',
         MineApart', \A s \in Segments : SegmentOK(s)'
  PROVE  IInv'
<1>1. TypeOK'
  BY TypeStep DEF IInv
<1>2. ASSUME NEW u \in Threads PROVE ThreadOK(u)'
  BY <1>1, OtherThreads
<1>3. ASSUME NEW b \in Buckets PROVE ChainOK(b)'
  BY <1>1, OtherChains
<1> QED BY <1>1, <1>2, <1>3 DEF IInv

\* A step outside the lock that only moves its thread.
LEMMA LocalStep ==
  ASSUME IInv, [Next]_vars, NEW t \in Threads, OthersSame(t),
         UNCHANGED <<header, bucket, clock>>,
         pc[t] \notin LockedPcs \cup {"expand_lock"},
         mine'[t] = mine[t] \/ mine'[t] = None,
         ThreadOK(t)'
  PROVE  IInv'
<1>0. TypeOK /\ None \notin Segments \cup Buckets \cup Threads
  BY NoneIsNone DEF IInv
<1>1. MineApart'
  BY ApartStep
<1>2. \A s \in Segments : SegmentOK(s)'
  BY DEF IInv, SegmentOK, header
<1>3. StepAt(t, None)
  BY <1>0 DEF StepAt, HeaderSame, Incarnation, header, bucket, TypeOK
<1> QED BY <1>0, <1>1, <1>2, <1>3, KeepsIInv

\* The call is over: nothing is remembered.
LEMMA FinishedOK ==
  ASSUME IInv, NEW t \in Threads, Finish(t)
  PROVE  OthersSame(t) /\ ThreadOK(t)' /\ mine'[t] = None /\ pc'[t] = "idle"
<1>0. TypeOK
  BY DEF IInv
<1>1. /\ OthersSame(t) /\ mine'[t] = None /\ pc'[t] = "idle" /\ merged'[t] = 0
  BY <1>0 DEF Finish, TypeOK, OthersSame
<1> QED BY <1>1 DEF ThreadOK, PlaceOK, MineOK, CurOK, TailOK, HintOK, ClaimedPcs, GapPcs

\* A call begins.
LEMMA BegunOK ==
  ASSUME IInv, NEW t \in Threads, NEW p, NEW j, NEW b \in Buckets,
         NEW s \in Segments \cup {None}, NEW o \in Nat, Begin(t, p, j, b, s, o)
  PROVE  /\ OthersSame(t) /\ mine'[t] = mine[t] /\ mine[t] = None /\ merged'[t] = 0
         /\ pc'[t] = p /\ job'[t] = j /\ bk'[t] = b /\ cur'[t] = s /\ obs'[t] = o
         /\ pc[t] \notin LockedPcs \cup {"expand_lock"}
<1>0. TypeOK /\ PlaceOK(t)
  BY DEF IInv, ThreadOK
<1> QED BY <1>0 DEF Begin, TypeOK, OthersSame, PlaceOK, LockedPcs, GapPcs

\* reserve reads the tail word.
LEMMA ReadTailStep ==
  ASSUME IInv, [Next]_vars, NEW t \in Threads, NEW b \in Buckets, ReadTail(t, b)
  PROVE  IInv'
<1>0. TypeOK /\ ThreadOK(t) /\ None \notin Segments \cup Buckets \cup Threads
  BY NoneIsNone DEF IInv
<1>1. tail[b] \in Segments \cup {None}
  BY <1>0 DEF TypeOK
<1>2. PICK p \in {"expand_reserve", "read_gen"} :
        Begin(t, p, "expand", b, tail[b], 0) /\ (p = "expand_reserve" <=> tail[b] = None)
  BY DEF ReadTail
<1>3. /\ OthersSame(t) /\ mine'[t] = mine[t] /\ mine[t] = None /\ merged'[t] = 0
      /\ pc'[t] = p /\ job'[t] = "expand" /\ bk'[t] = b /\ cur'[t] = tail[b]
      /\ pc[t] \notin LockedPcs \cup {"expand_lock"}
  BY <1>1, <1>2, BegunOK
<1>4. ThreadOK(t)'
  BY <1>0, <1>1, <1>2, <1>3 DEF ThreadOK, PlaceOK, MineOK, CurOK, TailOK, HintOK, ClaimedPcs, GapPcs
<1> QED BY <1>3, <1>4, LocalStep DEF ReadTail

\* reserve reads the tail's generation.
LEMMA ReadGenStep ==
  ASSUME IInv, [Next]_vars, NEW t \in Threads, ReadGen(t)
  PROVE  IInv'
<1>0. TypeOK /\ ThreadOK(t) /\ None \notin Segments \cup Buckets \cup Threads
  BY NoneIsNone DEF IInv
<1>1. /\ OthersSame(t) /\ mine'[t] = mine[t] /\ mine[t] = None /\ merged'[t] = 0
      /\ pc'[t] = "try_alloc" /\ job'[t] = "expand" /\ bk'[t] = bk[t] /\ bk[t] \in Buckets
      /\ cur'[t] = cur[t] /\ cur[t] \in Segments /\ obs'[t] = gen[cur[t]] /\ gen' = gen
      /\ gen[cur[t]] \in Nat
      /\ pc[t] \notin LockedPcs \cup {"expand_lock"}
  BY <1>0 DEF ReadGen, OthersSame, ThreadOK, PlaceOK, GapPcs, LockedPcs, TypeOK, header
<1>2. ThreadOK(t)'
  BY <1>0, <1>1 DEF ThreadOK, PlaceOK, MineOK, CurOK, TailOK, HintOK, ClaimedPcs, GapPcs
<1> QED BY <1>1, <1>2, LocalStep DEF ReadGen

\* reserve tries the tail.
LEMMA TryAllocStep ==
  ASSUME IInv, [Next]_vars, NEW t \in Threads, TryAlloc(t)
  PROVE  IInv'
<1>0. TypeOK /\ ThreadOK(t) /\ None \notin Segments \cup Buckets \cup Threads
  BY NoneIsNone DEF IInv
<1>1. pc[t] \notin LockedPcs \cup {"expand_lock"} /\ UNCHANGED <<header, bucket, clock>>
  BY DEF TryAlloc, LockedPcs
<1>2. CASE Finish(t)
  BY <1>1, <1>2, FinishedOK, LocalStep
<1>3. CASE Go(t, "expand_reserve") /\ state[cur[t]] = "Live" /\ full[cur[t]]
  <2>1. /\ OthersSame(t) /\ mine'[t] = mine[t] /\ mine[t] = None /\ merged'[t] = 0
        /\ pc'[t] = "expand_reserve" /\ job'[t] = "expand" /\ bk'[t] = bk[t] /\ bk[t] \in Buckets
        /\ cur'[t] = cur[t] /\ obs'[t] = obs[t] /\ obs[t] <= gen[cur[t]]
        /\ gen' = gen /\ state' = state /\ full' = full
    BY <1>0, <1>3 DEF TryAlloc, Go, OthersSame, ThreadOK, PlaceOK, TailOK, GapPcs, TypeOK, header
  <2>2. ThreadOK(t)'
    BY <1>0, <1>3, <2>1 DEF ThreadOK, PlaceOK, MineOK, CurOK, TailOK, HintOK, ClaimedPcs, GapPcs,
       UsedStates, MemberStates
  <2> QED BY <1>1, <2>1, <2>2, LocalStep
<1> QED BY <1>2, <1>3 DEF TryAlloc

\* try_expand finds no free segment.
LEMMA ExpandNoFreeStep ==
  ASSUME IInv, [Next]_vars, NEW t \in Threads, ExpandNoFree(t) \/ MergeGiveUp(t)
  PROVE  IInv'
<1>1. /\ pc[t] \notin LockedPcs \cup {"expand_lock"} /\ UNCHANGED <<header, bucket, clock>>
      /\ Finish(t)
  BY DEF ExpandNoFree, MergeGiveUp, LockedPcs
<1> QED BY <1>1, FinishedOK, LocalStep

\* expire or clear begins.
LEMMA DrainBeginStep ==
  ASSUME IInv, [Next]_vars, NEW t \in Threads, NEW b \in Buckets, NEW j \in {"expire", "clear"},
         DrainBegin(t, b, j)
  PROVE  IInv'
<1>0. TypeOK /\ ThreadOK(t) /\ None \notin Segments \cup Buckets \cup Threads
  BY NoneIsNone DEF IInv
<1>1. PICK o \in Nat : Begin(t, "drain_lock", j, b, None, o)
  BY <1>0, ChainBounds DEF DrainBegin, TypeOK
<1>2. /\ OthersSame(t) /\ mine'[t] = mine[t] /\ mine[t] = None /\ merged'[t] = 0
      /\ pc'[t] = "drain_lock" /\ job'[t] = j /\ bk'[t] = b
      /\ pc[t] \notin LockedPcs \cup {"expand_lock"}
  BY <1>1, BegunOK
<1>3. ThreadOK(t)'
  BY <1>0, <1>2 DEF ThreadOK, PlaceOK, MineOK, CurOK, TailOK, HintOK, ClaimedPcs, GapPcs, DrainJobs
<1> QED BY <1>2, <1>3, LocalStep DEF DrainBegin

\* A drop, a promotion or a merge begins.
LEMMA PassBeginStep ==
  ASSUME IInv, [Next]_vars, NEW t \in Threads, NEW s \in Segments, NEW b \in Buckets,
         NEW j \in PassJobs, PassBegin(t, s, b, j)
  PROVE  IInv'
<1>0. TypeOK /\ ThreadOK(t) /\ None \notin Segments \cup Buckets \cup Threads
  BY NoneIsNone DEF IInv
<1>1. PICK p \in {"spare", "evict_lock"} :
        Begin(t, p, j, b, s, 0) /\ (p = "spare" <=> j = "merge")
  BY DEF PassBegin
<1>2. /\ OthersSame(t) /\ mine'[t] = mine[t] /\ mine[t] = None /\ merged'[t] = 0
      /\ pc'[t] = p /\ job'[t] = j /\ bk'[t] = b /\ cur'[t] = s
      /\ pc[t] \notin LockedPcs \cup {"expand_lock"}
  BY <1>1, BegunOK
<1>3. ThreadOK(t)'
  BY <1>0, <1>1, <1>2 DEF ThreadOK, PlaceOK, MineOK, CurOK, TailOK, HintOK, ClaimedPcs, GapPcs, PassJobs
<1> QED BY <1>2, <1>3, LocalStep DEF PassBegin

\* merge_evict without a spare falls back to dropping the start.
LEMMA MergeFallbackStep ==
  ASSUME IInv, [Next]_vars, NEW t \in Threads, MergeFallback(t)
  PROVE  IInv'
<1>0. TypeOK /\ ThreadOK(t) /\ None \notin Segments \cup Buckets \cup Threads
  BY NoneIsNone DEF IInv
<1>1. /\ OthersSame(t) /\ mine'[t] = mine[t] /\ mine[t] = None /\ merged'[t] = 0
      /\ pc'[t] = "evict_lock" /\ job'[t] = "drop" /\ bk'[t] = bk[t] /\ bk[t] \in Buckets
      /\ cur'[t] = cur[t] /\ cur[t] \in Segments
      /\ pc[t] \notin LockedPcs \cup {"expand_lock"}
  BY <1>0 DEF MergeFallback, OthersSame, ThreadOK, PlaceOK, GapPcs, LockedPcs, TypeOK
<1>2. ThreadOK(t)'
  BY <1>0, <1>1 DEF ThreadOK, PlaceOK, MineOK, CurOK, TailOK, HintOK, ClaimedPcs, GapPcs, PassJobs
<1> QED BY <1>1, <1>2, LocalStep DEF MergeFallback

-----------------------------------------------------------------------------
\* No pass over c is past its claim.
Quiet(c) == lock[c] = None \/ pc[lock[c]] \in {"drain_walk", "member_ttl", "claim"}

\* Where no pass is past its claim, a chain is Sealed up to its Live tail.
LEMMA QuietStates ==
  ASSUME IInv, NEW c \in Buckets, Quiet(c)
  PROVE  /\ ~Gap(c) /\ Chain(c) = Members(c) /\ NextIn(c) = next /\ PrevIn(c) = prev
         /\ HeadIn(c) = head[c]
         /\ \A x \in Members(c) : state[x] = IF x = tail[c] THEN "Live" ELSE "Sealed"
<1>1. ~Gap(c)
  BY DEF Quiet, Gap, GapPcs
<1>2. Chain(c) = Members(c) /\ NextIn(c) = next /\ PrevIn(c) = prev /\ HeadIn(c) = head[c]
  BY <1>1 DEF Chain, NextIn, PrevIn, HeadIn
<1>3. \A x \in Members(c) : StateIn(c, x)
  BY <1>2 DEF IInv, ChainOK
<1> QED BY <1>1, <1>2, <1>3 DEF StateIn, Quiet, ClaimedPcs, GapPcs

\* A quiet chain that nobody touches stays one.
LEMMA QuietKept ==
  ASSUME IInv, NEW c \in Buckets, Quiet(c), Quiet(c)', head'[c] = head[c], tail'[c] = tail[c],
         \A x \in Segments : \/ HeaderSame(x)
                             \/ state[x] \notin MemberStates /\ state'[x] \notin MemberStates
  PROVE  ChainOK(c)' /\ Members(c)' = Members(c)
<1>1. /\ Chain(c) = Members(c) /\ NextIn(c) = next /\ PrevIn(c) = prev /\ HeadIn(c) = head[c]
      /\ \A x \in Members(c) : state[x] = IF x = tail[c] THEN "Live" ELSE "Sealed"
  BY QuietStates
<1>2. Gap(c)' = FALSE
  BY DEF Quiet, Gap, GapPcs
<1>3. Members(c)' = Members(c) /\ \A x \in Members(c) : HeaderSame(x)
  BY DEF Members, MemberStates, HeaderSame
<1>4. Chain(c)' = Members(c) /\ NextIn(c)' = next' /\ PrevIn(c)' = prev' /\ HeadIn(c)' = head[c]
  BY <1>2, <1>3 DEF Chain, NextIn, PrevIn, HeadIn
<1>5. /\ List(Members(c), next, prev, head[c], tail[c])
      /\ \A x \in Members(c) : next[x] # None => created[x] <= created[next[x]]
  BY <1>1 DEF IInv, ChainOK
<1>6. \A x \in Members(c) : next'[x] = next[x] /\ prev'[x] = prev[x]
  BY <1>3 DEF HeaderSame
<1>7. List(Members(c), next', prev', head[c], tail[c])
  BY <1>5, <1>6, ListSame
<1>8. \A x \in Members(c) : StateIn(c, x)'
  BY <1>1, <1>3 DEF StateIn, HeaderSame
<1>9. \A x \in Members(c) : next[x] # None => next[x] \in Members(c)
  BY <1>5 DEF List
<1>10. \A x \in Members(c) : next'[x] # None => created'[x] <= created'[next'[x]]
  BY <1>3, <1>5, <1>6, <1>9 DEF HeaderSame
<1> QED BY <1>3, <1>4, <1>7, <1>8, <1>10 DEF ChainOK

\* A reservation of a free segment, outside the lock.
LEMMA ReserveStep ==
  ASSUME IInv, [Next]_vars, NEW t \in Threads, NEW s \in Reservable, NEW b \in Buckets \cup {None},
         TryReserve(s, b), OthersSame(t), UNCHANGED <<bucket, clock>>,
         pc[t] \notin LockedPcs \cup {"expand_lock"}, mine'[t] = s,
         b = ttl[s] \/ (pc'[t] = "expand_lock" /\ bk'[t] = b),
         ThreadOK(t)'
  PROVE  IInv'
<1>0. /\ TypeOK /\ None \notin Segments \cup Buckets \cup Threads
      /\ s \in Segments /\ state[s] = "Free" /\ MaxTime \in Nat
  BY NoneIsNone, ChainBounds DEF IInv, Reservable
<1>1. MineApart'
  BY <1>0, ApartStep
<1>2. \A x \in Segments : SegmentOK(x)'
  BY <1>0 DEF IInv, SegmentOK, TryReserve, TypeOK, MemberStates
<1>3. \A u \in Threads : u # t => mine[u] # s
  BY <1>0, OwnApart
<1>4. \A x \in Segments : x # s => HeaderSame(x)
  BY <1>0 DEF HeaderSame, TryReserve, TypeOK
<1>5. Touches(t, None, s)
  BY <1>0, <1>3 DEF Touches, TryReserve, TypeOK, MemberStates
<1>6. \A x \in Segments : Incarnation(x)
  BY <1>0 DEF Incarnation, TryReserve, TypeOK, UsedStates, MemberStates
<1>7. StepAt(t, None)
  BY <1>0, <1>4, <1>5, <1>6 DEF StepAt, bucket, TypeOK
<1> QED BY <1>0, <1>1, <1>2, <1>7, KeepsIInv

\* try_expand reserves a segment and stamps it with the bucket's TTL.
LEMMA ExpandReserveStep ==
  ASSUME IInv, [Next]_vars, NEW t \in Threads, ExpandReserve(t)
  PROVE  IInv'
<1>0. TypeOK /\ ThreadOK(t) /\ None \notin Segments \cup Buckets \cup Threads
  BY NoneIsNone DEF IInv
<1>1. PICK s \in Reservable : TryReserve(s, bk[t]) /\ mine' = [mine EXCEPT ![t] = s]
  BY DEF ExpandReserve
<1>2. s \in Segments /\ state[s] = "Free"
  BY <1>1 DEF Reservable
<1>3. /\ OthersSame(t) /\ mine'[t] = s /\ merged'[t] = 0 /\ job'[t] = "expand"
      /\ pc'[t] = "expand_lock" /\ bk'[t] = bk[t] /\ bk[t] \in Buckets
      /\ cur'[t] = cur[t] /\ obs'[t] = obs[t] /\ UNCHANGED <<bucket, clock>>
      /\ pc[t] \notin LockedPcs \cup {"expand_lock"}
  BY <1>0, <1>1 DEF ExpandReserve, OthersSame, ThreadOK, PlaceOK, GapPcs, LockedPcs, TypeOK
<1>4. /\ state'[s] = "Reserved" /\ ttl'[s] = bk[t] /\ created'[s] = clock /\ gen' = gen
      /\ \A x \in Segments : x # s => state'[x] = state[x] /\ created'[x] = created[x]
                                      /\ full'[x] = full[x]
  BY <1>0, <1>1, <1>2 DEF TryReserve, TypeOK
<1>5. PlaceOK(t)' /\ MineOK(t)' /\ CurOK(t)' /\ HintOK(t)'
  BY <1>0, <1>2, <1>3, <1>4 DEF PlaceOK, MineOK, CurOK, HintOK, ClaimedPcs, GapPcs
<1>6. TailOK(t)'
  <2>1. cur[t] # None => cur[t] \in Segments /\ created[cur[t]] <= clock
    BY <1>0 DEF TypeOK, IInv, SegmentOK
  <2>2. cur[t] # None /\ obs[t] = gen[cur[t]] => cur[t] # s
    BY <1>0, <1>2 DEF ThreadOK, TailOK, ExpandReserve, UsedStates, MemberStates
  <2> QED BY <1>0, <1>3, <1>4, <2>1, <2>2 DEF ThreadOK, TailOK, ExpandReserve
<1> QED BY <1>1, <1>3, <1>5, <1>6, ReserveStep DEF ThreadOK

\* A merge takes its spare.
LEMMA MergeSpareStep ==
  ASSUME IInv, [Next]_vars, NEW t \in Threads, MergeSpare(t)
  PROVE  IInv'
<1>0. TypeOK /\ ThreadOK(t) /\ None \notin Segments \cup Buckets \cup Threads
  BY NoneIsNone DEF IInv
<1>1. PICK s \in Reservable : TryReserve(s, ttl[s]) /\ mine' = [mine EXCEPT ![t] = s]
  BY DEF MergeSpare
<1>2. s \in Segments /\ state[s] = "Free" /\ ttl[s] \in Buckets \cup {None}
  BY <1>0, <1>1 DEF Reservable, TypeOK
<1>3. /\ OthersSame(t) /\ mine'[t] = s /\ merged'[t] = 0 /\ job'[t] = "merge"
      /\ pc'[t] = "evict_lock" /\ bk'[t] = bk[t] /\ bk[t] \in Buckets
      /\ cur'[t] = cur[t] /\ cur[t] \in Segments /\ UNCHANGED <<bucket, clock>>
      /\ pc[t] \notin LockedPcs \cup {"expand_lock"}
  BY <1>0, <1>1 DEF MergeSpare, OthersSame, ThreadOK, PlaceOK, GapPcs, LockedPcs, TypeOK
<1>4. state'[s] = "Reserved"
  BY <1>0, <1>1, <1>2 DEF TryReserve, TypeOK
<1>5. ThreadOK(t)'
  BY <1>0, <1>2, <1>3, <1>4 DEF ThreadOK, PlaceOK, MineOK, CurOK, TailOK, HintOK, ClaimedPcs, GapPcs,
     PassJobs
<1>6. PICK b \in Buckets \cup {None} :
        TryReserve(s, b) /\ b = ttl[s]
  BY <1>1, <1>2 DEF TryReserve
<1> QED BY <1>3, <1>5, <1>6, ReserveStep

\* The end of a pass that changed nothing: the reserved segment, if there is one,
\* goes back and the lock, if held, is dropped.
LEMMA GiveBackStep ==
  ASSUME IInv, [Next]_vars, NEW t \in Threads, NEW c \in Buckets, bk[t] = c, pc[t] \notin {"idle", "copy"} \cup GapPcs,
         IF mine[t] = None THEN UNCHANGED header ELSE ReleaseUnused(mine[t]),
         Finish(t), UNCHANGED <<head, tail, clock>>,
         lock[c] \in {t, None}, Quiet(c),
         lock' = [lock EXCEPT ![c] = None]
  PROVE  IInv'
<1>0. /\ TypeOK /\ ThreadOK(t) /\ None \notin Segments \cup Buckets \cup Threads
  BY NoneIsNone DEF IInv
<1>1. OthersSame(t) /\ ThreadOK(t)' /\ MineApart'
  BY FinishedOK, ApartStep
<1>2. mine[t] # None => mine[t] \in Segments /\ state[mine[t]] = "Reserved"
  BY <1>0 DEF ThreadOK, PlaceOK, MineOK, TypeOK
<1>3. /\ next' = next /\ prev' = prev /\ ttl' = ttl /\ created' = created /\ gen' = gen
      /\ full' = full /\ limit' = limit
      /\ \A x \in Segments : x # mine[t] => state'[x] = state[x]
      /\ mine[t] # None => state'[mine[t]] = "Free"
  BY <1>0, <1>2 DEF ReleaseUnused, header, TypeOK
<1>4. \A x \in Segments : x # mine[t] => HeaderSame(x)
  BY <1>3 DEF HeaderSame
<1>5. \A x \in Segments : SegmentOK(x)'
  <2>1. \A x \in Segments : SegmentOK(x)
    BY DEF IInv
  <2>2. clock' = clock
    OBVIOUS
  <2> QED BY <1>0, <1>2, <1>3, <2>1, <2>2 DEF SegmentOK, MemberStates
<1>6. mine[t] # None => Touches(t, c, mine[t])
  BY <1>0, <1>2, <1>3, OwnApart DEF Touches, MemberStates
<1>7. \A x \in Segments : Incarnation(x)
  BY <1>0, <1>2, <1>3 DEF Incarnation, TypeOK, UsedStates, MemberStates
<1>8. StepAt(t, c)
  <2>1. \A b \in Buckets : b # c => lock[b] # t
    BY <1>0 DEF TypeOK
  <2>2. \A b \in Buckets : b # c =>
          head'[b] = head[b] /\ tail'[b] = tail[b] /\ lock'[b] = lock[b]
    BY <1>0 DEF TypeOK
  <2>3. pc[t] = "expand_lock" => lock[bk[t]] = None
    BY <1>0 DEF TypeOK, LockedPcs
  <2> QED BY <1>0, <1>1, <1>4, <1>6, <1>7, <2>1, <2>2, <2>3 DEF StepAt
<1>9. ChainOK(c)'
  <2>1. lock'[c] = None
    BY <1>0 DEF TypeOK
  <2>2. Quiet(c)'
    BY <2>1 DEF Quiet
  <2>3. \A x \in Segments : \/ HeaderSame(x)
                            \/ state[x] \notin MemberStates /\ state'[x] \notin MemberStates
    BY <1>0, <1>2, <1>3, <1>4 DEF MemberStates
  <2>4. head'[c] = head[c] /\ tail'[c] = tail[c]
    OBVIOUS
  <2> QED BY <2>2, <2>3, <2>4, QuietKept
<1> QED BY <1>0, <1>1, <1>5, <1>8, <1>9, KeepsIInv

\* A step that takes or drops the lock, or goes on under it, and leaves the quiet
\* chain alone.
LEMMA QuietStep ==
  ASSUME IInv, [Next]_vars, NEW t \in Threads, NEW c \in Buckets, bk[t] = c,
         pc[t] # "expand_lock", lock[c] \in {t, None}, Quiet(c), Quiet(c)',
         \A b \in Buckets : b # c => lock'[b] = lock[b],
         UNCHANGED <<header, head, tail, clock>>, OthersSame(t),
         mine'[t] = mine[t] \/ mine'[t] = None, ThreadOK(t)'
  PROVE  IInv'
<1>0. TypeOK /\ None \notin Segments \cup Buckets \cup Threads
  BY NoneIsNone DEF IInv
<1>1. MineApart'
  BY ApartStep
<1>2. \A s \in Segments : SegmentOK(s)'
  BY DEF IInv, SegmentOK, header
<1>3. \A x \in Segments : HeaderSame(x)
  BY DEF HeaderSame, header
<1>4. \A x \in Segments : Incarnation(x)
  BY <1>0 DEF Incarnation, header, TypeOK
<1>5. \A b \in Buckets : b # c => lock[b] # t
  BY <1>0 DEF TypeOK
<1>6. StepAt(t, c)
  BY <1>3, <1>4, <1>5 DEF StepAt
<1>7. ChainOK(c)'
  BY <1>3, QuietKept
<1> QED BY <1>1, <1>2, <1>6, <1>7, KeepsIInv

\* try_expand under the lock finds another tail.
LEMMA ExpandBailStep ==
  ASSUME IInv, [Next]_vars, NEW t \in Threads, ExpandBail(t)
  PROVE  IInv'
<1>0. TypeOK /\ ThreadOK(t) /\ bk[t] \in Buckets /\ lock[bk[t]] = None
  BY DEF IInv, ThreadOK, PlaceOK, ExpandBail
<1>1. mine[t] # None
  BY <1>0 DEF ThreadOK, PlaceOK, ExpandBail
<1>2. PICK c \in Buckets : c = bk[t]
  BY <1>0
<1>3. lock' = [lock EXCEPT ![c] = None] /\ UNCHANGED <<head, tail, clock>> /\ Quiet(c)
  BY <1>0, <1>2 DEF ExpandBail, bucket, TypeOK, Quiet
<1> QED BY <1>0, <1>1, <1>2, <1>3, GiveBackStep DEF ExpandBail, GapPcs

\* A pass finds no Sealed member of the bucket, or loses the claim.
LEMMA AbandonStep ==
  ASSUME IInv, [Next]_vars, NEW t \in Threads, Abandon(t),
         \/ pc[t] = "evict_lock" /\ lock[bk[t]] = None
         \/ pc[t] \in {"member_ttl", "claim"}
  PROVE  IInv'
<1>0. TypeOK /\ ThreadOK(t) /\ bk[t] \in Buckets
  BY DEF IInv, ThreadOK, PlaceOK
<1>1. PICK c \in Buckets : c = bk[t]
  BY <1>0
<1>2. lock[c] \in {t, None} /\ Quiet(c)
  BY <1>0, <1>1 DEF TypeOK, Quiet, LockedPcs
<1>3. lock' = [lock EXCEPT ![c] = None] /\ pc[t] \notin {"idle", "copy"} \cup GapPcs
  BY <1>1 DEF Abandon, Unlock, GapPcs
<1> QED BY <1>1, <1>2, <1>3, GiveBackStep DEF Abandon

\* is_sealed_member, the TTL.
LEMMA MemberTtlStep ==
  ASSUME IInv, [Next]_vars, NEW t \in Threads, MemberTtl(t)
  PROVE  IInv'
<1>0. TypeOK /\ ThreadOK(t) /\ bk[t] \in Buckets /\ pc[t] = "member_ttl"
  BY DEF IInv, ThreadOK, PlaceOK, MemberTtl
<1>1. CASE Abandon(t)
  BY <1>0, <1>1, AbandonStep
<1>2. CASE ttl[cur[t]] = bk[t] /\ Go(t, "claim") /\ UNCHANGED <<header, bucket, clock>>
  <2>1. PICK c \in Buckets : c = bk[t]
    BY <1>0
  <2>2. lock[c] = t /\ Quiet(c)
    BY <1>0, <2>1 DEF TypeOK, Quiet, LockedPcs
  <2>3. /\ OthersSame(t) /\ mine'[t] = mine[t] /\ merged'[t] = merged[t] /\ job'[t] = job[t]
        /\ pc'[t] = "claim" /\ bk'[t] = bk[t] /\ cur'[t] = cur[t] /\ UNCHANGED <<head, tail, lock>>
    BY <1>0, <1>2 DEF Go, OthersSame, TypeOK, bucket
  <2>4. Quiet(c)'
    BY <2>2, <2>3 DEF Quiet
  <2>5. PlaceOK(t)' /\ CurOK(t)' /\ TailOK(t)'
    BY <1>0, <2>3 DEF ThreadOK, PlaceOK, CurOK, TailOK, ClaimedPcs, GapPcs
  <2>6. MineOK(t)'
    BY <1>0, <1>2, <2>3 DEF ThreadOK, MineOK, GapPcs, header
  <2>7. HintOK(t)'
    <3>1. \A u \in Threads : pc[u] = "expand_lock" =>
            pc'[u] = "expand_lock" /\ mine'[u] = mine[u] /\ bk'[u] = bk[u]
      BY <1>0, <2>3 DEF OthersSame
    <3> QED BY <1>0, <1>2, <2>3, <3>1 DEF ThreadOK, HintOK, header
  <2> QED BY <1>0, <1>2, <2>1, <2>2, <2>3, <2>4, <2>5, <2>6, <2>7, QuietStep DEF ThreadOK
<1> QED BY <1>1, <1>2 DEF MemberTtl

\* drain_chain takes the lock and starts at the head.
LEMMA DrainLockStep ==
  ASSUME IInv, [Next]_vars, NEW t \in Threads, DrainLock(t)
  PROVE  IInv'
<1>0. /\ TypeOK /\ ThreadOK(t) /\ bk[t] \in Buckets /\ lock[bk[t]] = None
      /\ None \notin Segments \cup Buckets \cup Threads
  BY NoneIsNone DEF IInv, ThreadOK, PlaceOK, DrainLock
<1>1. PICK c \in Buckets : c = bk[t]
  BY <1>0
<1>2. /\ OthersSame(t) /\ mine'[t] = mine[t] /\ mine[t] = None /\ merged'[t] = 0
      /\ job'[t] = job[t] /\ job[t] \in DrainJobs
      /\ pc'[t] = "drain_walk" /\ bk'[t] = c /\ cur'[t] = head[c] /\ head' = head
      /\ lock' = [lock EXCEPT ![c] = t]
  BY <1>0, <1>1 DEF DrainLock, OthersSame, TypeOK, ThreadOK, PlaceOK, GapPcs, PassJobs, DrainJobs
<1>3. Quiet(c) /\ Quiet(c)'
  BY <1>0, <1>1, <1>2 DEF Quiet, TypeOK
<1>4. ThreadOK(t)'
  BY <1>0, <1>2 DEF ThreadOK, PlaceOK, MineOK, CurOK, TailOK, HintOK, ClaimedPcs, GapPcs
<1>5. UNCHANGED <<header, head, tail, clock>>
  BY DEF DrainLock
<1>6. \A b \in Buckets : b # c => lock'[b] = lock[b]
  BY <1>0, <1>2 DEF TypeOK
<1>7. pc[t] # "expand_lock" /\ lock[c] \in {t, None} /\ bk[t] = c
  BY <1>0, <1>1 DEF DrainLock
<1> QED BY <1>2, <1>3, <1>4, <1>5, <1>6, <1>7, QuietStep

\* A pass takes the lock and finds its segment Sealed.
LEMMA EvictLockStep ==
  ASSUME IInv, [Next]_vars, NEW t \in Threads, EvictLock(t)
  PROVE  IInv'
<1>0. /\ TypeOK /\ ThreadOK(t) /\ bk[t] \in Buckets /\ lock[bk[t]] = None
      /\ None \notin Segments \cup Buckets \cup Threads
  BY NoneIsNone DEF IInv, ThreadOK, PlaceOK, EvictLock
<1>1. PICK c \in Buckets : c = bk[t]
  BY <1>0
<1>2. /\ OthersSame(t) /\ mine'[t] = mine[t] /\ merged'[t] = merged[t]
      /\ job'[t] = job[t] /\ pc'[t] = "member_ttl" /\ bk'[t] = c /\ cur'[t] = cur[t]
      /\ lock' = [lock EXCEPT ![c] = t] /\ state' = state
  BY <1>0, <1>1 DEF EvictLock, Go, OthersSame, TypeOK, header
<1>3. Quiet(c) /\ Quiet(c)'
  BY <1>0, <1>1, <1>2 DEF Quiet, TypeOK
<1>4. ThreadOK(t)'
  BY <1>0, <1>1, <1>2 DEF EvictLock, ThreadOK, PlaceOK, MineOK, CurOK, TailOK, HintOK, ClaimedPcs, GapPcs
<1>5. UNCHANGED <<header, head, tail, clock>>
  BY DEF EvictLock
<1>6. \A b \in Buckets : b # c => lock'[b] = lock[b]
  BY <1>0, <1>2 DEF TypeOK
<1>7. pc[t] # "expand_lock" /\ lock[c] \in {t, None} /\ bk[t] = c
  BY <1>0, <1>1 DEF EvictLock
<1> QED BY <1>2, <1>3, <1>4, <1>5, <1>6, <1>7, QuietStep

\* drain_chain stops.
LEMMA DrainStopStep ==
  ASSUME IInv, [Next]_vars, NEW t \in Threads, DrainStop(t)
  PROVE  IInv'
<1>0. TypeOK /\ ThreadOK(t) /\ bk[t] \in Buckets /\ pc[t] = "drain_walk"
  BY DEF IInv, ThreadOK, PlaceOK, DrainStop
<1>1. PICK c \in Buckets : c = bk[t]
  BY <1>0
<1>2. lock[c] = t /\ Quiet(c)
  BY <1>0, <1>1 DEF TypeOK, Quiet, LockedPcs
<1>3. lock' = [lock EXCEPT ![c] = None]
  BY <1>1 DEF DrainStop, Unlock
<1>4. Quiet(c)'
  BY <1>0, <1>3 DEF Quiet, TypeOK
<1>5. \A b \in Buckets : b # c => lock'[b] = lock[b]
  BY <1>0, <1>3 DEF TypeOK
<1>6. OthersSame(t) /\ ThreadOK(t)' /\ mine'[t] = None
  BY FinishedOK DEF DrainStop
<1>7. UNCHANGED <<header, head, tail, clock>>
  BY DEF DrainStop
<1> QED BY <1>0, <1>1, <1>2, <1>4, <1>5, <1>6, <1>7, QuietStep

-----------------------------------------------------------------------------
\* A step of the thread that holds the lock of c.
LEMMA LockedStep ==
  ASSUME IInv, [Next]_vars, NEW t \in Threads, NEW c \in Buckets, bk[t] = c, pc[t] \in LockedPcs,
         OthersSame(t),
         \A b \in Buckets : b # c => /\ head'[b] = head[b] /\ tail'[b] = tail[b]
                                     /\ lock'[b] = lock[b],
         \A x \in Segments :
           \/ HeaderSame(x)
           \/ /\ x \in Members(c) \/ x = mine[t] \/ state[x] = "Free"
              /\ state'[x] \notin MemberStates \/ ttl'[x] = c
              /\ ttl'[x] = ttl[x] \/ ttl'[x] = c,
         \A x \in Segments : Incarnation(x),
         ThreadOK(t)', ChainOK(c)', \A s \in Segments : SegmentOK(s)',
         \/ mine'[t] = mine[t] \/ mine'[t] = None
         \/ mine'[t] \in Segments /\ state[mine'[t]] = "Free"
  PROVE  IInv'
<1>0. TypeOK /\ ThreadOK(t) /\ None \notin Segments \cup Buckets \cup Threads
  BY NoneIsNone DEF IInv
<1>1. lock[c] = t /\ pc[t] # "expand_lock" /\ \A b \in Buckets : b # c => lock[b] # t
  BY <1>0 DEF TypeOK, LockedPcs
<1>2. MineApart'
  BY ApartStep
<1>3. ASSUME NEW x \in Segments, x \in Members(c) \/ x = mine[t] \/ state[x] = "Free"
      PROVE  /\ state[x] \notin MemberStates \/ ttl[x] = c
             /\ \A u \in Threads : u # t => mine[u] # x
  <2>1. state[x] \notin MemberStates \/ ttl[x] = c
    BY <1>0, <1>3 DEF ThreadOK, PlaceOK, MineOK, Members, MemberStates
  <2>2. ASSUME NEW u \in Threads, u # t, mine[u] = x PROVE FALSE
    <3>1. mine[u] # None
      BY <1>0, <2>2
    <3>2. /\ state[x] \in {"Reserved", "Sealed", "Relinking"}
          /\ x # mine[t]
          /\ x \in Members(c) => lock[c] = u
      BY <2>2, <3>1, OwnApart
    <3> QED BY <1>1, <1>3, <2>2, <3>2
  <2> QED BY <2>1, <2>2
<1>4. \A x \in Segments : HeaderSame(x) \/ Touches(t, c, x)
  BY <1>3 DEF Touches
<1>5. StepAt(t, c)
  BY <1>1, <1>4 DEF StepAt
<1> QED BY <1>2, <1>5, KeepsIInv

\* The holder's chain, by where its pass is.
LEMMA HolderView ==
  ASSUME IInv, NEW t \in Threads, NEW c \in Buckets, bk[t] = c, pc[t] \in LockedPcs
  PROVE  /\ lock[c] = t /\ Members(c) \subseteq Segments
         /\ pc[t] \notin GapPcs =>
              /\ ~Gap(c) /\ Chain(c) = Members(c) /\ NextIn(c) = next /\ PrevIn(c) = prev
              /\ HeadIn(c) = head[c]
              /\ List(Members(c), next, prev, head[c], tail[c])
              /\ \A x \in Members(c) : next[x] # None => created[x] <= created[next[x]]
         /\ pc[t] \in GapPcs =>
              /\ Gap(c) /\ Chain(c) = Members(c) \ {cur[t]}
              /\ NextIn(c) = [x \in Segments |-> IF x = pv[t] THEN nx[t] ELSE next[x]]
              /\ PrevIn(c) = [x \in Segments |-> IF x = nx[t] THEN pv[t] ELSE prev[x]]
              /\ HeadIn(c) = IF pv[t] = None THEN nx[t] ELSE head[c]
<1>0. TypeOK /\ ChainOK(c) /\ None \notin Segments \cup Buckets \cup Threads
  BY NoneIsNone DEF IInv
<1>1. lock[c] = t /\ Members(c) \subseteq Segments
  BY <1>0 DEF TypeOK, Members
<1>2. ASSUME pc[t] \notin GapPcs
      PROVE  /\ ~Gap(c) /\ Chain(c) = Members(c) /\ NextIn(c) = next /\ PrevIn(c) = prev
             /\ HeadIn(c) = head[c]
  BY <1>0, <1>1, <1>2 DEF Gap, Chain, NextIn, PrevIn, HeadIn
<1>3. ASSUME pc[t] \in GapPcs
      PROVE  /\ Gap(c) /\ Chain(c) = Members(c) \ {cur[t]}
             /\ NextIn(c) = [x \in Segments |-> IF x = pv[t] THEN nx[t] ELSE next[x]]
             /\ PrevIn(c) = [x \in Segments |-> IF x = nx[t] THEN pv[t] ELSE prev[x]]
             /\ HeadIn(c) = IF pv[t] = None THEN nx[t] ELSE head[c]
  <2>1. Gap(c)
    BY <1>0, <1>1, <1>3 DEF Gap
  <2> QED BY <1>1, <2>1 DEF Chain, NextIn, PrevIn, HeadIn
<1>4. ASSUME pc[t] \notin GapPcs
      PROVE  /\ List(Members(c), next, prev, head[c], tail[c])
             /\ \A x \in Members(c) : next[x] # None => created[x] <= created[next[x]]
  BY <1>0, <1>2, <1>4 DEF ChainOK
<1> QED BY <1>1, <1>2, <1>3, <1>4

\* The claimed segment is on its way out: the chain without it is a list again, once
\* its neighbours and the head word are patched.
LEMMA LeavesChain ==
  ASSUME IInv, TypeOK', NEW t \in Threads, NEW c \in Buckets, bk[t] = c, bk'[t] = c,
         pc[t] \in LockedPcs \ GapPcs, pc'[t] = "finalize",
         NEW s \in Members(c), cur'[t] = s, nx'[t] = next[s], pv'[t] = prev[s],
         next' = next, prev' = prev, created' = created, Members(c)' = Members(c),
         tail'[c] = IF next[s] = None THEN prev[s] ELSE tail[c],
         prev[s] # None => head'[c] = head[c],
         \A x \in Members(c) \ {s} : StateIn(c, x)'
  PROVE  /\ ChainOK(c)'
         /\ Chain(c)' = Members(c) \ {s}
         /\ next[s] \in (Members(c) \ {s}) \cup {None}
         /\ prev[s] \in (Members(c) \ {s}) \cup {None}
<1>0. TypeOK /\ None \notin Segments \cup Buckets \cup Threads
  BY NoneIsNone DEF IInv
<1>1. /\ lock[c] = t /\ Members(c) \subseteq Segments
      /\ List(Members(c), next, prev, head[c], tail[c])
      /\ \A x \in Members(c) : next[x] # None => created[x] <= created[next[x]]
  BY HolderView
<1>2. lock'[c] = t
  BY DEF TypeOK, LockedPcs
<1>3. Gap(c)'
  BY <1>0, <1>2 DEF Gap, GapPcs
<1>4. /\ Chain(c)' = Members(c) \ {s}
      /\ NextIn(c)' = [x \in Segments |-> IF x = prev[s] THEN next[s] ELSE next[x]]
      /\ PrevIn(c)' = [x \in Segments |-> IF x = next[s] THEN prev[s] ELSE prev[x]]
      /\ HeadIn(c)' = IF prev[s] = None THEN next[s] ELSE head[c]
  BY <1>2, <1>3 DEF Chain, NextIn, PrevIn, HeadIn
<1>5. /\ \A x \in Members(c) : NextIn(c)'[x] = IF x = prev[s] THEN next[s] ELSE next[x]
      /\ \A x \in Members(c) : PrevIn(c)'[x] = IF x = next[s] THEN prev[s] ELSE prev[x]
  BY <1>1, <1>4
<1>6. PICK n, p : n = NextIn(c)' /\ p = PrevIn(c)'
  OBVIOUS
<1>7. /\ List(Members(c) \ {s}, n, p, HeadIn(c)', tail'[c])
      /\ next[s] \in (Members(c) \ {s}) \cup {None}
      /\ prev[s] \in (Members(c) \ {s}) \cup {None}
  <2>1. /\ \A x \in Members(c) : n[x] = IF x = prev[s] THEN next[s] ELSE next[x]
        /\ \A x \in Members(c) : p[x] = IF x = next[s] THEN prev[s] ELSE prev[x]
    BY <1>5, <1>6
  <2>2. PICK h, e : /\ h = HeadIn(c)' /\ h = IF prev[s] = None THEN next[s] ELSE head[c]
                    /\ e = tail'[c] /\ e = IF next[s] = None THEN prev[s] ELSE tail[c]
    BY <1>4
  <2>3. List(Members(c) \ {s}, n, p, FirstWithout(s, next, prev, head[c]),
                                     LastWithout(s, next, prev, tail[c]))
    BY <1>1, <2>1, ListRemove
  <2>4. /\ next[s] \in (Members(c) \ {s}) \cup {None}
        /\ prev[s] \in (Members(c) \ {s}) \cup {None}
    <3>1. PICK L, f, g, a, z :
            L = Members(c) /\ f = next /\ g = prev /\ a = head[c] /\ z = tail[c]
      BY <1>1
    <3>2. L \in SUBSET Segments /\ s \in L /\ List(L, f, g, a, z)
      BY <1>1, <3>1
    <3>3. f[s] \in (L \ {s}) \cup {None} /\ g[s] \in (L \ {s}) \cup {None}
      BY ONLY <3>2, ListNeighbours
    <3> QED BY <3>1, <3>3
  <2> QED BY <2>2, <2>3, <2>4 DEF FirstWithout, LastWithout
<1>8. \A x \in Members(c) \ {s} : n[x] # None => created[x] <= created[n[x]]
  <2> SUFFICES ASSUME NEW x \in Members(c) \ {s}, n[x] # None
               PROVE  created[x] <= created[n[x]]
    OBVIOUS
  <2>1. CASE x # prev[s]
    BY <1>1, <1>5, <1>6, <2>1
  <2>2. CASE x = prev[s]
    <3>1. n[x] = next[s] /\ next[s] \in Members(c) /\ next[x] = s
      BY <1>0, <1>1, <1>5, <1>6, <1>7, <2>2 DEF List
    <3>2. created[x] <= created[s] /\ created[s] <= created[n[x]]
      BY <1>0, <1>1, <3>1
    <3>3. created[x] \in Int /\ created[s] \in Int /\ created[n[x]] \in Int
      BY <1>0, <1>1, <3>1 DEF TypeOK
    <3> QED BY <3>2, <3>3
  <2> QED BY <2>1, <2>2
<1> QED BY <1>4, <1>6, <1>7, <1>8 DEF ChainOK

\* Recycling and condemning keep the chain that is left.
LEMMA GapKept ==
  ASSUME IInv, TypeOK', NEW t \in Threads, NEW c \in Buckets, bk[t] = c, bk'[t] = c,
         pc[t] \in GapPcs, pc'[t] \in GapPcs,
         cur'[t] = cur[t], mine'[t] = mine[t], job'[t] = job[t], nx'[t] = nx[t], pv'[t] = pv[t],
         head' = head, tail' = tail, Chain(c)' = Chain(c),
         \A x \in Chain(c) : /\ state'[x] = state[x] /\ created'[x] = created[x]
                             /\ NextIn(c)'[x] = NextIn(c)[x] /\ PrevIn(c)'[x] = PrevIn(c)[x]
  PROVE  ChainOK(c)'
<1>0. TypeOK /\ ChainOK(c) /\ None \notin Segments \cup Buckets \cup Threads
  BY NoneIsNone DEF IInv
<1>1. lock[c] = t /\ lock'[c] = t
  BY <1>0 DEF TypeOK, LockedPcs, GapPcs
<1>2. HeadIn(c)' = HeadIn(c)
  BY <1>0, <1>1 DEF HeadIn, Gap
<1>3. PICK n, p : n = NextIn(c)' /\ p = PrevIn(c)'
  OBVIOUS
<1>4. List(Chain(c), n, p, HeadIn(c), tail[c])
  BY <1>0, <1>3, ListSame DEF ChainOK
<1>5. \A x \in Chain(c) : StateIn(c, x)'
  BY <1>0, <1>1 DEF StateIn, ChainOK, ClaimedPcs, GapPcs
<1>6. \A x \in Chain(c) : NextIn(c)[x] # None => NextIn(c)[x] \in Chain(c)
  BY <1>0 DEF ChainOK, List
<1>7. \A x \in Chain(c) : n[x] # None => created'[x] <= created'[n[x]]
  BY <1>0, <1>3, <1>6 DEF ChainOK
<1> QED BY <1>2, <1>3, <1>4, <1>5, <1>7 DEF ChainOK

\* The neighbours are patched and the head word is put right: the members are the
\* chain.
LEMMA GapClosed ==
  ASSUME IInv, TypeOK', NEW t \in Threads, NEW c \in Buckets, bk[t] = c, pc[t] = "after",
         Gap(c)' = FALSE, next' = next, prev' = prev, created' = created,
         Members(c)' = Members(c), tail'[c] = tail[c],
         head'[c] = IF pv[t] = None THEN nx[t] ELSE head[c],
         \A x \in Members(c) : StateIn(c, x)'
  PROVE  ChainOK(c)'
<1>0. TypeOK /\ ChainOK(c) /\ ThreadOK(t) /\ None \notin Segments \cup Buckets \cup Threads
  BY NoneIsNone DEF IInv
<1>1. /\ Chain(c) = Members(c) \ {cur[t]} /\ Members(c) \subseteq Segments
      /\ NextIn(c) = [x \in Segments |-> IF x = pv[t] THEN nx[t] ELSE next[x]]
      /\ PrevIn(c) = [x \in Segments |-> IF x = nx[t] THEN pv[t] ELSE prev[x]]
      /\ HeadIn(c) = IF pv[t] = None THEN nx[t] ELSE head[c]
  BY HolderView DEF LockedPcs, GapPcs
<1>2. Chain(c) = Members(c)
  BY <1>0, <1>1 DEF ThreadOK, CurOK
<1>3. \A x \in Members(c) : next[x] = NextIn(c)[x] /\ prev[x] = PrevIn(c)[x]
  BY <1>0, <1>1 DEF ThreadOK, CurOK
<1>4. List(Members(c), next, prev, HeadIn(c), tail[c])
  BY <1>0, <1>2, <1>3, ListSame DEF ChainOK
<1>5. \A x \in Members(c) : next[x] # None => created[x] <= created[next[x]]
  BY <1>0, <1>2, <1>3 DEF ChainOK
<1>6. Chain(c)' = Members(c) /\ NextIn(c)' = next /\ PrevIn(c)' = prev /\ HeadIn(c)' = HeadIn(c)
  BY <1>1 DEF Chain, NextIn, PrevIn, HeadIn
<1> QED BY <1>4, <1>5, <1>6 DEF ChainOK

\* A pass goes on with all segments in their places.
LEMMA PlacesKept ==
  ASSUME IInv, TypeOK', NEW t \in Threads, NEW c \in Buckets, bk[t] = c, bk'[t] = c,
         pc[t] \in LockedPcs \ GapPcs, pc'[t] \in LockedPcs \ GapPcs,
         \A x \in Members(c) : next'[x] = next[x] /\ prev'[x] = prev[x] /\ created'[x] = created[x],
         Members(c)' = Members(c), head'[c] = head[c], tail'[c] = tail[c],
         \A x \in Members(c) : StateIn(c, x)'
  PROVE  ChainOK(c)'
<1>1. /\ List(Members(c), next, prev, head[c], tail[c])
      /\ \A x \in Members(c) : next[x] # None => created[x] <= created[next[x]]
  BY HolderView
<1>2. lock'[c] = t
  BY DEF TypeOK
<1>3. Gap(c)' = FALSE
  BY <1>2 DEF Gap
<1>4. Chain(c)' = Members(c) /\ NextIn(c)' = next' /\ PrevIn(c)' = prev' /\ HeadIn(c)' = head[c]
  BY <1>3 DEF Chain, NextIn, PrevIn, HeadIn
<1>5. List(Members(c), next', prev', head[c], tail[c])
  BY <1>1, ListSame
<1>6. \A x \in Members(c) : next[x] # None => next[x] \in Members(c)
  BY <1>1 DEF List
<1>7. \A x \in Members(c) : next'[x] # None => created'[x] <= created'[next'[x]]
  BY <1>1, <1>6
<1> QED BY <1>4, <1>5, <1>7 DEF ChainOK

\* claim_for_drain.
LEMMA ClaimStep ==
  ASSUME IInv, [Next]_vars, NEW t \in Threads, Claim(t)
  PROVE  IInv'
<1>0. /\ TypeOK /\ TypeOK' /\ ThreadOK(t) /\ bk[t] \in Buckets /\ pc[t] = "claim"
      /\ None \notin Segments \cup Buckets \cup Threads
  BY NoneIsNone, TypeStep DEF IInv, ThreadOK, PlaceOK, Claim
<1>1. PICK c \in Buckets : c = bk[t]
  BY <1>0
<1>2. PICK s \in Segments : s = cur[t] /\ state[s] = "Sealed" /\ ttl[s] = c
  BY <1>0, <1>1 DEF ThreadOK, PlaceOK, HintOK, Claim
<1>3. /\ OthersSame(t) /\ mine'[t] = mine[t] /\ merged'[t] = merged[t] /\ job'[t] = job[t]
      /\ bk'[t] = c /\ cur'[t] = s /\ nx'[t] = next[s] /\ pv'[t] = prev[s] /\ merged[t] = 0
      /\ job[t] \in PassJobs
      /\ job[t] = "drop" => pc'[t] = "finalize"
      /\ job[t] = "promote" => pc'[t] = "dest"
      /\ job[t] = "merge" => pc'[t] = "link"
  <2>1. PICK p : pc' = [pc EXCEPT ![t] = p] /\ p = CASE job[t] = "drop" -> "finalize"
                                                   [] job[t] = "promote" -> "dest"
                                                   [] job[t] = "merge" -> "link"
    BY DEF Claim
  <2>2. /\ job[t] = "drop" => p = "finalize"
        /\ job[t] = "promote" => p = "dest"
        /\ job[t] = "merge" => p = "link"
    BY <2>1
  <2>3. pc'[t] = p /\ \A u \in Threads : u # t => pc'[u] = pc[u]
    <3>1. pc' = [pc EXCEPT ![t] = p]
      BY <2>1
    <3> QED BY <1>0, <3>1 DEF TypeOK
  <2>4. job[t] \in PassJobs /\ merged[t] = 0
    BY <1>0 DEF ThreadOK, PlaceOK, GapPcs
  <2> QED BY <1>0, <1>1, <1>2, <2>2, <2>3, <2>4 DEF Claim, OthersSame, TypeOK
<1>4. /\ state'[s] = "Draining" /\ \A x \in Segments : x # s => state'[x] = state[x]
      /\ UNCHANGED <<next, prev, ttl, created, gen, full, limit, head, tail, lock, clock>>
  BY <1>0, <1>2 DEF Claim, TypeOK, bucket
<1>5. s \in Members(c) /\ Members(c)' = Members(c)
  BY <1>1, <1>2, <1>4 DEF Members
<1>6. /\ lock[c] = t /\ Members(c) \subseteq Segments
      /\ List(Members(c), next, prev, head[c], tail[c])
      /\ \A x \in Members(c) : state[x] = IF x = tail[c] THEN "Live" ELSE "Sealed"
  <2>1. pc[t] \in LockedPcs \ GapPcs
    BY <1>0 DEF LockedPcs, GapPcs
  <2>2. Quiet(c)
    BY <1>0, <1>1, <2>1, HolderView DEF Quiet
  <2> QED BY <1>1, <2>1, <2>2, HolderView, QuietStates
<1>7. s # tail[c] /\ next[s] # None
  BY <1>0, <1>2, <1>5, <1>6 DEF List
<1>8. \A x \in Members(c) : x # s => StateIn(c, x)'
  BY <1>4, <1>6 DEF StateIn
<1>9. \A x \in Segments : SegmentOK(x)'
  BY <1>2, <1>4 DEF IInv, SegmentOK, MemberStates
<1>10. \A x \in Segments : HeaderSame(x) \/ x = s
  BY <1>4 DEF HeaderSame
<1>11. \A x \in Segments : Incarnation(x)
  BY <1>0, <1>2, <1>4 DEF Incarnation, TypeOK, UsedStates, MemberStates
<1>12. mine[t] # s
  BY <1>0, <1>2 DEF ThreadOK, MineOK
<1>13. ChainOK(c)' /\ CurOK(t)'
  <2>1. CASE job[t] = "drop"
    <3>1. pc'[t] = "finalize"
      BY <1>3, <2>1
    <3>2. /\ ChainOK(c)' /\ Chain(c)' = Members(c) \ {s}
          /\ next[s] \in (Members(c) \ {s}) \cup {None}
          /\ prev[s] \in (Members(c) \ {s}) \cup {None}
      BY <1>0, <1>1, <1>3, <1>4, <1>5, <1>7, <1>8, <3>1, LeavesChain DEF LockedPcs, GapPcs
    <3>3. Chain(bk[t])' = Members(c) \ {s}
      BY <1>3, <3>2
    <3> QED BY <1>2, <1>3, <1>4, <2>1, <3>1, <3>2, <3>3 DEF CurOK, ClaimedPcs, GapPcs, DrainJobs
  <2>2. CASE job[t] # "drop"
    <3>1. pc'[t] \in {"dest", "link"}
      BY <1>3, <2>2 DEF PassJobs
    <3>2. StateIn(c, s)'
      BY <1>0, <1>3, <1>4, <1>6, <1>7, <3>1 DEF StateIn, ClaimedPcs
    <3>3. \A x \in Members(c) : StateIn(c, x)'
      BY <1>8, <3>2
    <3>4. \A x \in Members(c) : next'[x] = next[x] /\ prev'[x] = prev[x] /\ created'[x] = created[x]
      BY <1>4
    <3>5. pc[t] \in LockedPcs \ GapPcs /\ pc'[t] \in LockedPcs \ GapPcs
      BY <1>0, <3>1 DEF LockedPcs, GapPcs
    <3>6. ChainOK(c)'
      BY <1>0, <1>1, <1>3, <1>4, <1>5, <3>3, <3>4, <3>5, PlacesKept
    <3> QED BY <1>2, <1>3, <1>4, <3>1, <3>6 DEF CurOK, ClaimedPcs, GapPcs
  <2> QED BY <2>1, <2>2
<1>14. PlaceOK(t)' /\ MineOK(t)' /\ TailOK(t)' /\ HintOK(t)'
  <2>1. pc'[t] \in {"finalize", "dest", "link"}
    BY <1>3 DEF PassJobs
  <2>2. mine[t] # None <=> job[t] = "merge"
    BY <1>0 DEF ThreadOK, PlaceOK, GapPcs
  <2>3. PlaceOK(t)'
    BY <1>0, <1>1, <1>2, <1>3, <2>1, <2>2 DEF ThreadOK, PlaceOK, GapPcs, ClaimedPcs, PassJobs
  <2>4. mine[t] # None => pc'[t] = "link" /\ state'[mine[t]] = "Reserved"
    BY <1>0, <1>3, <1>4, <1>12, <2>2 DEF ThreadOK, MineOK, TypeOK
  <2> QED BY <1>3, <2>1, <2>3, <2>4 DEF MineOK, TailOK, HintOK, GapPcs
<1>15. pc[t] \in LockedPcs
  BY <1>0 DEF LockedPcs
<1>16. \A x \in Segments :
         \/ HeaderSame(x)
         \/ /\ x \in Members(c) \/ x = mine[t] \/ state[x] = "Free"
            /\ state'[x] \notin MemberStates \/ ttl'[x] = c
            /\ ttl'[x] = ttl[x] \/ ttl'[x] = c
  BY <1>2, <1>4, <1>5, <1>10
<1> QED BY <1>1, <1>3, <1>4, <1>9, <1>11, <1>13, <1>14, <1>15, <1>16, LockedStep DEF ThreadOK

\* drain_chain claims the head.
LEMMA DrainClaimStep ==
  ASSUME IInv, [Next]_vars, NEW t \in Threads, DrainClaim(t)
  PROVE  IInv'
<1>0. /\ TypeOK /\ TypeOK' /\ ThreadOK(t) /\ bk[t] \in Buckets /\ pc[t] = "drain_walk"
      /\ None \notin Segments \cup Buckets \cup Threads
  BY NoneIsNone, TypeStep DEF IInv, ThreadOK, PlaceOK, DrainClaim
<1>1. PICK c \in Buckets : c = bk[t]
  BY <1>0
<1>2. pc[t] \in LockedPcs \ GapPcs
  BY <1>0 DEF LockedPcs, GapPcs
<1>3. /\ lock[c] = t /\ Members(c) \subseteq Segments
      /\ List(Members(c), next, prev, head[c], tail[c])
      /\ \A x \in Members(c) : state[x] = IF x = tail[c] THEN "Live" ELSE "Sealed"
  <2>1. Quiet(c)
    BY <1>0, <1>1, <1>2, HolderView DEF Quiet
  <2> QED BY <1>1, <1>2, <2>1, HolderView, QuietStates
<1>4. PICK s \in Segments : s = cur[t] /\ s = head[c] /\ state[s] \in {"Sealed", "Live"}
  BY <1>0, <1>1 DEF ThreadOK, CurOK, DrainClaim, DrainEnd, TypeOK
<1>5. s \in Members(c) /\ ttl[s] = c /\ prev[s] = None /\ (next[s] = None <=> s = tail[c])
  BY <1>0, <1>3, <1>4 DEF List, Members
<1>6. /\ OthersSame(t) /\ mine'[t] = mine[t] /\ mine[t] = None /\ merged'[t] = 0
      /\ job'[t] = job[t] /\ job[t] \in DrainJobs
      /\ bk'[t] = c /\ cur'[t] = s /\ nx'[t] = next[s] /\ pv'[t] = prev[s]
      /\ pc'[t] = "finalize"
  <2>1. mine[t] = None /\ merged[t] = 0 /\ job[t] \in DrainJobs
    BY <1>0 DEF ThreadOK, PlaceOK, GapPcs, DrainJobs
  <2> QED BY <1>0, <1>1, <1>4, <2>1 DEF DrainClaim, OthersSame, TypeOK
<1>7. /\ state'[s] = "Draining" /\ \A x \in Segments : x # s => state'[x] = state[x]
      /\ UNCHANGED <<next, prev, ttl, created, gen, full, limit, lock, clock>>
      /\ head'[c] = next[s]
      /\ tail'[c] = IF next[s] = None THEN prev[s] ELSE tail[c]
      /\ \A b \in Buckets : b # c => head'[b] = head[b] /\ tail'[b] = tail[b]
  BY <1>0, <1>1, <1>4, <1>5 DEF DrainClaim, TypeOK
<1>8. Members(c)' = Members(c)
  BY <1>4, <1>5, <1>7 DEF Members
<1>9. \A x \in Members(c) \ {s} : StateIn(c, x)'
  BY <1>0, <1>3, <1>5, <1>7 DEF StateIn
<1>10. /\ ChainOK(c)' /\ Chain(c)' = Members(c) \ {s}
       /\ next[s] \in (Members(c) \ {s}) \cup {None}
       /\ prev[s] \in (Members(c) \ {s}) \cup {None}
  BY <1>0, <1>1, <1>2, <1>5, <1>6, <1>7, <1>8, <1>9, LeavesChain
<1>11. Chain(bk[t])' = Members(c) \ {s}
  BY <1>6, <1>10
<1>12. CurOK(t)'
  BY <1>4, <1>5, <1>6, <1>7, <1>10, <1>11 DEF CurOK, ClaimedPcs, GapPcs
<1>13. PlaceOK(t)' /\ MineOK(t)' /\ TailOK(t)' /\ HintOK(t)'
  BY <1>0, <1>1, <1>4, <1>6 DEF PlaceOK, MineOK, TailOK, HintOK, GapPcs, ClaimedPcs, DrainJobs
<1>14. \A x \in Segments : SegmentOK(x)'
  BY <1>4, <1>7 DEF IInv, SegmentOK, MemberStates
<1>15. \A x \in Segments : Incarnation(x)
  BY <1>0, <1>4, <1>7 DEF Incarnation, TypeOK, UsedStates, MemberStates
<1>16. \A x \in Segments :
         \/ HeaderSame(x)
         \/ /\ x \in Members(c) \/ x = mine[t] \/ state[x] = "Free"
            /\ state'[x] \notin MemberStates \/ ttl'[x] = c
            /\ ttl'[x] = ttl[x] \/ ttl'[x] = c
  BY <1>5, <1>7 DEF HeaderSame
<1> QED BY <1>1, <1>2, <1>6, <1>7, <1>10, <1>12, <1>13, <1>14, <1>15, <1>16, LockedStep DEF ThreadOK

\* A claimed segment is a member of the locked chain, and not its tail.
LEMMA ClaimedIn ==
  ASSUME IInv, NEW t \in Threads, NEW c \in Buckets, bk[t] = c, pc[t] \in ClaimedPcs,
         NEW s \in Segments, s = cur[t]
  PROVE  /\ s \in Members(c) /\ state[s] = "Draining" /\ ttl[s] = c
         /\ s # tail[c] /\ next[s] # None
         /\ \A x \in Members(c) : x # s =>
              \/ state[x] = IF x = tail[c] THEN "Live" ELSE "Sealed"
              \/ x = mine[t] /\ pc[t] = "copy" /\ x # tail[c]
         /\ mine[t] \in Members(c) => pc[t] = "copy"
<1>0. TypeOK /\ ThreadOK(t) /\ ChainOK(c) /\ None \notin Segments \cup Buckets \cup Threads
  BY NoneIsNone DEF IInv
<1>1. pc[t] \in LockedPcs \ GapPcs
  BY DEF LockedPcs, GapPcs, ClaimedPcs
<1>2. /\ lock[c] = t /\ Chain(c) = Members(c)
      /\ List(Members(c), next, prev, head[c], tail[c])
  BY <1>1, HolderView
<1>3. s \in Members(c) /\ state[s] = "Draining" /\ ttl[s] = c
  BY <1>0 DEF ThreadOK, CurOK, Members
<1>4. \A x \in Members(c) : StateIn(c, x)
  BY <1>0, <1>2 DEF ChainOK
<1>5. s # tail[c] /\ next[s] # None
  <2>1. s # tail[c]
    BY <1>3, <1>4 DEF StateIn
  <2>2. next[s] \in Members(c) /\ Members(c) \subseteq Segments
    BY <1>2, <1>3, <2>1 DEF List, Members
  <2> QED BY <1>0, <2>1, <2>2
<1>6. \A x \in Members(c) : x # s =>
        \/ state[x] = IF x = tail[c] THEN "Live" ELSE "Sealed"
        \/ x = mine[t] /\ pc[t] = "copy" /\ x # tail[c]
  BY <1>1, <1>2, <1>4 DEF StateIn
<1>7. mine[t] \in Members(c) => pc[t] = "copy"
  BY <1>0, <1>1 DEF ThreadOK, PlaceOK, MineOK, Members, ClaimedPcs
<1> QED BY <1>3, <1>5, <1>6, <1>7

\* A promotion reserves its destination under the lock.
LEMMA PromoteDestStep ==
  ASSUME IInv, [Next]_vars, NEW t \in Threads, PromoteDest(t)
  PROVE  IInv'
<1>0. /\ TypeOK /\ TypeOK' /\ ThreadOK(t) /\ bk[t] \in Buckets /\ pc[t] = "dest"
      /\ None \notin Segments \cup Buckets \cup Threads /\ cur[t] \in Segments
  BY NoneIsNone, TypeStep DEF IInv, ThreadOK, PlaceOK, PromoteDest, ClaimedPcs
<1>1. PICK c \in Buckets : c = bk[t]
  BY <1>0
<1>2. PICK d \in Segments : state[d] = "Free" /\ TryReserve(d, bk[t]) /\ mine' = [mine EXCEPT ![t] = d]
  BY DEF PromoteDest, Reservable
<1>3. /\ OthersSame(t) /\ mine'[t] = d /\ merged'[t] = 0 /\ job'[t] = "promote"
      /\ bk'[t] = c /\ cur'[t] = cur[t] /\ pc'[t] = "link" /\ UNCHANGED <<bucket, clock>>
  <2>1. merged[t] = 0 /\ job[t] = "promote"
    BY <1>0 DEF ThreadOK, PlaceOK, GapPcs
  <2> QED BY <1>0, <1>1, <1>2, <2>1 DEF PromoteDest, OthersSame, TypeOK
<1>4. /\ state'[d] = "Reserved" /\ ttl'[d] = c /\ created'[d] = clock /\ limit'[d] = MaxTime
      /\ gen' = gen
      /\ \A x \in Segments : x # d => /\ HeaderSame(x) /\ full'[x] = full[x]
                                      /\ limit'[x] = limit[x]
  BY <1>0, <1>1, <1>2 DEF TryReserve, TypeOK, HeaderSame
<1>5. pc[t] \in LockedPcs \ GapPcs /\ pc'[t] \in LockedPcs \ GapPcs
  BY <1>0, <1>3 DEF LockedPcs, GapPcs
<1>6. /\ cur[t] \in Members(c) /\ state[cur[t]] = "Draining" /\ ttl[cur[t]] = c /\ cur[t] # tail[c]
      /\ \A x \in Members(c) : x # cur[t] => state[x] = IF x = tail[c] THEN "Live" ELSE "Sealed"
  BY <1>0, <1>1, ClaimedIn DEF ClaimedPcs
<1>7. Members(c)' = Members(c) /\ d \notin Members(c) /\ Members(c) \subseteq Segments
  BY <1>2, <1>4 DEF Members, HeaderSame
<1>8. lock'[c] = t /\ tail'[c] = tail[c] /\ head'[c] = head[c]
  BY <1>0, <1>3, <1>5 DEF TypeOK, bucket
<1>9. \A x \in Members(c) : StateIn(c, x)'
  BY <1>0, <1>3, <1>4, <1>6, <1>7, <1>8 DEF StateIn, HeaderSame, ClaimedPcs
<1>10. \A x \in Members(c) : next'[x] = next[x] /\ prev'[x] = prev[x] /\ created'[x] = created[x]
  BY <1>4, <1>7 DEF HeaderSame
<1>11. ChainOK(c)'
  BY <1>0, <1>1, <1>3, <1>5, <1>7, <1>8, <1>9, <1>10, PlacesKept
<1>12. ThreadOK(t)'
  <2>1. cur[t] # d /\ state'[cur[t]] = "Draining" /\ ttl'[cur[t]] = c
    BY <1>0, <1>4, <1>6, <1>7 DEF HeaderSame
  <2> QED BY <1>0, <1>1, <1>2, <1>3, <1>4, <2>1
          DEF ThreadOK, PlaceOK, MineOK, CurOK, TailOK, HintOK, ClaimedPcs, GapPcs
<1>13. \A x \in Segments : SegmentOK(x)'
  <2>1. \A x \in Segments : SegmentOK(x) /\ clock \in Int /\ clock' = clock
    BY <1>0, <1>3 DEF IInv, TypeOK
  <2> QED BY <1>4, <2>1 DEF SegmentOK, MemberStates, HeaderSame
<1>14. \A x \in Segments : Incarnation(x)
  BY <1>0, <1>2, <1>4 DEF Incarnation, TypeOK, UsedStates, MemberStates, HeaderSame
<1>15. \A x \in Segments :
         \/ HeaderSame(x)
         \/ /\ x \in Members(c) \/ x = mine[t] \/ state[x] = "Free"
            /\ state'[x] \notin MemberStates \/ ttl'[x] = c
            /\ ttl'[x] = ttl[x] \/ ttl'[x] = c
  BY <1>2, <1>4
<1>16. \A b \in Buckets : b # c => head'[b] = head[b] /\ tail'[b] = tail[b] /\ lock'[b] = lock[b]
  BY <1>3 DEF bucket
<1> QED BY <1>1, <1>2, <1>3, <1>5, <1>11, <1>12, <1>13, <1>14, <1>15, <1>16, LockedStep

\* A promotion without a destination drops the segment.
LEMMA PromoteNoDestStep ==
  ASSUME IInv, [Next]_vars, NEW t \in Threads, PromoteNoDest(t)
  PROVE  IInv'
<1>0. /\ TypeOK /\ TypeOK' /\ ThreadOK(t) /\ bk[t] \in Buckets /\ pc[t] = "dest"
      /\ None \notin Segments \cup Buckets \cup Threads /\ cur[t] \in Segments
  BY NoneIsNone, TypeStep DEF IInv, ThreadOK, PlaceOK, PromoteNoDest, ClaimedPcs
<1>1. PICK c \in Buckets : c = bk[t]
  BY <1>0
<1>2. PICK s \in Segments : s = cur[t] /\ nx[t] = next[s] /\ pv[t] = prev[s]
  BY <1>0 DEF ThreadOK, CurOK
<1>3. /\ OthersSame(t) /\ mine'[t] = mine[t] /\ mine[t] = None /\ merged'[t] = 0
      /\ job'[t] = "promote" /\ bk'[t] = c /\ cur'[t] = s /\ pc'[t] = "finalize"
      /\ nx'[t] = next[s] /\ pv'[t] = prev[s] /\ UNCHANGED <<header, bucket, clock>>
  <2>1. merged[t] = 0 /\ job[t] = "promote" /\ mine[t] = None
    BY <1>0 DEF ThreadOK, PlaceOK, GapPcs
  <2> QED BY <1>0, <1>1, <1>2, <2>1 DEF PromoteNoDest, Go, OthersSame, TypeOK
<1>4. pc[t] \in LockedPcs \ GapPcs
  BY <1>0 DEF LockedPcs, GapPcs
<1>5. /\ s \in Members(c) /\ state[s] = "Draining" /\ ttl[s] = c /\ next[s] # None
      /\ \A x \in Members(c) : x # s => state[x] = IF x = tail[c] THEN "Live" ELSE "Sealed"
  BY <1>0, <1>1, <1>2, ClaimedIn DEF ClaimedPcs
<1>6. Members(c)' = Members(c)
  BY <1>3 DEF Members, header
<1>7. \A x \in Members(c) \ {s} : StateIn(c, x)'
  BY <1>3, <1>5 DEF StateIn, header, bucket
<1>8. /\ ChainOK(c)' /\ Chain(c)' = Members(c) \ {s}
      /\ next[s] \in (Members(c) \ {s}) \cup {None}
      /\ prev[s] \in (Members(c) \ {s}) \cup {None}
  <2>1. next' = next /\ prev' = prev /\ created' = created /\ tail'[c] = tail[c] /\ head'[c] = head[c]
    BY <1>3 DEF header, bucket
  <2> QED BY <1>0, <1>1, <1>3, <1>4, <1>5, <1>6, <1>7, <2>1, LeavesChain, SMTT(30)
<1>9. Chain(bk[t])' = Members(c) \ {s}
  BY <1>3, <1>8
<1>10. ThreadOK(t)'
  BY <1>0, <1>1, <1>2, <1>3, <1>5, <1>8, <1>9
     DEF ThreadOK, PlaceOK, MineOK, CurOK, TailOK, HintOK, ClaimedPcs, GapPcs, header, DrainJobs, PassJobs
<1>11. \A x \in Segments : SegmentOK(x)'
  BY <1>3 DEF IInv, SegmentOK, header
<1>12. \A x \in Segments : HeaderSame(x) /\ Incarnation(x)
  BY <1>0, <1>3 DEF Incarnation, HeaderSame, TypeOK, header
<1>13. \A b \in Buckets : b # c => head'[b] = head[b] /\ tail'[b] = tail[b] /\ lock'[b] = lock[b]
  BY <1>3 DEF bucket
<1> QED BY <1>1, <1>3, <1>4, <1>8, <1>10, <1>11, <1>12, <1>13, LockedStep

\* The destination takes the claimed segment's place.
LEMMA LinkDestStep ==
  ASSUME IInv, [Next]_vars, NEW t \in Threads, LinkDest(t)
  PROVE  IInv'
<1>0. /\ TypeOK /\ TypeOK' /\ ThreadOK(t) /\ bk[t] \in Buckets /\ pc[t] = "link"
      /\ None \notin Segments \cup Buckets \cup Threads /\ cur[t] \in Segments
  BY NoneIsNone, TypeStep DEF IInv, ThreadOK, PlaceOK, LinkDest, ClaimedPcs
<1>1. PICK c \in Buckets : c = bk[t]
  BY <1>0
<1>2. PICK s \in Segments : s = cur[t]
  BY <1>0
<1>3. PICK d \in Segments : d = mine[t] /\ state[d] = "Reserved"
  BY <1>0 DEF ThreadOK, PlaceOK, MineOK, TypeOK
<1>4. /\ OthersSame(t) /\ mine'[t] = d /\ merged'[t] = 0 /\ job'[t] = job[t]
      /\ job[t] \in {"promote", "merge"}
      /\ bk'[t] = c /\ cur'[t] = s /\ pc'[t] = "copy" /\ UNCHANGED <<gen, full, limit, tail, lock, clock>>
  <2>1. merged[t] = 0 /\ job[t] \in {"promote", "merge"}
    BY <1>0 DEF ThreadOK, PlaceOK, GapPcs
  <2> QED BY <1>0, <1>1, <1>2, <1>3, <2>1 DEF LinkDest, Go, OthersSame, TypeOK
<1>5. pc[t] \in LockedPcs \ GapPcs /\ pc'[t] \in LockedPcs \ GapPcs
  BY <1>0, <1>4 DEF LockedPcs, GapPcs
<1>6. /\ s \in Members(c) /\ state[s] = "Draining" /\ ttl[s] = c /\ s # tail[c]
      /\ \A x \in Members(c) : x # s => state[x] = IF x = tail[c] THEN "Live" ELSE "Sealed"
  BY <1>0, <1>1, <1>2, ClaimedIn DEF ClaimedPcs
<1>7. /\ lock[c] = t /\ Members(c) \subseteq Segments
      /\ List(Members(c), next, prev, head[c], tail[c])
      /\ \A x \in Members(c) : next[x] # None => created[x] <= created[next[x]]
  BY <1>1, <1>5, HolderView
<1>8. d \notin Members(c) /\ d # s
  BY <1>3, <1>6 DEF Members
<1>9. prev[s] \in Members(c) \cup {None} /\ (prev[s] \in Members(c) => next[prev[s]] = s)
  BY <1>0, <1>6, <1>7 DEF List
<1>10. /\ state'[d] = "Relinking" /\ ttl'[d] = c /\ created'[d] = created[s]
       /\ \A x \in Segments : x # d => state'[x] = state[x] /\ ttl'[x] = ttl[x]
                                       /\ created'[x] = created[x]
  BY <1>0, <1>2, <1>3, <1>6 DEF LinkDest, TypeOK
<1>11. /\ next'[d] = s /\ prev'[d] = prev[s]
       /\ \A x \in Segments : x # d => /\ next'[x] = IF x = prev[s] THEN d ELSE next[x]
                                       /\ prev'[x] = IF x = s THEN d ELSE prev[x]
       /\ head'[c] = IF prev[s] = None THEN d ELSE head[c]
       /\ \A b \in Buckets : b # c => head'[b] = head[b]
  BY <1>0, <1>1, <1>2, <1>3, <1>8, <1>9 DEF LinkDest, TypeOK
<1>12. Members(c)' = Members(c) \cup {d}
  BY <1>3, <1>10 DEF Members
<1>13. Gap(c)' = FALSE /\ lock'[c] = t /\ tail'[c] = tail[c]
  BY <1>4, <1>7 DEF Gap, GapPcs
<1>14. /\ Chain(c)' = Members(c) \cup {d} /\ NextIn(c)' = next' /\ PrevIn(c)' = prev'
       /\ HeadIn(c)' = head'[c]
  BY <1>12, <1>13 DEF Chain, NextIn, PrevIn, HeadIn
<1>15. List(Members(c) \cup {d}, next', prev', head'[c], tail[c])
  <2>1. PICK n, p, h : n = next' /\ p = prev' /\ h = head'[c]
    OBVIOUS
  <2>2. n[d] = s /\ p[d] = prev[s]
    BY <1>11, <2>1
  <2>3. \A x \in Members(c) : n[x] = IF x = prev[s] THEN d ELSE next[x]
    BY <1>7, <1>8, <1>11, <2>1
  <2>4. \A x \in Members(c) : p[x] = IF x = s THEN d ELSE prev[x]
    BY <1>7, <1>8, <1>11, <2>1
  <2>5. h = IF prev[s] = None THEN d ELSE head[c]
    BY <1>11, <2>1
  <2>6. List(Members(c) \cup {d}, n, p, h, tail[c])
    BY <1>6, <1>7, <1>8, <2>2, <2>3, <2>4, <2>5, ListInsert
  <2> QED BY <2>1, <2>6
<1>16. d # tail[c]
  BY <1>6, <1>7, <1>8 DEF List
<1>17. \A x \in Members(c) \cup {d} : StateIn(c, x)'
  <2>1. StateIn(c, d)'
    BY <1>0, <1>4, <1>10, <1>13, <1>16 DEF StateIn
  <2>2. StateIn(c, s)'
    BY <1>0, <1>4, <1>6, <1>8, <1>10, <1>13 DEF StateIn, ClaimedPcs
  <2>3. ASSUME NEW x \in Members(c), x # s PROVE StateIn(c, x)'
    BY <1>6, <1>7, <1>8, <1>10, <1>13, <2>3 DEF StateIn
  <2> QED BY <2>1, <2>2, <2>3
<1>18. \A x \in Members(c) \cup {d} : next'[x] # None => created'[x] <= created'[next'[x]]
  <2>1. created'[d] <= created'[next'[d]]
    <3>1. created[s] \in Int
      BY <1>0 DEF TypeOK
    <3> QED BY <1>8, <1>10, <1>11, <3>1
  <2>2. ASSUME NEW x \in Members(c), next'[x] # None, x # prev[s]
        PROVE  created'[x] <= created'[next'[x]]
    <3>1. x \in Segments /\ x # d /\ next'[x] = next[x]
      BY <1>7, <1>8, <1>11, <2>2
    <3>2. next[x] \in Members(c) /\ next[x] # d /\ created[x] <= created[next[x]]
      BY <1>7, <1>8, <2>2, <3>1 DEF List
    <3> QED BY <1>7, <1>10, <3>1, <3>2
  <2>3. ASSUME NEW x \in Members(c), x = prev[s]
        PROVE  created'[x] <= created'[next'[x]]
    <3>1. x \in Segments /\ x # d /\ next'[x] = d /\ next[x] = s
      BY <1>7, <1>8, <1>9, <1>11, <2>3
    <3>2. created[x] <= created[s]
      BY <1>0, <1>7, <3>1
    <3> QED BY <1>10, <3>1, <3>2
  <2> QED BY <2>1, <2>2, <2>3
<1>19. ChainOK(c)'
  BY <1>13, <1>14, <1>15, <1>17, <1>18 DEF ChainOK
<1>20. ThreadOK(t)'
  <2>1. state'[s] = "Draining" /\ ttl'[s] = c
    BY <1>6, <1>8, <1>10
  <2> QED BY <1>0, <1>1, <1>2, <1>3, <1>4, <1>10, <1>11, <2>1, ChainBounds
          DEF ThreadOK, PlaceOK, MineOK, CurOK, TailOK, HintOK, ClaimedPcs, GapPcs
<1>21. \A x \in Segments : SegmentOK(x)'
  <2>1. \A x \in Segments : SegmentOK(x)
    BY DEF IInv
  <2>2. created[s] <= MaxTime /\ limit[d] = MaxTime
    BY <1>0, <1>3, <2>1, ChainBounds DEF TypeOK, SegmentOK
  <2>3. ASSUME NEW x \in Segments PROVE SegmentOK(x)'
    BY <1>3, <1>4, <1>6, <1>10, <2>1, <2>2 DEF SegmentOK, MemberStates
  <2> QED BY <2>3
<1>22. \A x \in Segments : Incarnation(x)
  BY <1>0, <1>3, <1>4, <1>10 DEF Incarnation, TypeOK, UsedStates, MemberStates
<1>23. \A x \in Segments :
         \/ HeaderSame(x)
         \/ /\ x \in Members(c) \/ x = mine[t] \/ state[x] = "Free"
            /\ state'[x] \notin MemberStates \/ ttl'[x] = c
            /\ ttl'[x] = ttl[x] \/ ttl'[x] = c
  <2>1. \A x \in Segments : x \notin Members(c) /\ x # d => HeaderSame(x)
    BY <1>0, <1>6, <1>9, <1>10, <1>11 DEF HeaderSame
  <2>2. \A x \in Members(c) : ttl'[x] = c /\ ttl[x] = c
    BY <1>8, <1>10 DEF Members
  <2> QED BY <1>3, <1>10, <2>1, <2>2
<1>24. \A b \in Buckets : b # c => head'[b] = head[b] /\ tail'[b] = tail[b] /\ lock'[b] = lock[b]
  BY <1>4, <1>11
<1> QED BY <1>1, <1>3, <1>4, <1>5, <1>19, <1>20, <1>21, <1>22, <1>23, <1>24, LockedStep

\* Items are copied out of the claimed segment into the destination before it.
LEMMA CopyOutStep ==
  ASSUME IInv, [Next]_vars, NEW t \in Threads, CopyOut(t)
  PROVE  IInv'
<1>0. /\ TypeOK /\ TypeOK' /\ ThreadOK(t) /\ bk[t] \in Buckets /\ pc[t] = "copy"
      /\ None \notin Segments \cup Buckets \cup Threads /\ cur[t] \in Segments
  BY NoneIsNone, TypeStep DEF IInv, ThreadOK, PlaceOK, CopyOut, ClaimedPcs
<1>1. PICK c \in Buckets : c = bk[t]
  BY <1>0
<1>2. PICK s \in Segments : s = cur[t]
  BY <1>0
<1>3. PICK d \in Segments : d = mine[t] /\ state[d] = "Relinking" /\ ttl[d] = c /\ next[d] = s
  BY <1>0, <1>1, <1>2 DEF ThreadOK, PlaceOK, MineOK, TypeOK
<1>4. pc[t] \in LockedPcs \ GapPcs
  BY <1>0 DEF LockedPcs, GapPcs
<1>5. /\ s \in Members(c) /\ state[s] = "Draining" /\ ttl[s] = c /\ s # tail[c] /\ next[s] # None
      /\ \A x \in Members(c) : x # s => \/ state[x] = IF x = tail[c] THEN "Live" ELSE "Sealed"
                                        \/ x = d /\ x # tail[c]
  BY <1>0, <1>1, <1>2, <1>3, ClaimedIn DEF ClaimedPcs
<1>6. /\ lock[c] = t /\ Members(c) \subseteq Segments
      /\ List(Members(c), next, prev, head[c], tail[c])
      /\ \A x \in Members(c) : next[x] # None => created[x] <= created[next[x]]
  BY <1>1, <1>4, HolderView
<1>7. d \in Members(c) /\ d # s /\ prev[s] = d /\ created[d] <= created[s] /\ d # tail[c]
  BY <1>0, <1>3, <1>5, <1>6 DEF Members, List
<1>8. /\ OthersSame(t) /\ mine'[t] = d /\ job'[t] = job[t] /\ job[t] \in {"promote", "merge"}
      /\ bk'[t] = c /\ cur'[t] = s /\ pc'[t] = "finalize" /\ nx'[t] = next[s] /\ pv'[t] = prev[s]
      /\ merged'[t] # 0 => job[t] = "merge"
  <2>1. job[t] \in {"promote", "merge"} /\ (merged[t] # 0 => job[t] = "merge")
    BY <1>0 DEF ThreadOK, PlaceOK
  <2>2. /\ mine'[t] = d /\ job'[t] = job[t] /\ bk'[t] = c /\ cur'[t] = s /\ pc'[t] = "finalize"
        /\ nx'[t] = next[s] /\ pv'[t] = prev[s]
    BY <1>0, <1>1, <1>2, <1>3 DEF CopyOut, TypeOK
  <2>3. merged'[t] # 0 => job[t] = "merge"
    BY <1>0, <2>1 DEF CopyOut, TypeOK
  <2>4. OthersSame(t)
    BY <1>0 DEF CopyOut, OthersSame, TypeOK
  <2> QED BY <2>1, <2>2, <2>3, <2>4
<1>9. /\ UNCHANGED <<next, prev, ttl, created, gen, full, head, tail, lock, clock>>
      /\ state'[d] = IF job[t] = "promote" THEN "Sealed" ELSE "Relinking"
      /\ \A x \in Segments : x # d => state'[x] = state[x] /\ limit'[x] = limit[x]
      /\ limit'[d] = Earlier(limit[d], limit[s])
  BY <1>0, <1>2, <1>3 DEF CopyOut, TypeOK, bucket
<1>10. Members(c)' = Members(c)
  BY <1>3, <1>9 DEF Members
<1>11. \A x \in Members(c) \ {s} : StateIn(c, x)'
  <2>1. StateIn(c, d)'
    BY <1>0, <1>6, <1>7, <1>8, <1>9 DEF StateIn, GapPcs
  <2>2. ASSUME NEW x \in Members(c) \ {s}, x # d PROVE StateIn(c, x)'
    BY <1>5, <1>6, <1>9, <2>2 DEF StateIn
  <2> QED BY <2>1, <2>2
<1>12. /\ ChainOK(c)' /\ Chain(c)' = Members(c) \ {s}
       /\ next[s] \in (Members(c) \ {s}) \cup {None}
       /\ prev[s] \in (Members(c) \ {s}) \cup {None}
  BY <1>0, <1>1, <1>4, <1>5, <1>8, <1>9, <1>10, <1>11, LeavesChain
<1>13. Chain(bk[t])' = Members(c) \ {s}
  BY <1>8, <1>12
<1>14. CurOK(t)'
  <2>1. state'[s] = "Draining" /\ ttl'[s] = c
    BY <1>5, <1>7, <1>9
  <2> QED BY <1>8, <1>9, <1>12, <1>13, <2>1 DEF CurOK, ClaimedPcs, GapPcs, DrainJobs
<1>15. PlaceOK(t)' /\ MineOK(t)' /\ TailOK(t)' /\ HintOK(t)'
  <2>1. PlaceOK(t)'
    BY <1>0, <1>8 DEF PlaceOK, ClaimedPcs, GapPcs, PassJobs, DrainJobs
  <2>2. MineOK(t)'
    BY <1>3, <1>7, <1>8, <1>9 DEF MineOK, GapPcs
  <2> QED BY <1>8, <2>1, <2>2 DEF TailOK, HintOK
<1>16. \A x \in Segments : SegmentOK(x)'
  <2>1. \A x \in Segments : SegmentOK(x)
    BY DEF IInv
  <2>2. /\ created[d] \in Int /\ created[s] \in Int /\ limit[d] \in Int /\ limit[s] \in Int
        /\ created[d] <= limit[d] /\ created[s] <= limit[s]
    BY <1>0, <1>3, <1>5, <2>1 DEF TypeOK, SegmentOK, MemberStates
  <2>3. created[d] <= limit'[d]
    BY <1>7, <1>9, <2>2 DEF Earlier
  <2>4. SegmentOK(d)'
    BY <1>3, <1>9, <2>1, <2>3 DEF SegmentOK
  <2>5. ASSUME NEW x \in Segments, x # d PROVE SegmentOK(x)'
    BY <1>9, <2>1, <2>5 DEF SegmentOK
  <2> QED BY <2>4, <2>5
<1>17. \A x \in Segments : Incarnation(x)
  BY <1>0, <1>3, <1>9 DEF Incarnation, TypeOK, UsedStates, MemberStates
<1>18. \A x \in Segments :
         \/ HeaderSame(x)
         \/ /\ x \in Members(c) \/ x = mine[t] \/ state[x] = "Free"
            /\ state'[x] \notin MemberStates \/ ttl'[x] = c
            /\ ttl'[x] = ttl[x] \/ ttl'[x] = c
  BY <1>3, <1>9 DEF HeaderSame
<1> QED BY <1>1, <1>3, <1>4, <1>8, <1>9, <1>12, <1>14, <1>15, <1>16, <1>17, <1>18, LockedStep DEF ThreadOK

-----------------------------------------------------------------------------
\* Where a pass has its segment out, and what is left of the chain.
LEMMA GapView ==
  ASSUME IInv, NEW t \in Threads, NEW c \in Buckets, bk[t] = c, pc[t] \in GapPcs
  PROVE  /\ pc[t] \in LockedPcs /\ lock[c] = t /\ cur[t] \in Segments
         /\ Chain(c) = Members(c) \ {cur[t]} /\ Members(c) \subseteq Segments
         /\ nx[t] \in Chain(c) \cup {None} /\ pv[t] \in Chain(c) \cup {None}
         /\ NextIn(c) = [x \in Segments |-> IF x = pv[t] THEN nx[t] ELSE next[x]]
         /\ PrevIn(c) = [x \in Segments |-> IF x = nx[t] THEN pv[t] ELSE prev[x]]
<1>0. TypeOK /\ ThreadOK(t)
  BY DEF IInv
<1>1. pc[t] \in LockedPcs /\ cur[t] \in Segments
  BY <1>0 DEF LockedPcs, GapPcs, ThreadOK, PlaceOK
<1>2. nx[t] \in Chain(c) \cup {None} /\ pv[t] \in Chain(c) \cup {None}
  BY <1>0 DEF ThreadOK, CurOK
<1> QED BY <1>1, <1>2, HolderView

\* A step of a pass that gets rid of its segment s: the rest of the chain, in the
\* view of the pass, is as before.
LEMMA LeaveStep ==
  ASSUME IInv, [Next]_vars, NEW t \in Threads, NEW c \in Buckets, bk[t] = c,
         pc[t] \in GapPcs, pc'[t] \in GapPcs, NEW s \in Segments, s = cur[t],
         job' = job, bk' = bk, cur' = cur, mine' = mine, obs' = obs, nx' = nx, pv' = pv,
         merged' = merged, \A u \in Threads : u # t => pc'[u] = pc[u],
         UNCHANGED <<ttl, created, bucket, clock>>,
         \A x \in Segments : x # s => /\ state'[x] = state[x] /\ limit'[x] = limit[x]
                                      /\ gen'[x] = gen[x] /\ full'[x] = full[x],
         \/ state'[s] = state[s] /\ limit'[s] = limit[s] /\ gen'[s] = gen[s] /\ full'[s] = full[s]
         \/ state[s] = "Draining" /\ ttl[s] = c /\ Incarnation(s)
            /\ state'[s] \in {"Free", "AwaitingRelease"},
         \A x \in Chain(c) : /\ x = pv[t] \/ next'[x] = next[x]
                             /\ x = nx[t] \/ prev'[x] = prev[x],
         \A x \in Segments : x \notin Chain(c) =>
           \/ next'[x] = next[x] /\ prev'[x] = prev[x]
           \/ x = s /\ state[s] = "Draining" /\ ttl[s] = c,
         CurOK(t)'
  PROVE  IInv'
<1>0. /\ TypeOK /\ TypeOK' /\ ThreadOK(t)
      /\ None \notin Segments \cup Buckets \cup Threads
  BY NoneIsNone, TypeStep DEF IInv
<1>1. /\ pc[t] \in LockedPcs /\ lock[c] = t
      /\ Chain(c) = Members(c) \ {s} /\ Members(c) \subseteq Segments
      /\ nx[t] \in Chain(c) \cup {None} /\ pv[t] \in Chain(c) \cup {None}
      /\ NextIn(c) = [x \in Segments |-> IF x = pv[t] THEN nx[t] ELSE next[x]]
      /\ PrevIn(c) = [x \in Segments |-> IF x = nx[t] THEN pv[t] ELSE prev[x]]
  BY GapView
<1>2. OthersSame(t)
  BY DEF OthersSame
<1>3. lock' = lock /\ head' = head /\ tail' = tail
  BY DEF bucket
<1>4. Gap(c)'
  BY <1>0, <1>1, <1>3 DEF Gap
<1>5. Members(c)' \ {s} = Members(c) \ {s}
  BY DEF Members
<1>6. /\ Chain(c)' = Chain(c)
      /\ NextIn(c)' = [x \in Segments |-> IF x = pv[t] THEN nx[t] ELSE next'[x]]
      /\ PrevIn(c)' = [x \in Segments |-> IF x = nx[t] THEN pv[t] ELSE prev'[x]]
  BY <1>1, <1>3, <1>4, <1>5 DEF Chain, NextIn, PrevIn
<1>7. \A x \in Chain(c) : /\ state'[x] = state[x] /\ created'[x] = created[x]
                          /\ NextIn(c)'[x] = NextIn(c)[x] /\ PrevIn(c)'[x] = PrevIn(c)[x]
  BY <1>1, <1>6
<1>8. ChainOK(c)'
  BY <1>0, <1>3, <1>6, <1>7, GapKept
<1>9. mine[t] # None => mine[t] # s /\ mine[t] \in Segments /\ state'[mine[t]] = state[mine[t]]
  <2>1. mine[t] # None => mine[t] = pv[t]
    BY <1>0 DEF ThreadOK, MineOK
  <2> QED BY <1>1, <2>1
<1>10. PlaceOK(t)' /\ MineOK(t)' /\ TailOK(t)' /\ HintOK(t)'
  <2>1. PlaceOK(t)'
    BY <1>0 DEF ThreadOK, PlaceOK, GapPcs, ClaimedPcs
  <2>2. MineOK(t)'
    BY <1>0, <1>9 DEF ThreadOK, MineOK, GapPcs
  <2> QED BY <2>1, <2>2 DEF TailOK, HintOK, GapPcs
<1>11. \A x \in Segments : SegmentOK(x)'
  <2>1. \A x \in Segments : SegmentOK(x)
    BY DEF IInv
  <2> QED BY <2>1 DEF SegmentOK, MemberStates
<1>12. \A x \in Segments : Incarnation(x)
  <2>1. ASSUME NEW x \in Segments, gen'[x] = gen[x], state'[x] = state[x], full'[x] = full[x]
        PROVE  Incarnation(x)
    BY <1>0, <2>1 DEF Incarnation, TypeOK
  <2> QED BY <2>1
<1>13. \A x \in Segments :
         \/ HeaderSame(x)
         \/ /\ x \in Members(c) \/ x = mine[t] \/ state[x] = "Free"
            /\ state'[x] \notin MemberStates \/ ttl'[x] = c
            /\ ttl'[x] = ttl[x] \/ ttl'[x] = c
  <2>1. ASSUME NEW x \in Segments PROVE HeaderSame(x) \/ x \in Members(c)
    <3>1. CASE x \in Chain(c)
      BY <1>1, <3>1
    <3>2. CASE x = s /\ state[s] = "Draining" /\ ttl[s] = c
      BY <3>2 DEF Members
    <3>3. CASE x \notin Chain(c) /\ x = s /\ state'[s] = state[s]
      BY <3>3 DEF HeaderSame, Members
    <3>4. CASE x \notin Chain(c) /\ x # s
      BY <3>4 DEF HeaderSame
    <3> QED BY <3>1, <3>2, <3>3, <3>4
  <2>2. ttl' = ttl
    OBVIOUS
  <2>3. \A x \in Members(c) : ttl[x] = c
    BY DEF Members
  <2> QED BY <2>1, <2>2, <2>3
<1> QED BY <1>1, <1>2, <1>3, <1>8, <1>10, <1>11, <1>12, <1>13, LockedStep DEF ThreadOK

\* finalize_drained: unlink patches the neighbours.
LEMMA UnlinkStep ==
  ASSUME IInv, [Next]_vars, NEW t \in Threads, Unlink(t)
  PROVE  IInv'
<1>0. /\ TypeOK /\ ThreadOK(t) /\ bk[t] \in Buckets /\ pc[t] = "finalize" /\ cur[t] \in Segments
      /\ None \notin Segments \cup Buckets \cup Threads
  BY NoneIsNone DEF IInv, ThreadOK, PlaceOK, Unlink, GapPcs
<1>1. PICK c \in Buckets : c = bk[t]
  BY <1>0
<1>2. PICK s \in Segments : s = cur[t]
  BY <1>0
<1>3. state[s] = "Draining" /\ ttl[s] = c /\ nx[t] = next[s] /\ pv[t] = prev[s]
  BY <1>0, <1>1, <1>2 DEF ThreadOK, CurOK
<1>4. /\ Chain(c) = Members(c) \ {s} /\ Members(c) \subseteq Segments
      /\ nx[t] \in Chain(c) \cup {None} /\ pv[t] \in Chain(c) \cup {None}
  BY <1>0, <1>1, <1>2, GapView DEF GapPcs
<1>5. /\ job' = job /\ bk' = bk /\ cur' = cur /\ mine' = mine /\ obs' = obs /\ nx' = nx /\ pv' = pv
      /\ merged' = merged /\ pc'[t] = "release"
      /\ \A u \in Threads : u # t => pc'[u] = pc[u]
      /\ UNCHANGED <<state, ttl, created, gen, full, limit, bucket, clock>>
      /\ head' = head /\ lock' = lock
  BY <1>0 DEF Unlink, Go, TypeOK, bucket
<1>6. /\ \A x \in Segments : next'[x] = IF x = pv[t] THEN nx[t] ELSE next[x]
      /\ \A x \in Segments : prev'[x] = IF x = nx[t] THEN pv[t] ELSE prev[x]
  BY <1>2, <1>3 DEF Unlink
<1>7. Chain(bk[t])' = Chain(c)
  <2>1. Gap(c) /\ Gap(c)' /\ lock[c] = t /\ lock'[c] = t /\ Members(c)' = Members(c)
    BY <1>0, <1>1, <1>5 DEF Gap, GapPcs, TypeOK, LockedPcs, Members
  <2>2. Chain(c)' = Chain(c)
    BY <1>5, <2>1 DEF Chain
  <2> QED BY <1>1, <1>5, <2>2
<1>8. CurOK(t)'
  <2>1. /\ nx'[t] \in Chain(c) \cup {None} /\ pv'[t] \in Chain(c) \cup {None}
        /\ job'[t] \in DrainJobs => pv'[t] = None /\ head'[bk'[t]] = nx'[t]
    BY <1>0, <1>4, <1>5 DEF ThreadOK, CurOK, GapPcs
  <2>2. /\ pv[t] # None => next'[pv[t]] = nx[t]
        /\ nx[t] # None => prev'[nx[t]] = pv[t]
    BY <1>4, <1>6
  <2> QED BY <1>1, <1>2, <1>3, <1>5, <1>7, <2>1, <2>2 DEF CurOK, ClaimedPcs
<1>9. \A x \in Segments : x \notin Chain(c) => next'[x] = next[x] /\ prev'[x] = prev[x]
  BY <1>0, <1>4, <1>6
<1>10. \A x \in Chain(c) : /\ x = pv[t] \/ next'[x] = next[x]
                           /\ x = nx[t] \/ prev'[x] = prev[x]
  BY <1>4, <1>6
<1>11. pc[t] \in GapPcs /\ pc'[t] \in GapPcs
  BY <1>0, <1>5 DEF GapPcs
<1> QED BY <1>1, <1>2, <1>5, <1>8, <1>9, <1>10, <1>11, LeaveStep

\* recycle: the unlinked segment is freed, in a new generation.
LEMMA ReleaseStep ==
  ASSUME IInv, [Next]_vars, NEW t \in Threads, Release(t)
  PROVE  IInv'
<1>0. /\ TypeOK /\ ThreadOK(t) /\ bk[t] \in Buckets /\ pc[t] = "release" /\ cur[t] \in Segments
      /\ None \notin Segments \cup Buckets \cup Threads
  BY NoneIsNone DEF IInv, ThreadOK, PlaceOK, Release, GapPcs
<1>1. PICK c \in Buckets : c = bk[t]
  BY <1>0
<1>2. PICK s \in Segments : s = cur[t]
  BY <1>0
<1>3. /\ state[s] = "Draining" /\ ttl[s] = c
      /\ pv[t] # None => next[pv[t]] = nx[t]
      /\ nx[t] # None => prev[nx[t]] = pv[t]
  BY <1>0, <1>1, <1>2 DEF ThreadOK, CurOK
<1>4. /\ Chain(c) = Members(c) \ {s} /\ Members(c) \subseteq Segments
      /\ nx[t] \in Chain(c) \cup {None} /\ pv[t] \in Chain(c) \cup {None}
  BY <1>0, <1>1, <1>2, GapView DEF GapPcs
<1>5. /\ job' = job /\ bk' = bk /\ cur' = cur /\ mine' = mine /\ obs' = obs /\ nx' = nx /\ pv' = pv
      /\ merged' = merged /\ pc'[t] = "after"
      /\ \A u \in Threads : u # t => pc'[u] = pc[u]
      /\ UNCHANGED <<ttl, created, bucket, clock>>
      /\ head' = head /\ lock' = lock
  BY <1>0 DEF Release, Go, TypeOK, bucket
<1>6. /\ \A x \in Segments : x # s => /\ state'[x] = state[x] /\ limit'[x] = limit[x]
                                      /\ gen'[x] = gen[x] /\ full'[x] = full[x]
                                      /\ next'[x] = next[x] /\ prev'[x] = prev[x]
      /\ state'[s] = "Free" /\ gen'[s] = gen[s] + 1
  BY <1>0, <1>2 DEF Release, FreeUsed, TypeOK
<1>7. Chain(bk[t])' = Chain(c) /\ s \notin Members(c)'
  <2>1. Members(c)' = Members(c) \ {s}
    BY <1>3, <1>5, <1>6 DEF Members
  <2>2. Gap(c)' /\ lock'[c] = t
    BY <1>0, <1>1, <1>5 DEF Gap, GapPcs, TypeOK, LockedPcs
  <2>3. Chain(c)' = Chain(c)
    BY <1>2, <1>4, <1>5, <2>1, <2>2 DEF Chain
  <2> QED BY <1>1, <1>5, <2>1, <2>3
<1>8. CurOK(t)'
  <2>1. /\ nx'[t] \in Chain(c) \cup {None} /\ pv'[t] \in Chain(c) \cup {None}
        /\ job'[t] \in DrainJobs => pv'[t] = None /\ head'[bk'[t]] = nx'[t]
    BY <1>0, <1>4, <1>5 DEF ThreadOK, CurOK, GapPcs
  <2>2. /\ pv[t] # None => next'[pv[t]] = nx[t]
        /\ nx[t] # None => prev'[nx[t]] = pv[t]
    BY <1>3, <1>4, <1>6
  <2>3. cur'[t] \notin Members(bk[t])'
    BY <1>1, <1>2, <1>5, <1>7
  <2> QED BY <1>1, <1>2, <1>3, <1>5, <1>7, <2>1, <2>2, <2>3 DEF CurOK, ClaimedPcs
<1>9. \A x \in Chain(c) : /\ x = pv[t] \/ next'[x] = next[x]
                          /\ x = nx[t] \/ prev'[x] = prev[x]
  BY <1>4, <1>6
<1>10. pc[t] \in GapPcs /\ pc'[t] \in GapPcs
  BY <1>0, <1>5 DEF GapPcs
<1>11. Incarnation(s)
  BY <1>0, <1>6 DEF Incarnation, TypeOK
<1> QED BY <1>1, <1>2, <1>3, <1>5, <1>6, <1>8, <1>9, <1>10, <1>11, LeaveStep

\* condemn: a segment that a reader holds loses its links.
LEMMA CondemnStep ==
  ASSUME IInv, [Next]_vars, NEW t \in Threads, Condemn(t)
  PROVE  IInv'
<1>0. /\ TypeOK /\ ThreadOK(t) /\ bk[t] \in Buckets /\ pc[t] = "finalize" /\ cur[t] \in Segments
      /\ None \notin Segments \cup Buckets \cup Threads
  BY NoneIsNone DEF IInv, ThreadOK, PlaceOK, Condemn, GapPcs
<1>1. PICK c \in Buckets : c = bk[t]
  BY <1>0
<1>2. PICK s \in Segments : s = cur[t]
  BY <1>0
<1>3. state[s] = "Draining" /\ ttl[s] = c
  BY <1>0, <1>1, <1>2 DEF ThreadOK, CurOK
<1>4. /\ Chain(c) = Members(c) \ {s} /\ Members(c) \subseteq Segments
      /\ nx[t] \in Chain(c) \cup {None} /\ pv[t] \in Chain(c) \cup {None}
  BY <1>0, <1>1, <1>2, GapView DEF GapPcs
<1>5. /\ job' = job /\ bk' = bk /\ cur' = cur /\ mine' = mine /\ obs' = obs /\ nx' = nx /\ pv' = pv
      /\ merged' = merged /\ pc'[t] = "splice"
      /\ \A u \in Threads : u # t => pc'[u] = pc[u]
      /\ UNCHANGED <<ttl, created, gen, full, limit, bucket, clock>>
      /\ head' = head /\ lock' = lock
  BY <1>0 DEF Condemn, Go, TypeOK, bucket
<1>6. /\ \A x \in Segments : x # s => /\ state'[x] = state[x]
                                      /\ next'[x] = next[x] /\ prev'[x] = prev[x]
      /\ state'[s] = "AwaitingRelease"
  BY <1>0, <1>2 DEF Condemn, TypeOK
<1>7. Chain(bk[t])' = Chain(c) /\ s \notin Members(c)'
  <2>1. Members(c)' = Members(c) \ {s}
    BY <1>3, <1>5, <1>6 DEF Members
  <2>2. Gap(c)' /\ lock'[c] = t
    BY <1>0, <1>1, <1>5 DEF Gap, GapPcs, TypeOK, LockedPcs
  <2>3. Chain(c)' = Chain(c)
    BY <1>2, <1>4, <1>5, <2>1, <2>2 DEF Chain
  <2> QED BY <1>1, <1>5, <2>1, <2>3
<1>8. CurOK(t)'
  <2>1. /\ nx'[t] \in Chain(c) \cup {None} /\ pv'[t] \in Chain(c) \cup {None}
        /\ job'[t] \in DrainJobs => pv'[t] = None /\ head'[bk'[t]] = nx'[t]
    BY <1>0, <1>4, <1>5 DEF ThreadOK, CurOK, GapPcs
  <2>2. cur'[t] \notin Members(bk[t])'
    BY <1>1, <1>2, <1>5, <1>7
  <2> QED BY <1>5, <1>7, <2>1, <2>2 DEF CurOK, ClaimedPcs
<1>9. \A x \in Chain(c) : /\ x = pv[t] \/ next'[x] = next[x]
                          /\ x = nx[t] \/ prev'[x] = prev[x]
  BY <1>4, <1>6
<1>10. pc[t] \in GapPcs /\ pc'[t] \in GapPcs
  BY <1>0, <1>5 DEF GapPcs
<1>11. Incarnation(s)
  BY <1>0, <1>5, <1>6 DEF Incarnation, TypeOK, UsedStates
<1> QED BY <1>1, <1>2, <1>3, <1>5, <1>6, <1>8, <1>9, <1>10, <1>11, LeaveStep

\* condemn: the neighbours are patched from the captured links.
LEMMA SpliceStep ==
  ASSUME IInv, [Next]_vars, NEW t \in Threads, Splice(t)
  PROVE  IInv'
<1>0. /\ TypeOK /\ ThreadOK(t) /\ bk[t] \in Buckets /\ pc[t] = "splice" /\ cur[t] \in Segments
      /\ None \notin Segments \cup Buckets \cup Threads
  BY NoneIsNone DEF IInv, ThreadOK, PlaceOK, Splice, GapPcs
<1>1. PICK c \in Buckets : c = bk[t]
  BY <1>0
<1>2. PICK s \in Segments : s = cur[t]
  BY <1>0
<1>3. s \notin Members(c)
  BY <1>0, <1>1, <1>2 DEF ThreadOK, CurOK
<1>4. /\ Chain(c) = Members(c) \ {s} /\ Members(c) \subseteq Segments
      /\ nx[t] \in Chain(c) \cup {None} /\ pv[t] \in Chain(c) \cup {None}
  BY <1>0, <1>1, <1>2, GapView DEF GapPcs
<1>5. /\ job' = job /\ bk' = bk /\ cur' = cur /\ mine' = mine /\ obs' = obs /\ nx' = nx /\ pv' = pv
      /\ merged' = merged /\ pc'[t] = "after"
      /\ \A u \in Threads : u # t => pc'[u] = pc[u]
      /\ UNCHANGED <<state, ttl, created, gen, full, limit, bucket, clock>>
      /\ head' = head /\ lock' = lock
  BY <1>0 DEF Splice, Go, TypeOK, bucket
<1>6. /\ \A x \in Segments : next'[x] = IF x = pv[t] THEN nx[t] ELSE next[x]
      /\ \A x \in Segments : prev'[x] = IF x = nx[t] THEN pv[t] ELSE prev[x]
  BY DEF Splice
<1>7. Chain(bk[t])' = Chain(c) /\ Members(c)' = Members(c)
  <2>1. Gap(c) /\ Gap(c)' /\ lock[c] = t /\ lock'[c] = t /\ Members(c)' = Members(c)
    BY <1>0, <1>1, <1>5 DEF Gap, GapPcs, TypeOK, LockedPcs, Members
  <2>2. Chain(c)' = Chain(c)
    BY <1>5, <2>1 DEF Chain
  <2> QED BY <1>1, <1>5, <2>1, <2>2
<1>8. CurOK(t)'
  <2>1. /\ nx'[t] \in Chain(c) \cup {None} /\ pv'[t] \in Chain(c) \cup {None}
        /\ job'[t] \in DrainJobs => pv'[t] = None /\ head'[bk'[t]] = nx'[t]
    BY <1>0, <1>4, <1>5 DEF ThreadOK, CurOK, GapPcs
  <2>2. /\ pv[t] # None => next'[pv[t]] = nx[t]
        /\ nx[t] # None => prev'[nx[t]] = pv[t]
    BY <1>4, <1>6
  <2>3. cur'[t] \notin Members(bk[t])'
    BY <1>1, <1>2, <1>3, <1>5, <1>7
  <2> QED BY <1>5, <1>7, <2>1, <2>2, <2>3 DEF CurOK, ClaimedPcs
<1>9. \A x \in Segments : x \notin Chain(c) => next'[x] = next[x] /\ prev'[x] = prev[x]
  BY <1>0, <1>4, <1>6
<1>10. \A x \in Chain(c) : /\ x = pv[t] \/ next'[x] = next[x]
                           /\ x = nx[t] \/ prev'[x] = prev[x]
  BY <1>4, <1>6
<1>11. pc[t] \in GapPcs /\ pc'[t] \in GapPcs
  BY <1>0, <1>5 DEF GapPcs
<1> QED BY <1>1, <1>2, <1>5, <1>8, <1>9, <1>10, <1>11, LeaveStep

-----------------------------------------------------------------------------
\* The segment is out and the neighbours are patched.
LEMMA AfterView ==
  ASSUME IInv, NEW t \in Threads, NEW c \in Buckets, bk[t] = c, pc[t] = "after"
  PROVE  /\ pc[t] \in LockedPcs /\ lock[c] = t /\ Members(c) \subseteq Segments
         /\ nx[t] \in Members(c) \cup {None} /\ pv[t] \in Members(c) \cup {None}
         /\ \A x \in Members(c) :
              \/ state[x] = IF x = tail[c] THEN "Live" ELSE "Sealed"
              \/ x = mine[t] /\ job[t] = "merge" /\ x # tail[c]
<1>0. ThreadOK(t) /\ ChainOK(c)
  BY DEF IInv
<1>1. /\ pc[t] \in LockedPcs /\ lock[c] = t /\ Members(c) \subseteq Segments
      /\ Chain(c) = Members(c) \ {cur[t]}
      /\ nx[t] \in Chain(c) \cup {None} /\ pv[t] \in Chain(c) \cup {None}
  BY GapView DEF GapPcs
<1>2. Chain(c) = Members(c)
  BY <1>0, <1>1 DEF ThreadOK, CurOK
<1>3. \A x \in Members(c) : StateIn(c, x)
  BY <1>0, <1>2 DEF ChainOK
<1>4. \A x \in Members(c) :
        \/ state[x] = IF x = tail[c] THEN "Live" ELSE "Sealed"
        \/ x = mine[t] /\ job[t] = "merge" /\ x # tail[c]
  BY <1>1, <1>3 DEF StateIn, ClaimedPcs
<1> QED BY <1>1, <1>2, <1>4

\* drain_chain goes on with what is now the head.
LEMMA DrainNextStep ==
  ASSUME IInv, [Next]_vars, NEW t \in Threads, DrainNext(t)
  PROVE  IInv'
<1>0. /\ TypeOK /\ TypeOK' /\ ThreadOK(t) /\ bk[t] \in Buckets /\ pc[t] = "after"
      /\ job[t] \in DrainJobs /\ None \notin Segments \cup Buckets \cup Threads
  BY NoneIsNone, TypeStep DEF IInv, ThreadOK, PlaceOK, DrainNext, DrainJobs
<1>1. PICK c \in Buckets : c = bk[t]
  BY <1>0
<1>2. /\ pc[t] \in LockedPcs /\ lock[c] = t
      /\ \A x \in Members(c) : state[x] = IF x = tail[c] THEN "Live" ELSE "Sealed"
  BY <1>0, <1>1, AfterView DEF DrainJobs
<1>3. pv[t] = None /\ head[c] = nx[t] /\ mine[t] = None /\ merged[t] = 0
  BY <1>0, <1>1 DEF ThreadOK, CurOK, PlaceOK, GapPcs, DrainJobs
<1>4. /\ OthersSame(t) /\ mine'[t] = None /\ merged'[t] = 0 /\ job'[t] = job[t]
      /\ bk'[t] = c /\ cur'[t] = head[c] /\ pc'[t] = "drain_walk"
      /\ UNCHANGED <<state, next, prev, ttl, created, gen, full, limit, head, tail, lock, clock>>
  BY <1>0, <1>1, <1>3 DEF DrainNext, OthersSame, TypeOK, header, bucket
<1>5. Gap(c)' = FALSE /\ Members(c)' = Members(c)
  BY <1>2, <1>4 DEF Gap, GapPcs, Members
<1>6. \A x \in Members(c) : StateIn(c, x)'
  BY <1>2, <1>4 DEF StateIn
<1>7. ChainOK(c)'
  BY <1>0, <1>1, <1>3, <1>4, <1>5, <1>6, GapClosed
<1>8. ThreadOK(t)'
  BY <1>0, <1>1, <1>4 DEF ThreadOK, PlaceOK, MineOK, CurOK, TailOK, HintOK, ClaimedPcs, GapPcs
<1>9. \A x \in Segments : HeaderSame(x) /\ Incarnation(x) /\ SegmentOK(x)'
  BY <1>0, <1>4 DEF HeaderSame, Incarnation, IInv, SegmentOK, TypeOK
<1> QED BY <1>1, <1>2, <1>4, <1>7, <1>8, <1>9, LockedStep

\* A drop or a promotion puts the head word right and unlocks.
LEMMA PassEndStep ==
  ASSUME IInv, [Next]_vars, NEW t \in Threads, PassEnd(t)
  PROVE  IInv'
<1>0. /\ TypeOK /\ TypeOK' /\ ThreadOK(t) /\ bk[t] \in Buckets /\ pc[t] = "after"
      /\ job[t] # "merge" /\ None \notin Segments \cup Buckets \cup Threads
  BY NoneIsNone, TypeStep DEF IInv, ThreadOK, PlaceOK, PassEnd
<1>1. PICK c \in Buckets : c = bk[t]
  BY <1>0
<1>2. /\ pc[t] \in LockedPcs /\ lock[c] = t
      /\ \A x \in Members(c) : state[x] = IF x = tail[c] THEN "Live" ELSE "Sealed"
  BY <1>0, <1>1, AfterView
<1>3. OthersSame(t) /\ ThreadOK(t)' /\ mine'[t] = None
  BY FinishedOK DEF PassEnd
<1>4. /\ UNCHANGED <<state, next, prev, ttl, created, gen, full, limit, tail, clock>>
      /\ head'[c] = IF pv[t] = None THEN nx[t] ELSE head[c]
      /\ lock'[c] = None
      /\ \A b \in Buckets : b # c => head'[b] = head[b] /\ lock'[b] = lock[b]
  BY <1>0, <1>1 DEF PassEnd, Unlock, TypeOK, header
<1>5. Gap(c)' = FALSE /\ Members(c)' = Members(c)
  BY <1>4 DEF Gap, Members
<1>6. \A x \in Members(c) : StateIn(c, x)'
  BY <1>2, <1>4 DEF StateIn
<1>7. ChainOK(c)'
  BY <1>0, <1>1, <1>4, <1>5, <1>6, GapClosed
<1>8. \A x \in Segments : HeaderSame(x) /\ Incarnation(x) /\ SegmentOK(x)'
  BY <1>0, <1>4 DEF HeaderSame, Incarnation, IInv, SegmentOK, TypeOK
<1> QED BY <1>1, <1>2, <1>3, <1>4, <1>7, <1>8, LockedStep

\* A merge publishes its spare and unlocks.
LEMMA MergeEndStep ==
  ASSUME IInv, [Next]_vars, NEW t \in Threads, MergeEnd(t)
  PROVE  IInv'
<1>0. /\ TypeOK /\ TypeOK' /\ ThreadOK(t) /\ bk[t] \in Buckets /\ pc[t] = "after"
      /\ job[t] = "merge" /\ None \notin Segments \cup Buckets \cup Threads
  BY NoneIsNone, TypeStep DEF IInv, ThreadOK, PlaceOK, MergeEnd
<1>1. PICK c \in Buckets : c = bk[t]
  BY <1>0
<1>2. PICK d \in Segments : d = mine[t] /\ d = pv[t] /\ state[d] = "Relinking" /\ ttl[d] = c
  BY <1>0, <1>1 DEF ThreadOK, PlaceOK, MineOK, GapPcs, TypeOK
<1>3. /\ pc[t] \in LockedPcs /\ lock[c] = t /\ Members(c) \subseteq Segments
      /\ \A x \in Members(c) : \/ state[x] = IF x = tail[c] THEN "Live" ELSE "Sealed"
                               \/ x = d /\ x # tail[c]
  BY <1>0, <1>1, <1>2, AfterView
<1>4. OthersSame(t) /\ ThreadOK(t)' /\ mine'[t] = None
  BY FinishedOK DEF MergeEnd
<1>5. /\ UNCHANGED <<next, prev, ttl, created, gen, full, limit, head, tail, clock>>
      /\ state'[d] = "Sealed" /\ \A x \in Segments : x # d => state'[x] = state[x]
      /\ lock'[c] = None
      /\ \A b \in Buckets : b # c => lock'[b] = lock[b]
  BY <1>0, <1>1, <1>2 DEF MergeEnd, Unlock, TypeOK
<1>6. d \in Members(c)
  BY <1>2 DEF Members
<1>7. Gap(c)' = FALSE /\ Members(c)' = Members(c)
  BY <1>2, <1>5 DEF Gap, Members
<1>8. \A x \in Members(c) : StateIn(c, x)'
  <2>1. d # tail[c]
    BY <1>2, <1>3, <1>6
  <2> QED BY <1>3, <1>5, <2>1 DEF StateIn
<1>9. head'[c] = IF pv[t] = None THEN nx[t] ELSE head[c]
  BY <1>0, <1>2, <1>5
<1>10. ChainOK(c)'
  BY <1>0, <1>1, <1>5, <1>7, <1>8, <1>9, GapClosed
<1>11. \A x \in Segments : SegmentOK(x)'
  BY <1>2, <1>5 DEF IInv, SegmentOK, MemberStates
<1>12. \A x \in Segments : Incarnation(x)
  BY <1>0, <1>2, <1>5 DEF Incarnation, TypeOK, UsedStates, MemberStates
<1>13. \A x \in Segments :
         \/ HeaderSame(x)
         \/ /\ x \in Members(c) \/ x = mine[t] \/ state[x] = "Free"
            /\ state'[x] \notin MemberStates \/ ttl'[x] = c
            /\ ttl'[x] = ttl[x] \/ ttl'[x] = c
  BY <1>2, <1>5 DEF HeaderSame
<1> QED BY <1>1, <1>3, <1>4, <1>5, <1>10, <1>11, <1>12, <1>13, LockedStep

\* A merge claims the segment that now follows its spare.
LEMMA MergeClaimNextStep ==
  ASSUME IInv, [Next]_vars, NEW t \in Threads, MergeClaimNext(t)
  PROVE  IInv'
<1>0. /\ TypeOK /\ TypeOK' /\ ThreadOK(t) /\ bk[t] \in Buckets /\ pc[t] = "after"
      /\ job[t] = "merge" /\ None \notin Segments \cup Buckets \cup Threads
      /\ merged[t] <= MaxMerge
  BY NoneIsNone, TypeStep DEF IInv, ThreadOK, PlaceOK, MergeClaimNext, MayMerge
<1>1. PICK c \in Buckets : c = bk[t]
  BY <1>0
<1>2. PICK d \in Segments : d = mine[t] /\ d = pv[t] /\ state[d] = "Relinking" /\ ttl[d] = c
  BY <1>0, <1>1 DEF ThreadOK, PlaceOK, MineOK, GapPcs, TypeOK
<1>3. /\ pc[t] \in LockedPcs /\ lock[c] = t /\ Members(c) \subseteq Segments
      /\ \A x \in Members(c) : \/ state[x] = IF x = tail[c] THEN "Live" ELSE "Sealed"
                               \/ x = d /\ x # tail[c]
      /\ nx[t] \in Members(c) \cup {None}
  BY <1>0, <1>1, <1>2, AfterView
<1>4. PICK s \in Members(c) : s = nx[t] /\ state[s] = "Sealed"
  BY <1>3 DEF MergeClaimNext, MayMerge
<1>5. s \in Segments /\ ttl[s] = c /\ s # d /\ s # tail[c] /\ next[d] = s
  BY <1>0, <1>2, <1>3, <1>4 DEF ThreadOK, CurOK, Members
<1>6. /\ OthersSame(t) /\ mine'[t] = d /\ merged'[t] = merged[t] /\ job'[t] = "merge"
      /\ bk'[t] = c /\ cur'[t] = s /\ pc'[t] = "copy"
      /\ UNCHANGED <<next, prev, ttl, created, gen, full, limit, head, tail, lock, clock>>
      /\ state'[s] = "Draining" /\ \A x \in Segments : x # s => state'[x] = state[x]
  BY <1>0, <1>1, <1>2, <1>4, <1>5 DEF MergeClaimNext, OthersSame, TypeOK, bucket
<1>7. Gap(c)' = FALSE /\ Members(c)' = Members(c)
  <2>1. Gap(c)' = FALSE
    BY <1>3, <1>6 DEF Gap, GapPcs
  <2> QED BY <1>4, <1>5, <1>6, <2>1 DEF Members
<1>8. \A x \in Members(c) : StateIn(c, x)'
  <2>1. StateIn(c, s)'
    BY <1>0, <1>3, <1>5, <1>6 DEF StateIn, ClaimedPcs
  <2>2. StateIn(c, d)'
    <3>1. d # tail[c] /\ d \in Members(c)
      BY <1>2, <1>3 DEF Members
    <3> QED BY <1>0, <1>2, <1>3, <1>5, <1>6, <3>1 DEF StateIn
  <2>3. ASSUME NEW x \in Members(c), x # s, x # d PROVE StateIn(c, x)'
    BY <1>3, <1>6, <2>3 DEF StateIn
  <2> QED BY <2>1, <2>2, <2>3
<1>9. head'[c] = IF pv[t] = None THEN nx[t] ELSE head[c]
  BY <1>0, <1>2, <1>6
<1>10. ChainOK(c)'
  BY <1>0, <1>1, <1>6, <1>7, <1>8, <1>9, GapClosed
<1>11. ThreadOK(t)'
  BY <1>0, <1>2, <1>5, <1>6 DEF ThreadOK, PlaceOK, MineOK, CurOK, TailOK, HintOK, ClaimedPcs, GapPcs
<1>12. \A x \in Segments : SegmentOK(x)'
  BY <1>4, <1>6 DEF IInv, SegmentOK, MemberStates
<1>13. \A x \in Segments : Incarnation(x)
  BY <1>0, <1>4, <1>6 DEF Incarnation, TypeOK, UsedStates, MemberStates
<1>14. \A x \in Segments :
         \/ HeaderSame(x)
         \/ /\ x \in Members(c) \/ x = mine[t] \/ state[x] = "Free"
            /\ state'[x] \notin MemberStates \/ ttl'[x] = c
            /\ ttl'[x] = ttl[x] \/ ttl'[x] = c
  BY <1>4, <1>5, <1>6 DEF HeaderSame
<1> QED BY <1>1, <1>2, <1>3, <1>6, <1>10, <1>11, <1>12, <1>13, <1>14, LockedStep

-----------------------------------------------------------------------------
\* try_expand seals the observed tail and links the new segment behind it.
LEMMA ExpandSealStep ==
  ASSUME IInv, [Next]_vars, NEW t \in Threads, ExpandSeal(t)
  PROVE  IInv'
<1>0. /\ TypeOK /\ TypeOK' /\ ThreadOK(t) /\ bk[t] \in Buckets /\ pc[t] = "expand_lock"
      /\ None \notin Segments \cup Buckets \cup Threads
  BY NoneIsNone, TypeStep DEF IInv, ThreadOK, PlaceOK, ExpandSeal
<1>1. PICK c \in Buckets : c = bk[t] /\ lock[c] = None
  BY <1>0 DEF ExpandSeal
<1>2. PICK s \in Segments : s = mine[t] /\ state[s] = "Reserved" /\ ttl[s] = c
  BY <1>0, <1>1 DEF ThreadOK, PlaceOK, MineOK, TypeOK
<1>3. PICK old \in Segments \cup {None} : old = cur[t] /\ old = tail[c]
  BY <1>0, <1>1 DEF ExpandSeal, TailUnchanged, TypeOK
<1>4. old # None => state[old] = "Live" /\ created[old] <= created[s]
  BY <1>0, <1>2, <1>3 DEF ExpandSeal, TailUnchanged, ThreadOK, TailOK
<1>5. Quiet(c)
  BY <1>1 DEF Quiet
<1>6. /\ Members(c) \subseteq Segments
      /\ List(Members(c), next, prev, head[c], tail[c])
      /\ \A x \in Members(c) : state[x] = IF x = tail[c] THEN "Live" ELSE "Sealed"
      /\ \A x \in Members(c) : next[x] # None => created[x] <= created[next[x]]
  <2>1. ChainOK(c)
    BY DEF IInv
  <2>2. /\ Chain(c) = Members(c) /\ NextIn(c) = next /\ PrevIn(c) = prev /\ HeadIn(c) = head[c]
        /\ \A x \in Members(c) : state[x] = IF x = tail[c] THEN "Live" ELSE "Sealed"
    BY <1>5, QuietStates
  <2>3. Members(c) \subseteq Segments
    BY DEF Members
  <2> QED BY <2>1, <2>2, <2>3 DEF ChainOK
<1>7. s \notin Members(c) /\ s # old
  BY <1>2, <1>4, <1>0 DEF Members
<1>8. old # None => old \in Members(c)
  BY <1>3, <1>6 DEF List
<1>9. OthersSame(t) /\ ThreadOK(t)' /\ mine'[t] = None
  BY FinishedOK DEF ExpandSeal
<1>10. /\ state'[s] = "Live" /\ (old # None => state'[old] = "Sealed")
       /\ \A x \in Segments : x # s /\ x # old => state'[x] = state[x]
  <2>1. state' = [x \in Segments |-> CASE x = s -> "Live" [] x = old -> "Sealed"
                                      [] OTHER -> state[x]]
    BY <1>2, <1>3 DEF ExpandSeal
  <2> QED BY <1>7, <2>1
<1>11. /\ next'[s] = None /\ (old # None => next'[old] = s)
       /\ \A x \in Segments : x # s /\ x # old => next'[x] = next[x]
  <2>1. next' = [x \in Segments |-> CASE x = s -> None [] x = old -> s [] OTHER -> next[x]]
    BY <1>2, <1>3 DEF ExpandSeal
  <2> QED BY <1>7, <2>1
<1>12. /\ prev'[s] = old /\ \A x \in Segments : x # s => prev'[x] = prev[x]
       /\ tail'[c] = s /\ head'[c] = (IF old = None THEN s ELSE head[c])
       /\ \A b \in Buckets : b # c => tail'[b] = tail[b] /\ head'[b] = head[b]
       /\ limit'[s] = created[s] /\ \A x \in Segments : x # s => limit'[x] = limit[x]
       /\ UNCHANGED <<ttl, created, gen, full, lock, clock>>
  BY <1>0, <1>1, <1>2, <1>3 DEF ExpandSeal, TypeOK
<1>13. Members(c)' = Members(c) \cup {s}
  BY <1>0, <1>2, <1>4, <1>10, <1>12 DEF Members
<1>14. Gap(c)' = FALSE
  BY <1>1, <1>12 DEF Gap
<1>15. /\ Chain(c)' = Members(c) \cup {s} /\ NextIn(c)' = next' /\ PrevIn(c)' = prev'
       /\ HeadIn(c)' = head'[c]
  BY <1>13, <1>14 DEF Chain, NextIn, PrevIn, HeadIn
<1>16. List(Members(c) \cup {s}, next', prev', head'[c], tail'[c])
  <2>1. PICK n, p, h : n = next' /\ p = prev' /\ h = head'[c]
    OBVIOUS
  <2>2. n[s] = None /\ p[s] = tail[c]
    BY <1>3, <1>11, <1>12, <2>1
  <2>3. \A x \in Members(c) : n[x] = IF x = tail[c] THEN s ELSE next[x]
    BY <1>0, <1>3, <1>6, <1>7, <1>11, <2>1
  <2>4. \A x \in Members(c) : p[x] = prev[x]
    BY <1>6, <1>7, <1>12, <2>1
  <2>5. h = IF tail[c] = None THEN s ELSE head[c]
    BY <1>3, <1>12, <2>1
  <2>6. List(Members(c) \cup {s}, n, p, h, s)
    BY <1>6, <1>7, <2>2, <2>3, <2>4, <2>5, ListAppend
  <2> QED BY <1>12, <2>1, <2>6
<1>17. \A x \in Members(c) \cup {s} : StateIn(c, x)'
  <2>1. StateIn(c, s)'
    BY <1>10, <1>12 DEF StateIn
  <2>2. ASSUME NEW x \in Members(c) PROVE StateIn(c, x)'
    BY <1>0, <1>3, <1>6, <1>7, <1>10, <1>12 DEF StateIn
  <2> QED BY <2>1, <2>2
<1>18. \A x \in Members(c) \cup {s} : next'[x] # None => created'[x] <= created'[next'[x]]
  <2> SUFFICES ASSUME NEW x \in Members(c), next'[x] # None
               PROVE  created[x] <= created[next'[x]]
    BY <1>11, <1>12
  <2>1. CASE x = old
    BY <1>0, <1>4, <1>6, <1>11, <2>1
  <2>2. CASE x # old
    BY <1>6, <1>7, <1>11, <2>2
  <2> QED BY <2>1, <2>2
<1>19. ChainOK(c)'
  BY <1>12, <1>15, <1>16, <1>17, <1>18 DEF ChainOK
<1>20. \A x \in Segments : SegmentOK(x)'
  <2>1. \A x \in Segments : SegmentOK(x) /\ created[x] \in Int
    BY <1>0 DEF IInv, TypeOK
  <2>2. SegmentOK(s)'
    BY <1>10, <1>12, <2>1 DEF SegmentOK
  <2>3. ASSUME NEW x \in Segments, x # s PROVE SegmentOK(x)'
    BY <1>0, <1>4, <1>10, <1>12, <2>1, <2>3 DEF SegmentOK, MemberStates
  <2> QED BY <2>2, <2>3
<1>21. \A x \in Segments : Incarnation(x)
  BY <1>0, <1>2, <1>4, <1>10, <1>12 DEF Incarnation, TypeOK, UsedStates, MemberStates
<1>22. MineApart'
  BY <1>9, ApartStep
<1>23. \A x \in Segments : HeaderSame(x) \/ Touches(t, c, x)
  <2>1. \A x \in Segments : x # s /\ x # old => HeaderSame(x)
    BY <1>10, <1>11, <1>12 DEF HeaderSame
  <2>2. \A u \in Threads : u # t => mine[u] # s /\ (old # None => mine[u] # old)
    BY <1>0, <1>1, <1>2, <1>8, OwnApart
  <2>3. ttl[s] = c /\ ttl'[s] = c /\ (old # None => ttl[old] = c /\ ttl'[old] = c)
    BY <1>2, <1>8, <1>12 DEF Members
  <2>4. Touches(t, c, s)
    BY <2>2, <2>3 DEF Touches
  <2>5. old # None => Touches(t, c, old)
    BY <2>2, <2>3 DEF Touches
  <2> QED BY <1>0, <2>1, <2>4, <2>5
<1>24. StepAt(t, c)
  BY <1>0, <1>1, <1>9, <1>12, <1>21, <1>23 DEF StepAt, TypeOK, LockedPcs
<1> QED BY <1>9, <1>19, <1>20, <1>22, <1>24, KeepsIInv

-----------------------------------------------------------------------------
\* Steps of no thread: the clock, a writer that fills a tail, the last reader of a
\* condemned segment.
LEMMA OutsideStep ==
  ASSUME IInv, [Next]_vars, UNCHANGED <<next, prev, ttl, created, bucket, local>>,
         \A x \in Segments : \/ state'[x] = state[x]
                             \/ state[x] = "AwaitingRelease" /\ state'[x] = "Free",
         \A x \in Segments : Incarnation(x),
         \A x \in Segments : SegmentOK(x)'
  PROVE  IInv'
<1>0. TypeOK /\ None \notin Segments \cup Buckets \cup Threads
  BY NoneIsNone DEF IInv
<1>1. \A u \in Threads, x \in Segments : mine[u] = x => state[x] # "AwaitingRelease"
  BY <1>0, OwnApart
<1>2. \A x \in Segments : HeaderSame(x) \/ Touches(None, None, x)
  BY <1>0, <1>1 DEF HeaderSame, Touches, MemberStates
<1>3. OthersSame(None) /\ MineApart'
  BY DEF OthersSame, MineApart, IInv, local
<1>4. StepAt(None, None)
  BY <1>0, <1>2, <1>3 DEF StepAt, bucket
<1> QED BY <1>0, <1>3, <1>4, KeepsIInv

\* The clock moves on.
LEMMA TickStep ==
  ASSUME IInv, [Next]_vars, Tick
  PROVE  IInv'
<1>0. TypeOK /\ MaxTime \in Nat
  BY ChainBounds DEF IInv
<1>1. \A x \in Segments : SegmentOK(x)'
  <2>1. \A x \in Segments : SegmentOK(x) /\ created[x] \in Int /\ clock \in Int
    BY <1>0 DEF IInv, TypeOK
  <2> QED BY <2>1 DEF SegmentOK, Tick, header
<1>2. \A x \in Segments : Incarnation(x)
  BY <1>0 DEF Incarnation, Tick, header, TypeOK
<1>3. UNCHANGED <<state, next, prev, ttl, created, bucket, local>>
  BY DEF Tick, header
<1> QED BY <1>1, <1>2, <1>3, OutsideStep

\* Writers fill a tail.
LEMMA FillStep ==
  ASSUME IInv, [Next]_vars, NEW s \in Segments, Fill(s)
  PROVE  IInv'
<1>0. TypeOK
  BY DEF IInv
<1>1. \A x \in Segments : SegmentOK(x)'
  BY DEF IInv, SegmentOK, Fill
<1>2. \A x \in Segments : Incarnation(x)
  BY <1>0 DEF Incarnation, Fill, TypeOK
<1> QED BY <1>1, <1>2, OutsideStep DEF Fill

\* The last reader frees a condemned segment.
LEMMA CondemnedFreedStep ==
  ASSUME IInv, [Next]_vars, NEW s \in Segments, CondemnedFreed(s)
  PROVE  IInv'
<1>0. TypeOK
  BY DEF IInv
<1>1. /\ state'[s] = "Free" /\ gen'[s] = gen[s] + 1 /\ state[s] = "AwaitingRelease"
      /\ \A x \in Segments : x # s => /\ state'[x] = state[x] /\ gen'[x] = gen[x]
                                      /\ full'[x] = full[x] /\ limit'[x] = limit[x]
      /\ UNCHANGED <<next, prev, ttl, created, bucket, local, clock>>
  BY <1>0 DEF CondemnedFreed, FreeUsed, TypeOK
<1>2. \A x \in Segments : SegmentOK(x)'
  <2>1. SegmentOK(s)'
    BY <1>1 DEF IInv, SegmentOK, MemberStates
  <2>2. ASSUME NEW x \in Segments, x # s PROVE SegmentOK(x)'
    BY <1>1, <2>2 DEF IInv, SegmentOK
  <2> QED BY <2>1, <2>2
<1>3. \A x \in Segments : Incarnation(x)
  BY <1>0, <1>1 DEF Incarnation, TypeOK
<1> QED BY <1>1, <1>2, <1>3, OutsideStep

\* Nothing is linked and nobody is at work.
LEMMA InitIInv == Init => IInv
<1> SUFFICES ASSUME Init PROVE IInv
  OBVIOUS
<1> USE DEF Init
<1>0. None \notin Segments \cup Buckets \cup Threads
  BY NoneIsNone
<1>1. TypeOK
  BY <1>0, ChainBounds DEF TypeOK, States, Pcs, Jobs, LockedPcs
<1>2. ASSUME NEW t \in Threads PROVE ThreadOK(t)
  BY DEF ThreadOK, PlaceOK, MineOK, CurOK, TailOK, HintOK, ClaimedPcs, GapPcs
<1>3. ASSUME NEW b \in Buckets PROVE ChainOK(b)
  <2>1. Members(b) = {} /\ ~Gap(b)
    BY DEF Members, Gap
  <2>2. Chain(b) = {} /\ HeadIn(b) = None /\ tail[b] = None
    BY <2>1 DEF Chain, HeadIn
  <2> QED BY <2>2 DEF ChainOK, List, NoCycle
<1>4. MineApart
  BY DEF MineApart
<1>5. \A s \in Segments : SegmentOK(s)
  BY DEF SegmentOK, MemberStates
<1> QED BY <1>1, <1>2, <1>3, <1>4, <1>5 DEF IInv

\* Every step keeps the inductive invariant.
LEMMA NextIInv == IInv /\ [Next]_vars => IInv'
<1> SUFFICES ASSUME IInv, [Next]_vars PROVE IInv'
  OBVIOUS
<1>1. ASSUME NEW t \in Threads, Expand(t) PROVE IInv'
  BY <1>1, ReadTailStep, ReadGenStep, TryAllocStep, ExpandReserveStep, ExpandNoFreeStep,
     ExpandBailStep, ExpandSealStep DEF Expand
<1>2. ASSUME NEW t \in Threads, Drain(t) PROVE IInv'
  BY <1>2, DrainBeginStep, DrainLockStep, DrainStopStep, DrainClaimStep, DrainNextStep DEF Drain
<1>3. ASSUME NEW t \in Threads, NotSealed(t) \/ ClaimLost(t) PROVE IInv'
  <2>1. Abandon(t)
    BY <1>3 DEF NotSealed, ClaimLost
  <2>2. \/ pc[t] = "evict_lock" /\ lock[bk[t]] = None
        \/ pc[t] \in {"member_ttl", "claim"}
    BY <1>3 DEF NotSealed, ClaimLost
  <2> QED BY <2>1, <2>2, AbandonStep
<1>4. ASSUME NEW t \in Threads, Pass(t) PROVE IInv'
  BY <1>3, <1>4, PassBeginStep, MergeSpareStep, MergeFallbackStep, ExpandNoFreeStep,
     EvictLockStep, MemberTtlStep, ClaimStep, PromoteDestStep, PromoteNoDestStep, LinkDestStep,
     CopyOutStep, PassEndStep, MergeClaimNextStep, MergeEndStep DEF Pass, PassJobs
<1>5. ASSUME NEW t \in Threads, Leave(t) PROVE IInv'
  BY <1>5, UnlinkStep, ReleaseStep, CondemnStep, SpliceStep DEF Leave
<1>6. CASE UNCHANGED vars
  <2>1. \A x \in Segments : SegmentOK(x)'
    BY <1>6 DEF IInv, SegmentOK, vars, header
  <2>2. \A x \in Segments : Incarnation(x)
    BY <1>6 DEF Incarnation, IInv, TypeOK, vars, header
  <2>3. UNCHANGED <<state, next, prev, ttl, created, bucket, local>>
    BY <1>6 DEF vars, header
  <2> QED BY <2>1, <2>2, <2>3, OutsideStep
<1> QED BY <1>1, <1>2, <1>4, <1>5, <1>6, TickStep, FillStep, CondemnedFreedStep DEF Next

\* The inductive invariant holds throughout.
THEOREM ChainInvariant == Spec => []IInv
BY InitIInv, NextIInv, PTL DEF Spec

\* Every variable keeps its type, and a chain lock is held exactly by the thread that
\* is in the locked part of a pass over the bucket.
THEOREM ChainTypeOK == Spec => []TypeOK
<1>1. IInv => TypeOK
  BY DEF IInv
<1> QED BY <1>1, ChainInvariant, PTL

-----------------------------------------------------------------------------
\* A quiet chain is one list of Sealed segments up to a Live tail, in the order of
\* their creation times.
LEMMA QuietChain ==
  ASSUME IInv, NEW c \in Buckets, Quiet(c)
  PROVE  /\ Members(c) \subseteq Segments
         /\ List(Members(c), next, prev, head[c], tail[c])
         /\ \A x \in Members(c) : state[x] = IF x = tail[c] THEN "Live" ELSE "Sealed"
         /\ \A x \in Members(c) : next[x] # None => created[x] <= created[next[x]]
<1>1. ChainOK(c)
  BY DEF IInv
<1>2. /\ Chain(c) = Members(c) /\ NextIn(c) = next /\ PrevIn(c) = prev /\ HeadIn(c) = head[c]
      /\ \A x \in Members(c) : state[x] = IF x = tail[c] THEN "Live" ELSE "Sealed"
  BY QuietStates
<1>3. Members(c) \subseteq Segments
  BY DEF Members
<1> QED BY <1>1, <1>2, <1>3 DEF ChainOK

\* ttl_bucket.rs, chain_lock: a chain that nobody has locked is one doubly linked list
\* of exactly the segments whose headers claim the bucket, Sealed up to a Live tail,
\* for any number of segments, writers, drains, evictions, promotions and merges.
THEOREM ChainsWellFormed == Spec => []ChainWellFormed
<1>1. IInv => ChainWellFormed
  <2> SUFFICES ASSUME IInv, NEW b \in Buckets, lock[b] = None
               PROVE  LET M == Members(b) IN
                      /\ head[b] = None <=> M = {}
                      /\ tail[b] = None <=> M = {}
                      /\ M # {} => head[b] \in M /\ tail[b] \in M
                      /\ \A s \in M :
                           /\ state[s] = IF s = tail[b] THEN "Live" ELSE "Sealed"
                           /\ IF s = tail[b] THEN next[s] = None
                              ELSE next[s] \in M /\ prev[next[s]] = s
                           /\ IF s = head[b] THEN prev[s] = None
                              ELSE prev[s] \in M /\ next[prev[s]] = s
                      /\ \A C \in SUBSET M : C = {} \/ \E s \in C : next[s] \notin C
    BY DEF ChainWellFormed
  <2>1. None \notin Segments
    BY NoneIsNone
  <2>2. /\ Members(b) \subseteq Segments
        /\ List(Members(b), next, prev, head[b], tail[b])
        /\ \A x \in Members(b) : state[x] = IF x = tail[b] THEN "Live" ELSE "Sealed"
    BY QuietChain DEF Quiet
  <2>3. \A C \in SUBSET Members(b) : C = {} \/ \E s \in C : next[s] \notin C
    BY <2>2 DEF List, NoCycle
  <2> QED BY <2>1, <2>2, <2>3 DEF List
<1> QED BY <1>1, ChainInvariant, PTL

\* ttl_bucket.rs: "the head segment is always the oldest": along a chain that nobody
\* has locked creation times never fall, copy destinations included.
THEOREM ChainOldestFirst == Spec => []OldestFirst
<1>1. IInv => OldestFirst
  BY QuietChain DEF OldestFirst, Quiet
<1> QED BY <1>1, ChainInvariant, PTL

\* drain_chain's debug_assert: what a drain meets is a Sealed or Live segment of the
\* bucket it has locked.
THEOREM ChainDrainMeetsMembers == Spec => []DrainMeetsOnlyMembers
<1>1. IInv => DrainMeetsOnlyMembers
  <2> SUFFICES ASSUME IInv, NEW t \in Threads, pc[t] = "drain_walk", ~DrainEnd(t)
               PROVE  state[cur[t]] \in {"Sealed", "Live"} /\ ttl[cur[t]] = bk[t]
    BY DEF DrainMeetsOnlyMembers
  <2>1. TypeOK /\ PlaceOK(t) /\ CurOK(t) /\ cur[t] # None /\ None \notin Segments \cup Buckets
    BY NoneIsNone DEF IInv, ThreadOK, DrainEnd
  <2>2. PICK c \in Buckets : c = bk[t] /\ lock[c] = t
    BY <2>1 DEF PlaceOK, TypeOK, LockedPcs
  <2>3. /\ List(Members(c), next, prev, head[c], tail[c])
        /\ \A x \in Members(c) : state[x] = IF x = tail[c] THEN "Live" ELSE "Sealed"
    BY <2>2, QuietChain DEF Quiet
  <2>4. cur[t] \in Members(c)
    BY <2>1, <2>2, <2>3 DEF CurOK, List
  <2> QED BY <2>2, <2>3, <2>4 DEF Members
<1> QED BY <1>1, ChainInvariant, PTL

\* The head of a list that is ordered by creation time is its oldest element.
LEMMA HeadOldest ==
  ASSUME NEW L \in SUBSET Segments, NEW n, NEW p, NEW h, NEW e, NEW key,
         List(L, n, p, h, e), \A x \in L : key[x] \in Int,
         \A x \in L : n[x] # None => key[x] <= key[n[x]]
  PROVE  \A x \in L : key[h] <= key[x]
<1> DEFINE C == {x \in L : key[x] < key[h]}
<1>0. None \notin Segments
  BY NoneIsNone
<1>1. ASSUME NEW x \in C PROVE p[x] \in C
  <2>1. x \in L /\ x # h /\ h \in L
    BY DEF List
  <2>2. p[x] \in L /\ n[p[x]] = x
    BY <2>1 DEF List
  <2>3. key[p[x]] <= key[x]
    BY <1>0, <2>1, <2>2
  <2> QED BY <2>1, <2>2, <2>3
<1>2. C \in SUBSET L
  OBVIOUS
<1>3. C = {}
  BY <1>1, <1>2 DEF List, NoCycle
<1>4. ASSUME NEW x \in L PROVE key[h] <= key[x]
  <2>1. x \notin C /\ h \in L
    BY <1>3 DEF List
  <2> QED BY <2>1
<1> QED BY <1>4

\* drain_chain stops only when every segment of the chain is still to expire at the
\* cutoff.
THEOREM ChainExpiryMissesNothing == Spec => []ExpiryMissesNothing
<1>1. IInv => ExpiryMissesNothing
  <2> SUFFICES ASSUME IInv, NEW t \in Threads, pc[t] = "drain_walk", job[t] = "expire",
                      DrainEnd(t), NEW s \in Members(bk[t])
               PROVE  created[s] + Ttl > obs[t]
    BY DEF ExpiryMissesNothing
  <2>1. TypeOK /\ PlaceOK(t) /\ CurOK(t) /\ None \notin Segments \cup Buckets
    BY NoneIsNone DEF IInv, ThreadOK
  <2>2. PICK c \in Buckets : c = bk[t] /\ lock[c] = t
    BY <2>1 DEF PlaceOK, TypeOK, LockedPcs
  <2>3. /\ Members(c) \subseteq Segments
        /\ List(Members(c), next, prev, head[c], tail[c])
        /\ \A x \in Members(c) : next[x] # None => created[x] <= created[next[x]]
    BY <2>2, QuietChain DEF Quiet
  <2>4. \A x \in Members(c) : created[x] \in Int
    BY <2>1, <2>3 DEF TypeOK
  <2>5. created[head[c]] <= created[s]
    BY <2>2, <2>3, <2>4, HeadOldest
  <2>6. head[c] \in Members(c) /\ cur[t] = head[c]
    BY <2>1, <2>2, <2>3 DEF List, CurOK
  <2>7. created[head[c]] + Ttl > obs[t]
    BY <2>1, <2>3, <2>6 DEF DrainEnd
  <2>8. s \in Members(c) /\ obs[t] \in Nat /\ Ttl \in Nat
    BY <2>1, <2>2, ChainBounds DEF TypeOK
  <2> QED BY <2>4, <2>5, <2>6, <2>7, <2>8
<1> QED BY <1>1, ChainInvariant, PTL

\* inherit_created: no sequence of merges and promotions gives an item a later
\* deadline than the segment it was first written to.
THEOREM ChainCopyKeepsDeadline == Spec => []CopyKeepsDeadline
<1>1. IInv => CopyKeepsDeadline
  BY DEF IInv, SegmentOK, CopyKeepsDeadline, MemberStates
<1> QED BY <1>1, ChainInvariant, PTL

-----------------------------------------------------------------------------
\* A step that seals s was taken at a full tail.
SealsFull(s) == state[s] = "Live" /\ state'[s] = "Sealed" => full[s]

\* A step that sets the state of no segment to Sealed.
LEMMA NoSeal ==
  ASSUME TypeOK, NEW s \in Segments,
         state' = state \/ \E x, v : v # "Sealed" /\ state' = [state EXCEPT ![x] = v]
  PROVE  SealsFull(s)
BY DEF SealsFull, TypeOK

\* try_expand seals the tail that it found full, in the same incarnation.
LEMMA ExpandSealsFull ==
  ASSUME IInv, NEW t \in Threads, ExpandSeal(t), NEW s \in Segments
  PROVE  SealsFull(s)
<1> SUFFICES ASSUME state[s] = "Live", state'[s] = "Sealed" PROVE full[s]
  BY DEF SealsFull
<1>1. TypeOK /\ TailOK(t) /\ pc[t] = "expand_lock" /\ None \notin Segments
  BY NoneIsNone DEF IInv, ThreadOK, ExpandSeal
<1>2. PICK old, d : old = cur[t] /\ d = mine[t]
  OBVIOUS
<1>3. state'[s] = CASE s = d -> "Live" [] s = old -> "Sealed" [] OTHER -> state[s]
  BY <1>2 DEF ExpandSeal
<1>4. s = cur[t]
  BY <1>2, <1>3
<1> QED BY <1>1, <1>4 DEF ExpandSeal, TailUnchanged, TailOK

\* A copy seals its destination, which was never Live.
LEMMA CopySealsNone ==
  ASSUME IInv, NEW t \in Threads, CopyOut(t) \/ MergeEnd(t), NEW s \in Segments
  PROVE  SealsFull(s)
<1>1. TypeOK /\ ThreadOK(t)
  BY DEF IInv
<1>2. mine[t] \in Segments /\ state[mine[t]] = "Relinking"
  BY <1>1 DEF ThreadOK, PlaceOK, MineOK, CopyOut, MergeEnd, GapPcs, TypeOK
<1>3. s # mine[t] => state'[s] = state[s]
  BY <1>1 DEF CopyOut, MergeEnd, TypeOK
<1> QED BY <1>2, <1>3 DEF SealsFull

\* try_expand: "an election loser can never seal the winner's freshly linked,
\* near-empty segment": whatever it observed before the lock, a segment that turns
\* from Live to Sealed is full.
THEOREM ChainSealsOnlyFull == Spec => SealsOnlyFull
<1>1. IInv /\ [Next]_vars =>
        [\A s \in Segments : state[s] = "Live" /\ state'[s] = "Sealed" => full[s]]_vars
  <2> SUFFICES ASSUME IInv, Next, NEW s \in Segments PROVE SealsFull(s)
    BY DEF SealsFull
  <2>0. TypeOK
    BY DEF IInv
  <2>1. ASSUME NEW t \in Threads, Expand(t) PROVE SealsFull(s)
    <3>1. CASE \E b \in Buckets : ReadTail(t, b)
      BY <2>0, <3>1, NoSeal DEF ReadTail, header
    <3>2. CASE ReadGen(t) \/ TryAlloc(t) \/ ExpandNoFree(t)
      BY <2>0, <3>2, NoSeal DEF ReadGen, TryAlloc, ExpandNoFree, header
    <3>3. CASE ExpandReserve(t)
      <4>1. PICK x \in Segments : state' = [state EXCEPT ![x] = "Reserved"]
        BY <3>3 DEF ExpandReserve, TryReserve, Reservable
      <4> QED BY <2>0, <4>1, NoSeal
    <3>4. CASE ExpandBail(t)
      BY <2>0, <3>4, NoSeal DEF ExpandBail, ReleaseUnused
    <3> QED BY <2>1, <3>1, <3>2, <3>3, <3>4, ExpandSealsFull DEF Expand
  <2>2. ASSUME NEW t \in Threads, Drain(t) PROVE SealsFull(s)
    <3>1. CASE \E b \in Buckets, j \in {"expire", "clear"} : DrainBegin(t, b, j)
      BY <2>0, <3>1, NoSeal DEF DrainBegin, header
    <3>2. CASE DrainLock(t) \/ DrainStop(t) \/ DrainNext(t)
      BY <2>0, <3>2, NoSeal DEF DrainLock, DrainStop, DrainNext, header
    <3>3. CASE DrainClaim(t)
      BY <2>0, <3>3, NoSeal DEF DrainClaim
    <3> QED BY <2>2, <3>1, <3>2, <3>3 DEF Drain
  <2>3. ASSUME NEW t \in Threads, Abandon(t) PROVE SealsFull(s)
    <3>1. state' = state \/ state' = [state EXCEPT ![mine[t]] = "Free"]
      BY <2>3 DEF Abandon, ReleaseUnused, header
    <3> QED BY <2>0, <3>1, NoSeal
  <2>4. ASSUME NEW t \in Threads, Pass(t) PROVE SealsFull(s)
    <3>1. CASE \E x \in Segments, b \in Buckets, j \in {"drop", "promote", "merge"} :
                 PassBegin(t, x, b, j)
      BY <2>0, <3>1, NoSeal DEF PassBegin, header
    <3>2. CASE MergeFallback(t) \/ MergeGiveUp(t) \/ EvictLock(t) \/ PromoteNoDest(t) \/ PassEnd(t)
      BY <2>0, <3>2, NoSeal DEF MergeFallback, MergeGiveUp, EvictLock, PromoteNoDest, PassEnd, header
    <3>3. CASE MergeSpare(t) \/ PromoteDest(t)
      <4>1. PICK x \in Segments : state' = [state EXCEPT ![x] = "Reserved"]
        BY <3>3 DEF MergeSpare, PromoteDest, TryReserve, Reservable
      <4> QED BY <2>0, <4>1, NoSeal
    <3>4. CASE NotSealed(t) \/ ClaimLost(t)
      BY <2>3, <3>4 DEF NotSealed, ClaimLost
    <3>5. CASE MemberTtl(t)
      <4>1. state' = state \/ Abandon(t)
        BY <3>5 DEF MemberTtl, header
      <4> QED BY <2>0, <2>3, <4>1, NoSeal
    <3>6. CASE Claim(t)
      BY <2>0, <3>6, NoSeal DEF Claim
    <3>7. CASE LinkDest(t)
      BY <2>0, <3>7, NoSeal DEF LinkDest
    <3>8. CASE MergeClaimNext(t)
      BY <2>0, <3>8, NoSeal DEF MergeClaimNext
    <3>9. CASE CopyOut(t) \/ MergeEnd(t)
      BY <3>9, CopySealsNone
    <3> QED BY <2>4, <3>1, <3>2, <3>3, <3>4, <3>5, <3>6, <3>7, <3>8, <3>9 DEF Pass
  <2>5. ASSUME NEW t \in Threads, Leave(t) PROVE SealsFull(s)
    <3>1. state' = state \/ state' = [state EXCEPT ![cur[t]] = "Free"]
                         \/ state' = [state EXCEPT ![cur[t]] = "AwaitingRelease"]
      BY <2>5 DEF Leave, Unlink, Release, FreeUsed, Condemn, Splice
    <3> QED BY <2>0, <3>1, NoSeal
  <2>6. CASE Tick
    BY <2>0, <2>6, NoSeal DEF Tick, header
  <2>7. ASSUME NEW x \in Segments, Fill(x) \/ CondemnedFreed(x) PROVE SealsFull(s)
    BY <2>0, <2>7, NoSeal DEF Fill, CondemnedFreed, FreeUsed
  <2> QED BY <2>1, <2>2, <2>4, <2>5, <2>6, <2>7 DEF Next
<1> QED BY <1>1, ChainInvariant, PTL DEF Spec, SealsOnlyFull
=============================================================================
