---------------------------- MODULE CacheProofs ----------------------------
(***************************************************************************)
(* CacheOps for any number of threads, keys, slots, segments and buckets:  *)
(* no entry outlives its segment's incarnation, a key never has two,       *)
(* live_items covers what is published, and nobody waits in a circle.      *)
(***************************************************************************)
EXTENDS CacheOps, FiniteSetTheorems, FunctionTheorems, TLAPS

SegmentStates == {"Free", "Live", "Sealed", "Relinking", "Draining", "Condemned"}

DrainPcs == {"quiesce", "copy", "relink", "sweep", "nextcand"}

\* Where a thread has a location it read from a slot, and the slot.
WordPcs == {"verify", "publishes", "acquire", "pinold", "swapold", "swap",
            "delgen", "delpin", "delfence", "unlinkfree", "unlink"}

AtPcs == {"verify", "publishes", "pinold", "swapold", "swap"}

\* Where an insert has verified that the location is its key's.
MatchPcs == {"pinold", "swapold", "swap"}

WritePhases == {"lookup", "replace", "relock"}

ThreadFields == {"pc", "op", "key", "val", "phase", "left", "at", "word", "unk", "new",
                 "wpin", "rem", "pin", "old", "obs", "unlinked", "ttl", "then", "res", "taken"}

DrainFields == {"seg", "dest", "j", "kind", "ret"}

Item == [key : Keys, val : Values]

TypeOK ==
  /\ slot \in [Slots -> Location \cup {None}]
  /\ st \in [Segments -> SegmentStates]
  /\ gen \in [Segments -> Nat]
  /\ items \in [Segments -> Seq(Item)]
  /\ live \in [Segments -> Int]
  /\ stripe \in [Keys -> Threads \cup {None}]
  /\ ttl \in [Segments -> Buckets \cup {None}]
  /\ chain \in [Buckets -> Threads \cup {None}]
  /\ DOMAIN th = Threads /\ \A t \in Threads : DOMAIN th[t] = ThreadFields
  /\ DOMAIN dr = Threads /\ \A t \in Threads : DOMAIN dr[t] = DrainFields

-----------------------------------------------------------------------------
\* A drain runs inside the call that began it: the step of the call itself.
CallPc(t) == IF th[t].pc \in DrainPcs THEN dr[t].ret ELSE th[t].pc

\* A call r at step p has a reserved item that is not published yet.
Writing(r, p) ==
  \/ p \in {"pinold", "swapold", "swap", "lock", "claimslot"}
  \/ p \in {"scan", "verify"} /\ r.phase \in WritePhases

\* A location that some incarnation of its segment has issued.
Issued(w) ==
  /\ w \in Location /\ w.gen <= gen[w.seg]
  /\ Resolves(w) => st[w.seg] # "Free" /\ w.off <= Len(items[w.seg])

\* The locations a call has, by its step.
WordsOK(r, p) ==
  /\ p \in WordPcs => Issued(r.word)
  /\ p \in MatchPcs /\ Resolves(r.word) => ItemAt(r.word).key = r.key
  /\ r.old # None => Issued(r.old)

\* What a call has, by its step.
StepOK(r, p) ==
  /\ r.new # None <=> Writing(r, p)
  /\ r.wpin <=> r.new # None
  /\ Writing(r, p) \/ p \in {"reserve", "wait"} \/ r.then = "wait" =>
       r.key \in Keys /\ r.val \in Values /\ r.ttl \in Buckets
  /\ r.phase = "relock" => p \in {"scan", "verify", "swap", "claimslot"}
  /\ p = "swap" => r.phase \in {"replace", "relock"}
  /\ p = "lock" => r.phase = "replace"
  /\ p = "claimslot" => r.phase = "relock" /\ r.left = {} /\ r.unk = None
  /\ p \in AtPcs => r.at \in Slots
  /\ r.unk \in Location \cup {None}
  /\ p = "wait" \/ r.then = "wait" => r.unk # None
  /\ r.then # "none" => p \in {"undo", "remove", "tail"}
  /\ r.old # None <=> p \in {"undo", "remove"}
  /\ r.rem # None => p \in {"swapold", "remove", "unlink"}

\* The reserved item is in its segment, which no drain can have got past yet.
NewOK(r) ==
  r.new # None =>
    /\ r.new \in Location /\ Resolves(r.new) /\ r.new.off <= Len(items[r.new.seg])
    /\ st[r.new.seg] \in {"Live", "Sealed", "Draining"}
    /\ ItemAt(r.new).key = r.key

\* insert's second pass, under the stripe: no slot it is done with has the key.
ScanOK(r) ==
  r.phase = "relock" /\ r.unk = None =>
    /\ \A i \in Bound(r.key) : i \in r.left \/ (r.pc \in {"verify", "swap"} /\ i = r.at)
    /\ r.pc = "verify" /\ r.at \in Bound(r.key) /\ Readable(r.word) => ItemAt(r.word).key = r.key

CallOK(t) ==
  /\ StepOK(th[t], CallPc(t))
  /\ WordsOK(th[t], CallPc(t))
  /\ NewOK(th[t])
  /\ ScanOK(th[t])

\* A drain has its chain locked, its segment Draining and its destination
\* Relinking; from the quiesce on no writer is left, and what is swept is gone.
DrainOK(t) ==
  LET d == dr[t]  p == th[t].pc IN
  /\ p \notin DrainPcs => d = NoDrain
  /\ p \in DrainPcs => d.ret \in {"idle", "reserve", "tail"}
  /\ p \in DrainPcs \ {"nextcand"} =>
       d.seg \in Segments /\ st[d.seg] = "Draining" /\ ttl[d.seg] \in Buckets
       /\ chain[ttl[d.seg]] = t
  /\ p = "nextcand" => d.seg = None /\ d.dest # None
  /\ d.dest # None =>
       /\ d.dest \in Segments /\ st[d.dest] = "Relinking" /\ ttl[d.dest] \in Buckets
       /\ chain[ttl[d.dest]] = t
       /\ d.seg # None => ttl[d.dest] = ttl[d.seg]
  /\ p \in {"copy", "relink"} => d.dest # None
  /\ p \in {"copy", "relink", "sweep"} =>
       /\ d.j \in Nat \ {0}
       /\ \A u \in Threads : th[u].new # None => th[u].new.seg # d.seg
  /\ p = "sweep" => \A i \in Slots : slot[i] # None /\ slot[i].seg = d.seg => slot[i].off >= d.j

\* Locks are held by the calls and drains that took them.
LockOK(t) ==
  /\ \A k \in Keys : stripe[k] = t <=> th[t].phase = "relock" /\ th[t].key = k
  /\ \A b \in Buckets : chain[b] = t =>
       /\ th[t].pc \in DrainPcs
       /\ dr[t].seg # None => b = ttl[dr[t].seg]
       /\ dr[t].seg = None => b = ttl[dr[t].dest]

ThreadOK(t) == CallOK(t) /\ DrainOK(t) /\ LockOK(t)

SegmentsOK == \A s \in Segments : st[s] \in {"Live", "Sealed"} => ttl[s] \in Buckets

\* No two entries are of one key.
OneEntry == \A k \in Keys : \A i, j \in Bound(k) : i = j

\* A location is in one slot, or one thread's to publish, or one thread's to take off
\* its segment's count.
Apart ==
  /\ \A t \in Threads, i \in Slots : slot[i] # None => slot[i] # th[t].new /\ slot[i] # th[t].old
  /\ \A t, u \in Threads : t # u =>
       /\ th[t].new # None => th[t].new # th[u].new
       /\ th[t].old # None => th[t].old # th[u].old
  /\ \A t, u \in Threads : th[t].new # None => th[t].new # th[u].old

Refs == {w \in Location : \/ \E i \in Slots : slot[i] = w
                          \/ \E t \in Threads : th[t].new = w \/ th[t].old = w}

\* The items of s that its live_items has to count.
Outstanding(s) == {o \in 1..Len(items[s]) : Loc(s, o) \in Refs}

LiveOK == \A s \in Segments : live[s] >= Cardinality(Outstanding(s))

IInv ==
  /\ TypeOK
  /\ \A t \in Threads : ThreadOK(t)
  /\ SegmentsOK
  /\ NoStaleEntry
  /\ OneEntry
  /\ Apart
  /\ LiveOK

-----------------------------------------------------------------------------
(* What a step of thread t leaves alone. *)

\* A segment keeps what it holds, or goes to its next incarnation.
SegmentStep(s) ==
  \/ /\ gen'[s] = gen[s]
     /\ st[s] # "Free" => st'[s] # "Free"
     /\ st[s] \in {"Draining", "Condemned"} => st'[s] \in {"Draining", "Condemned"}
     /\ Len(items'[s]) >= Len(items[s])
     /\ \A o \in 1..Len(items[s]) : items'[s][o] = items[s][o]
  \/ gen'[s] = gen[s] + 1

\* What the other threads rely on.
Frame(t) ==
  /\ \A u \in Threads : u # t => th'[u] = th[u] /\ dr'[u] = dr[u]
  /\ \A k \in Keys, u \in Threads : u # t => (stripe'[k] = u <=> stripe[k] = u)
  /\ \A b \in Buckets, u \in Threads : u # t => (chain'[b] = u <=> chain[b] = u)
  /\ \A s \in Segments : SegmentStep(s)
  /\ \A s \in Segments : \/ st[s] = "Draining" /\ s # dr[t].seg
                         \/ st[s] = "Relinking" /\ s # dr[t].dest
                         => st'[s] = st[s] /\ ttl'[s] = ttl[s]
  /\ \A s \in Segments : st[s] \in {"Live", "Sealed", "Draining"} =>
       \/ gen'[s] = gen[s] /\ st'[s] \in {"Live", "Sealed", "Draining"}
       \/ \A u \in Threads : u # t /\ th[u].new # None => th[u].new.seg # s
  /\ th'[t].new \in {th[t].new, None} \/ st[th'[t].new.seg] = "Live"
  /\ \A i \in Slots : \/ slot'[i] \in {slot[i], None, th[t].new}
                      \/ dr[t].dest # None /\ slot'[i].seg = dr[t].dest
  /\ \A k \in Keys : stripe[k] # t => Bound(k)' \subseteq Bound(k)

-----------------------------------------------------------------------------
(* Locations. *)

\* pack_location gives a location, and different items different ones.
LEMMA LocFields ==
  ASSUME TypeOK, NEW s \in Segments, NEW o \in Nat \ {0}
  PROVE  /\ Loc(s, o) \in Location
         /\ Loc(s, o).seg = s /\ Loc(s, o).gen = gen[s] /\ Loc(s, o).off = o
         /\ Resolves(Loc(s, o))
  BY DEF Loc, Location, TypeOK, Resolves

\* A location is its three parts.
LEMMA LocationEqual ==
  ASSUME NEW v \in Location, NEW w \in Location, v.seg = w.seg, v.gen = w.gen, v.off = w.off
  PROVE  v = w
  BY DEF Location

\* A location of the current incarnation is the one pack_location gives.
LEMMA CurrentLoc ==
  ASSUME TypeOK, NEW w \in Location, Resolves(w)
  PROVE  w = Loc(w.seg, w.off)
<1>1. w.seg \in Segments /\ w.off \in Nat \ {0}
  BY DEF Location
<1>2. /\ Loc(w.seg, w.off) \in Location
      /\ Loc(w.seg, w.off).seg = w.seg /\ Loc(w.seg, w.off).gen = gen[w.seg]
      /\ Loc(w.seg, w.off).off = w.off
  BY <1>1, LocFields
<1> QED BY <1>2, LocationEqual DEF Resolves

\* An issued location stays issued.
LEMMA IssuedKept ==
  ASSUME TypeOK, TypeOK', NEW w \in Location, SegmentStep(w.seg), Issued(w)
  PROVE  Issued(w)'
<1> USE DEF Location, TypeOK
<1>1. w.seg \in Segments /\ w.gen \in Nat /\ w.off \in Nat /\ gen[w.seg] \in Nat /\ gen'[w.seg] \in Nat
  OBVIOUS
<1>2. items[w.seg] \in Seq(Item) /\ items'[w.seg] \in Seq(Item)
  BY <1>1
<1> QED BY <1>1, <1>2 DEF Issued, Resolves, SegmentStep

\* What a location resolves to does not change.
LEMMA ItemKept ==
  ASSUME TypeOK, TypeOK', NEW w \in Location, SegmentStep(w.seg), Issued(w), Resolves(w)'
  PROVE  Resolves(w) /\ ItemAt(w)' = ItemAt(w)
<1> USE DEF Location, TypeOK
<1>1. w.seg \in Segments /\ w.gen \in Nat /\ w.off \in Nat \ {0} /\ gen[w.seg] \in Nat
  OBVIOUS
<1>2. items[w.seg] \in Seq(Item)
  BY <1>1
<1>3. Resolves(w) /\ gen'[w.seg] = gen[w.seg]
  BY <1>1 DEF Issued, Resolves, SegmentStep
<1>4. w.off \in 1..Len(items[w.seg])
  BY <1>1, <1>2, <1>3 DEF Issued
<1> QED BY <1>1, <1>3, <1>4 DEF SegmentStep, ItemAt

\* A location that cannot be pinned now never can be.
LEMMA UnreadableKept ==
  ASSUME TypeOK, TypeOK', NEW w \in Location, SegmentStep(w.seg), Issued(w), Readable(w)'
  PROVE  Readable(w)
<1>1. w.seg \in Segments /\ w.gen \in Nat /\ gen[w.seg] \in Nat
  BY DEF Location, TypeOK
<1>2. Resolves(w) /\ gen'[w.seg] = gen[w.seg]
  BY <1>1 DEF Issued, Readable, Resolves, SegmentStep
<1>3. st[w.seg] # "Free"
  BY <1>2 DEF Issued
<1>4. st[w.seg] \in SegmentStates
  BY <1>1 DEF TypeOK
<1> QED BY <1>1, <1>2, <1>3, <1>4 DEF Readable, SegmentStep, SegmentStates

\* What a slot publishes is issued, and is the key's it is found under.
LEMMA SlotIssued ==
  ASSUME TypeOK, NoStaleEntry, NEW i \in Slots, slot[i] # None
  PROVE  /\ slot[i] \in Location /\ Issued(slot[i]) /\ Resolves(slot[i])
         /\ ItemAt(slot[i]).key \in Keys
         /\ \A k : i \in Bound(k) <=> ItemAt(slot[i]).key = k
<1>1. slot[i] \in Location
  BY DEF TypeOK
<1>2. /\ slot[i].seg \in Segments /\ slot[i].off \in Nat \ {0} /\ slot[i].gen \in Nat
      /\ gen[slot[i].seg] \in Nat /\ items[slot[i].seg] \in Seq(Item)
  BY <1>1 DEF Location, TypeOK
<1>3. Resolves(slot[i]) /\ st[slot[i].seg] # "Free" /\ slot[i].off <= Len(items[slot[i].seg])
  BY DEF NoStaleEntry
<1>4. Issued(slot[i])
  BY <1>1, <1>2, <1>3 DEF Issued, Resolves
<1>5. slot[i].off \in 1..Len(items[slot[i].seg])
  BY <1>2, <1>3
<1>6. ItemAt(slot[i]) \in Item
  BY <1>2, <1>5 DEF ItemAt
<1> QED BY <1>1, <1>3, <1>4, <1>6 DEF Item, Bound

\* An entry that is left alone is bound to its key as before.
LEMMA BoundKept ==
  ASSUME TypeOK, TypeOK', NoStaleEntry, NEW i \in Slots, slot'[i] = slot[i], slot[i] # None,
         SegmentStep(slot[i].seg), NEW k, i \in Bound(k)'
  PROVE  i \in Bound(k)
<1>0. PICK w : w = slot[i]
  OBVIOUS
<1>1. w \in Location /\ Issued(w)
  BY <1>0, SlotIssued
<1>2. slot'[i] = w /\ w # None /\ SegmentStep(w.seg)
  BY <1>0
<1>3. Resolves(w)' /\ ItemAt(w)'.key = k
  BY <1>2 DEF Bound, Resolves, ItemAt
<1>4. ItemAt(w)' = ItemAt(w)
  BY <1>1, <1>2, <1>3, ItemKept
<1>5. ItemAt(w).key = k
  BY <1>3, <1>4
<1> QED BY <1>0, <1>5, SlotIssued

-----------------------------------------------------------------------------
(* The other threads. *)

\* What a call holds, it still holds after a step of another thread, or of a
\* drain of its own.
LEMMA WordsKept ==
  ASSUME TypeOK, TypeOK', \A s \in Segments : SegmentStep(s),
         NEW r, NEW p, WordsOK(r, p)
  PROVE  WordsOK(r, p)'
<1>1. ASSUME NEW w, Issued(w) PROVE Issued(w)'
  <2>1. w \in Location /\ w.seg \in Segments
    BY <1>1 DEF Issued, Location
  <2> QED BY <1>1, <2>1, IssuedKept
<1>2. ASSUME NEW w, Issued(w), Resolves(w)' PROVE Resolves(w) /\ ItemAt(w)' = ItemAt(w)
  <2>1. w \in Location /\ w.seg \in Segments
    BY <1>2 DEF Issued, Location
  <2> QED BY <1>2, <2>1, ItemKept
<1>3. p \in WordPcs => Issued(r.word)'
  BY <1>1 DEF WordsOK
<1>4. r.old # None => Issued(r.old)'
  BY <1>1 DEF WordsOK
<1>5. ASSUME p \in MatchPcs, Resolves(r.word)' PROVE ItemAt(r.word)'.key = r.key
  <2>1. Issued(r.word)
    BY <1>5 DEF MatchPcs, WordPcs, WordsOK
  <2>2. PICK w : w = r.word
    OBVIOUS
  <2>3. Resolves(w) /\ ItemAt(w)' = ItemAt(w)
    BY <1>2, <1>5, <2>1, <2>2
  <2> QED BY <1>5, <2>2, <2>3 DEF WordsOK
<1> QED BY <1>3, <1>4, <1>5 DEF WordsOK

\* So does the item it has reserved.
LEMMA NewKept ==
  ASSUME TypeOK, TypeOK', NEW r, NewOK(r), r.new # None =>
           /\ SegmentStep(r.new.seg)
           /\ gen'[r.new.seg] = gen[r.new.seg]
           /\ st'[r.new.seg] \in {"Live", "Sealed", "Draining"}
  PROVE  NewOK(r)'
<1> SUFFICES ASSUME r.new # None PROVE NewOK(r)'
  BY DEF NewOK
<1>0. PICK w : w = r.new
  OBVIOUS
<1>1. /\ w \in Location /\ Resolves(w) /\ w.off <= Len(items[w.seg])
      /\ st[w.seg] \in {"Live", "Sealed", "Draining"} /\ ItemAt(w).key = r.key
  BY <1>0 DEF NewOK
<1>2. /\ SegmentStep(w.seg) /\ gen'[w.seg] = gen[w.seg]
      /\ st'[w.seg] \in {"Live", "Sealed", "Draining"}
  BY <1>0
<1>3. w.seg \in Segments /\ w.gen \in Nat /\ w.off \in Nat
  BY <1>1 DEF Location
<1>4. Issued(w)
  BY <1>1, <1>3 DEF Issued, Resolves, TypeOK
<1>5. Resolves(w)'
  BY <1>1, <1>2 DEF Resolves
<1>6. Issued(w)'
  BY <1>1, <1>2, <1>4, IssuedKept
<1>7. ItemAt(w)' = ItemAt(w)
  BY <1>1, <1>2, <1>4, <1>5, ItemKept
<1> QED BY <1>0, <1>1, <1>2, <1>5, <1>6, <1>7 DEF NewOK, Issued

\* A step of t leaves what every other thread relies on.
LEMMA OtherThreads ==
  ASSUME IInv, TypeOK', NEW t \in Threads, Frame(t), NEW u \in Threads, u # t
  PROVE  ThreadOK(u)'
<1>0. PICK r, d, p : r = th[u] /\ d = dr[u] /\ p = CallPc(u)
  OBVIOUS
<1>1. th'[u] = r /\ dr'[u] = d /\ CallPc(u)' = p
  BY <1>0 DEF Frame, CallPc
<1>2. TypeOK /\ StepOK(r, p) /\ WordsOK(r, p) /\ NewOK(r) /\ ScanOK(r) /\ \A s \in Segments : SegmentStep(s)
  BY <1>0 DEF IInv, ThreadOK, CallOK, Frame
<1>3. WordsOK(r, p)'
  BY <1>2, WordsKept
<1>4. NewOK(r)'
  <2>1. ASSUME r.new # None
        PROVE  /\ SegmentStep(r.new.seg) /\ gen'[r.new.seg] = gen[r.new.seg]
               /\ st'[r.new.seg] \in {"Live", "Sealed", "Draining"}
    <3>1. r.new.seg \in Segments /\ st[r.new.seg] \in {"Live", "Sealed", "Draining"}
      BY <1>2, <2>1 DEF NewOK, Location
    <3> QED BY <1>0, <2>1, <3>1 DEF Frame
  <2> QED BY <1>2, <2>1, NewKept
<1>5. ScanOK(r)'
  <2> SUFFICES ASSUME r.phase = "relock", r.unk = None PROVE ScanOK(r)'
    BY DEF ScanOK
  <2>1. p \in {"scan", "verify", "swap", "claimslot"} /\ r.key \in Keys /\ p = r.pc
    BY <1>0, <1>2 DEF StepOK, Writing, WritePhases, IInv, ThreadOK, DrainOK, CallPc, DrainPcs
  <2>2. stripe[r.key] # t
    BY <1>0, <2>1 DEF IInv, ThreadOK, LockOK
  <2>3. Bound(r.key)' \subseteq Bound(r.key)
    BY <2>1, <2>2 DEF Frame
  <2>4. ASSUME r.pc = "verify", r.at \in Bound(r.key)', Readable(r.word)'
        PROVE  ItemAt(r.word)'.key = r.key
    <3>1. PICK w : w = r.word
      OBVIOUS
    <3>2. Issued(w) /\ w \in Location /\ w.seg \in Segments /\ SegmentStep(w.seg)
      BY <1>2, <2>1, <2>4, <3>1 DEF WordsOK, WordPcs, Issued, Location
    <3>3. Readable(w)' /\ Resolves(w)'
      BY <2>4, <3>1 DEF Readable
    <3>4. Readable(w) /\ ItemAt(w)' = ItemAt(w)
      BY <1>2, <3>2, <3>3, ItemKept, UnreadableKept
    <3>5. ItemAt(w).key = r.key
      BY <1>2, <2>3, <2>4, <3>1, <3>4 DEF ScanOK
    <3> QED BY <3>1, <3>4, <3>5
  <2> QED BY <1>2, <2>3, <2>4 DEF ScanOK
<1>6. CallOK(u)'
  <2>1. StepOK(r, p)'
    BY <1>2 DEF StepOK, Writing
  <2> QED BY <1>1, <1>3, <1>4, <1>5, <2>1 DEF CallOK
<1>7. /\ d.seg \in Segments /\ st[d.seg] = "Draining" /\ chain[ttl[d.seg]] = u /\ ttl[d.seg] \in Buckets
         => d.seg # dr[t].seg
      /\ d.dest \in Segments /\ st[d.dest] = "Relinking" /\ chain[ttl[d.dest]] = u /\ ttl[d.dest] \in Buckets
         => d.dest # dr[t].dest
  BY SentinelAssumption DEF IInv, ThreadOK, DrainOK, DrainPcs, NoDrain
<1>8. DrainOK(u)'
  <2>1. DrainOK(u)
    BY DEF IInv, ThreadOK
  <2>2. r.pc \in DrainPcs \ {"nextcand"} =>
         d.seg \in Segments /\ st'[d.seg] = "Draining" /\ ttl'[d.seg] \in Buckets
         /\ chain'[ttl'[d.seg]] = u /\ ttl'[d.seg] = ttl[d.seg]
    BY <1>0, <1>7, <2>1 DEF DrainOK, Frame
  <2>3. d.dest # None =>
       /\ d.dest \in Segments /\ st'[d.dest] = "Relinking" /\ ttl'[d.dest] \in Buckets
       /\ chain'[ttl'[d.dest]] = u /\ ttl'[d.dest] = ttl[d.dest]
    BY <1>0, <1>7, <2>1 DEF DrainOK, Frame
  <2>4. d.dest # None => (d.seg # None => ttl'[d.dest] = ttl'[d.seg])
    BY <1>0, <2>1, <2>2, <2>3 DEF DrainOK, NoDrain
  <2>5. ASSUME r.pc \in {"copy", "relink", "sweep"}, NEW v \in Threads, th'[v].new # None
        PROVE  th'[v].new.seg # d.seg
    <3>1. st[d.seg] = "Draining" /\ \A x \in Threads : th[x].new # None => th[x].new.seg # d.seg
      BY <1>0, <2>1, <2>5 DEF DrainOK, DrainPcs
    <3>2. CASE v # t
      BY <2>5, <3>1, <3>2 DEF Frame
    <3>3. CASE v = t
      BY <2>5, <3>1, <3>3 DEF Frame
    <3> QED BY <3>2, <3>3
  <2>6. ASSUME r.pc = "sweep", NEW i \in Slots, slot'[i] # None, slot'[i].seg = d.seg
        PROVE  slot'[i].off >= d.j
    <3>1. /\ st[d.seg] = "Draining" /\ \A x \in Threads : th[x].new # None => th[x].new.seg # d.seg
          /\ \A x \in Slots : slot[x] # None /\ slot[x].seg = d.seg => slot[x].off >= d.j
      BY <1>0, <2>1, <2>6 DEF DrainOK, DrainPcs
    <3>2. dr[t].dest # None => st[dr[t].dest] = "Relinking"
      BY DEF IInv, ThreadOK, DrainOK
    <3>3. slot'[i] = slot[i]
      BY <2>6, <3>1, <3>2 DEF Frame
    <3> QED BY <2>6, <3>1, <3>3
  <2> QED BY <1>0, <1>1, <2>1, <2>2, <2>3, <2>4, <2>5, <2>6 DEF DrainOK
<1>9. LockOK(u)'
  <2>1. LockOK(u) /\ DrainOK(u)
    BY DEF IInv, ThreadOK
  <2>2. \A k \in Keys : stripe'[k] = u <=> r.phase = "relock" /\ r.key = k
    BY <1>0, <2>1 DEF LockOK, Frame
  <2>3. ASSUME NEW b \in Buckets, chain'[b] = u
        PROVE  /\ r.pc \in DrainPcs
               /\ d.seg # None => b = ttl'[d.seg]
               /\ d.seg = None => b = ttl'[d.dest]
    <3>1. chain[b] = u
      BY <2>3 DEF Frame
    <3>2. r.pc \in DrainPcs /\ (d.seg # None => b = ttl[d.seg]) /\ (d.seg = None => b = ttl[d.dest])
      BY <1>0, <2>1, <3>1 DEF LockOK
    <3>3. d.seg # None => ttl'[d.seg] = ttl[d.seg]
      BY <1>0, <1>7, <2>1, <3>2 DEF DrainOK, DrainPcs, Frame
    <3>4. d.seg = None => ttl'[d.dest] = ttl[d.dest]
      BY <1>0, <1>7, <2>1, <3>2, SentinelAssumption DEF DrainOK, DrainPcs, Frame
    <3> QED BY <3>2, <3>3, <3>4
  <2> QED BY <1>1, <2>2, <2>3 DEF LockOK
<1> QED BY <1>6, <1>8, <1>9 DEF ThreadOK

-----------------------------------------------------------------------------
(* Counting. *)

\* There are finitely many items to count.
LEMMA OutstandingFinite ==
  ASSUME TypeOK, NEW s \in Segments
  PROVE  IsFiniteSet(Outstanding(s)) /\ Cardinality(Outstanding(s)) \in Nat
<1>1. Len(items[s]) \in Nat
  BY DEF TypeOK
<1>2. IsFiniteSet(1..Len(items[s]))
  BY <1>1, FS_Interval
<1>3. Outstanding(s) \subseteq 1..Len(items[s])
  BY DEF Outstanding
<1>4. IsFiniteSet(Outstanding(s))
  BY <1>2, <1>3, FS_Subset
<1> QED BY <1>4, FS_CardinalityType

\* Nothing more to count.
LEMMA LiveKept ==
  ASSUME TypeOK, TypeOK', NEW s \in Segments, live[s] >= Cardinality(Outstanding(s)),
         Outstanding(s)' \subseteq Outstanding(s), live'[s] = live[s]
  PROVE  live'[s] >= Cardinality(Outstanding(s)')
<1>1. PICK A, B : A = Outstanding(s) /\ B = Outstanding(s)'
  OBVIOUS
<1>2. IsFiniteSet(A) /\ Cardinality(A) \in Nat
  BY <1>1, OutstandingFinite
<1>3. Cardinality(B) <= Cardinality(A) /\ Cardinality(B) \in Nat
  BY <1>1, <1>2, FS_Subset, FS_CardinalityType
<1>4. live[s] \in Int /\ live[s] >= Cardinality(A)
  BY <1>1 DEF TypeOK
<1> QED BY <1>1, <1>2, <1>3, <1>4

\* One item less.
LEMMA LiveLess ==
  ASSUME TypeOK, TypeOK', NEW s \in Segments, live[s] >= Cardinality(Outstanding(s)),
         NEW o \in Outstanding(s),
         Outstanding(s)' \subseteq Outstanding(s) \ {o}, live'[s] = live[s] - 1
  PROVE  live'[s] >= Cardinality(Outstanding(s)')
<1>1. PICK A, B : A = Outstanding(s) /\ B = Outstanding(s)'
  OBVIOUS
<1>2. IsFiniteSet(A) /\ Cardinality(A) \in Nat
  BY <1>1, OutstandingFinite
<1>3. IsFiniteSet(A \ {o}) /\ Cardinality(A \ {o}) = Cardinality(A) - 1
  BY <1>1, <1>2, FS_RemoveElement
<1>4. Cardinality(B) <= Cardinality(A \ {o}) /\ Cardinality(B) \in Nat
  BY <1>1, <1>3, FS_Subset, FS_CardinalityType
<1>5. live[s] \in Int /\ live[s] >= Cardinality(A)
  BY <1>1 DEF TypeOK
<1> QED BY <1>1, <1>2, <1>3, <1>4, <1>5

\* One item more.
LEMMA LiveMore ==
  ASSUME TypeOK, TypeOK', NEW s \in Segments, live[s] >= Cardinality(Outstanding(s)), NEW o,
         Outstanding(s)' \subseteq Outstanding(s) \cup {o}, live'[s] = live[s] + 1
  PROVE  live'[s] >= Cardinality(Outstanding(s)')
<1>1. PICK A, B : A = Outstanding(s) /\ B = Outstanding(s)'
  OBVIOUS
<1>2. IsFiniteSet(A) /\ Cardinality(A) \in Nat
  BY <1>1, OutstandingFinite
<1>3. IsFiniteSet(A \cup {o}) /\ Cardinality(A \cup {o}) <= Cardinality(A) + 1
  BY <1>1, <1>2, FS_AddElement
<1>4. Cardinality(B) <= Cardinality(A \cup {o}) /\ Cardinality(B) \in Nat /\ Cardinality(A \cup {o}) \in Nat
  BY <1>1, <1>3, FS_Subset, FS_CardinalityType
<1>5. live[s] \in Int /\ live[s] >= Cardinality(A)
  BY <1>1 DEF TypeOK
<1> QED BY <1>1, <1>2, <1>3, <1>4, <1>5

\* A segment that starts over has nothing to count.
LEMMA LiveNone ==
  ASSUME TypeOK', NEW s \in Segments, items'[s] = <<>>, live'[s] = 0
  PROVE  live'[s] >= Cardinality(Outstanding(s)')
<1>1. Outstanding(s)' = {}
  BY DEF Outstanding
<1> QED BY <1>1, FS_EmptySet

\* A segment that keeps its items and has no new reference.
LEMMA NoNewRef ==
  ASSUME TypeOK, TypeOK', NEW s \in Segments, gen'[s] = gen[s], items'[s] = items[s],
         \A w \in Refs' : w.seg = s => w \in Refs
  PROVE  Outstanding(s)' \subseteq Outstanding(s)
<1> SUFFICES ASSUME NEW o \in Outstanding(s)' PROVE o \in Outstanding(s)
  OBVIOUS
<1>1. o \in 1..Len(items[s]) /\ Loc(s, o)' \in Refs'
  BY DEF Outstanding
<1>2. o \in Nat \ {0}
  BY <1>1 DEF TypeOK
<1>3. Loc(s, o)' = Loc(s, o) /\ Loc(s, o).seg = s
  BY DEF Loc
<1>4. Loc(s, o) \in Refs
  BY <1>1, <1>3
<1> QED BY <1>1, <1>4 DEF Outstanding

\* The parts of the invariant after a step of t.
LEMMA StepInv ==
  ASSUME IInv, NEW t \in Threads, TypeOK', Frame(t), ThreadOK(t)', SegmentsOK', NoStaleEntry',
         OneEntry', Apart', LiveOK'
  PROVE  IInv'
  BY OtherThreads DEF IInv

\* Entries only go: no key gets a second one.
LEMMA OneEntryKept ==
  ASSUME OneEntry, \A k \in Keys : Bound(k)' \subseteq Bound(k)
  PROVE  OneEntry'
  BY DEF OneEntry

-----------------------------------------------------------------------------
(* Steps of a call that leave the table and the segments alone. *)

\* Such a step only has to keep what the thread itself knows.
LEMMA LocalStep ==
  ASSUME IInv, NEW t \in Threads, NEW n, th' = [th EXCEPT ![t] = n], DOMAIN n = ThreadFields,
         UNCHANGED <<slot, segs, ttl, chain, dr>>,
         stripe' \in [Keys -> Threads \cup {None}],
         \A k \in Keys, u \in Threads : u # t => (stripe'[k] = u <=> stripe[k] = u),
         \A k \in Keys : stripe'[k] = t <=> n.phase = "relock" /\ n.key = k,
         th[t].pc \notin DrainPcs, n.pc \notin DrainPcs,
         StepOK(n, n.pc), WordsOK(n, n.pc), NewOK(n), ScanOK(n),
         n.new \in {th[t].new, None}, n.old \in {th[t].old, th[t].new, None}
  PROVE  IInv'
<1>0. TypeOK /\ DOMAIN th = Threads /\ Apart
  BY DEF IInv, TypeOK
<1>1. th'[t] = n /\ \A u \in Threads : u # t => th'[u] = th[u]
  BY <1>0
<1>2. TypeOK'
  BY <1>0, <1>1 DEF TypeOK, segs
<1>3. \A s \in Segments : SegmentStep(s)
  BY <1>0 DEF TypeOK, SegmentStep, segs
<1>4. \A k : Bound(k)' = Bound(k)
  BY DEF Bound, Resolves, ItemAt, segs
<1>5. Frame(t)
  BY <1>1, <1>3, <1>4 DEF Frame, segs
<1>6. ThreadOK(t)'
  <2>1. CallPc(t)' = n.pc
    BY <1>1 DEF CallPc
  <2>2. StepOK(n, n.pc)' /\ WordsOK(n, n.pc)' /\ NewOK(n)' /\ ScanOK(n)'
    BY <1>4 DEF StepOK, Writing, WordsOK, NewOK, ScanOK, Issued, Resolves, ItemAt, Readable, segs
  <2>3. CallOK(t)'
    BY <1>1, <2>1, <2>2 DEF CallOK
  <2>4. dr[t] = NoDrain /\ dr' = dr
    BY DEF IInv, ThreadOK, DrainOK
  <2>5. DrainOK(t)'
    BY <1>1, <2>4, SentinelAssumption DEF DrainOK, NoDrain, DrainPcs
  <2>6. LockOK(t)'
    BY <1>1 DEF LockOK, IInv, ThreadOK, DrainPcs
  <2> QED BY <2>3, <2>5, <2>6 DEF ThreadOK
<1>7. SegmentsOK' /\ NoStaleEntry'
  BY DEF IInv, SegmentsOK, NoStaleEntry, Resolves, segs
<1>8. OneEntry'
  BY <1>4 DEF IInv, OneEntry
<1>9. Apart'
  <2>1. n.new # None => n.new # n.old
    BY SentinelAssumption DEF StepOK, Writing, WritePhases
  <2> QED BY <1>0, <1>1, <2>1 DEF Apart
<1>10. LiveOK'
  <2>1. Refs' \subseteq Refs
    BY <1>1, LocationAssumption DEF Refs
  <2>2. ASSUME NEW s \in Segments PROVE live'[s] >= Cardinality(Outstanding(s)')
    <3>1. live[s] >= Cardinality(Outstanding(s)) /\ live'[s] = live[s]
      BY DEF IInv, LiveOK, segs
    <3>2. Outstanding(s)' \subseteq Outstanding(s)
      BY <1>0, <1>2, <2>1, NoNewRef DEF segs
    <3> QED BY <1>0, <1>2, <3>1, <3>2, LiveKept
  <2> QED BY <2>2 DEF LiveOK
<1> QED BY <1>2, <1>5, <1>6, <1>7, <1>8, <1>9, <1>10, StepInv

\* The same with the locks left alone too.
LEMMA QuietStep ==
  ASSUME IInv, NEW t \in Threads, NEW n, Set(t, n), DOMAIN n = ThreadFields,
         UNCHANGED <<slot, segs, locks, dr>>,
         th[t].pc \notin DrainPcs, n.pc \notin DrainPcs,
         n.phase = "relock" <=> th[t].phase = "relock", n.phase = "relock" => n.key = th[t].key,
         StepOK(n, n.pc), WordsOK(n, n.pc), NewOK(n), ScanOK(n),
         n.new \in {th[t].new, None}, n.old \in {th[t].old, th[t].new, None}
  PROVE  IInv'
<1>1. stripe \in [Keys -> Threads \cup {None}] /\ LockOK(t)
  BY DEF IInv, TypeOK, ThreadOK
<1>2. \A k \in Keys : stripe'[k] = t <=> n.phase = "relock" /\ n.key = k
  BY <1>1 DEF LockOK, locks
<1>3. UNCHANGED <<slot, segs, ttl, chain, dr>> /\ stripe' = stripe /\ th' = [th EXCEPT ![t] = n]
  BY DEF locks, Set
<1> QED BY <1>1, <1>2, <1>3, LocalStep

\* What the invariant says of a thread that is not in a drain.
LEMMA AtStep ==
  ASSUME IInv, NEW t \in Threads, th[t].pc \notin DrainPcs
  PROVE  /\ DOMAIN th[t] = ThreadFields
         /\ StepOK(th[t], th[t].pc) /\ WordsOK(th[t], th[t].pc) /\ NewOK(th[t]) /\ ScanOK(th[t])
  BY DEF IInv, TypeOK, ThreadOK, CallOK, CallPc

\* The Acquire load of one slot.
LEMMA LoadStep ==
  ASSUME IInv, NEW t \in Threads, NEW i \in Slots, Load(t, i)
  PROVE  IInv'
<1>0. PICK r : r = th[t]
  OBVIOUS
<1>1. r.pc = "scan" /\ i \in r.left /\ UNCHANGED <<slot, segs, locks, dr>>
  BY <1>0 DEF Load
<1>2. /\ DOMAIN r = ThreadFields /\ th[t].pc \notin DrainPcs
      /\ StepOK(r, "scan") /\ WordsOK(r, "scan") /\ NewOK(r) /\ ScanOK(r)
  BY <1>0, <1>1, AtStep DEF DrainPcs
<1>3. CASE slot[i] = None
  <2>1. PICK n : n = [r EXCEPT !.left = @ \ {i}]
    OBVIOUS
  <2>2. Set(t, n)
    BY <1>0, <1>3, <2>1 DEF Load
  <2>3. DOMAIN n = ThreadFields /\ n.pc = "scan"
    BY <1>1, <1>2, <2>1 DEF ThreadFields
  <2>4. n.phase = r.phase /\ n.key = r.key /\ n.new = r.new /\ n.old = r.old
    BY <1>1, <1>2, <2>1 DEF ThreadFields
  <2>5. StepOK(n, "scan")
    BY <1>1, <1>2, <2>1 DEF StepOK, Writing, WritePhases, ThreadFields, AtPcs
  <2>6. WordsOK(n, "scan")
    BY <1>1, <1>2, <2>1 DEF WordsOK, ThreadFields, WordPcs, MatchPcs
  <2>7. NewOK(n)
    BY <1>2, <2>4 DEF NewOK
  <2>8. ScanOK(n)
    BY <1>1, <1>2, <1>3, <2>1 DEF ScanOK, Bound, ThreadFields
  <2> QED BY <1>0, <1>1, <1>2, <2>2, <2>3, <2>4, <2>5, <2>6, <2>7, <2>8, QuietStep DEF DrainPcs
<1>4. CASE slot[i] # None
  <2>1. PICK n : n = [r EXCEPT !.pc = "verify", !.left = @ \ {i}, !.at = i, !.word = slot[i]]
    OBVIOUS
  <2>2. Set(t, n)
    BY <1>0, <1>4, <2>1 DEF Load
  <2>3. DOMAIN n = ThreadFields /\ n.pc = "verify" /\ n.word = slot[i] /\ n.at = i
    BY <1>1, <1>2, <2>1 DEF ThreadFields
  <2>4. n.phase = r.phase /\ n.key = r.key /\ n.new = r.new /\ n.old = r.old
    BY <1>1, <1>2, <2>1 DEF ThreadFields
  <2>5. StepOK(n, "verify")
    BY <1>1, <1>2, <2>1 DEF StepOK, Writing, WritePhases, ThreadFields, AtPcs
  <2>9. Issued(slot[i])
    BY <1>4, SlotIssued DEF IInv
  <2>6. WordsOK(n, "verify")
    BY <1>1, <1>2, <2>3, <2>4, <2>9 DEF WordsOK, WordPcs, MatchPcs
  <2>7. NewOK(n)
    BY <1>2, <2>4 DEF NewOK
  <2>8. ScanOK(n)
    BY <1>1, <1>2, <1>4, <2>1 DEF ScanOK, Bound, ThreadFields
  <2> QED BY <1>0, <1>1, <1>2, <2>2, <2>3, <2>4, <2>5, <2>6, <2>7, <2>8, QuietStep DEF DrainPcs
<1> QED BY <1>3, <1>4

\* What a call knows at its own step.
Known(r) == StepOK(r, r.pc) /\ WordsOK(r, r.pc) /\ NewOK(r) /\ ScanOK(r)

\* A call with its answer has nothing left.
LEMMA AnswerKnown ==
  ASSUME NEW r, NEW res, NEW n, n = Answering(r, res)
  PROVE  /\ DOMAIN n = ThreadFields /\ n.pc = "done" /\ n.phase = "none" /\ n.key = r.key
         /\ n.new = None /\ n.old = None /\ Known(n)
<1>1. /\ DOMAIN n = ThreadFields /\ n.pc = "done" /\ n.phase = "none" /\ n.new = None /\ n.key = r.key
      /\ n.old = None /\ n.wpin = FALSE /\ n.then = "none" /\ n.unk = None /\ n.rem = None
  BY DEF Answering, Idle, ThreadFields
<1>2. StepOK(n, n.pc)
  BY <1>1 DEF StepOK, Writing, AtPcs
<1>3. WordsOK(n, n.pc) /\ NewOK(n) /\ ScanOK(n)
  BY <1>1 DEF WordsOK, NewOK, ScanOK, WordPcs, MatchPcs
<1> QED BY <1>1, <1>2, <1>3 DEF Known

\* A scan that has nothing reserved.
LEMMA ScanKnown ==
  ASSUME NEW r, DOMAIN r = ThreadFields, r.new = None, ~r.wpin, r.old = None, r.rem = None,
         r.then = "none", NEW ph \in {"get", "cold", "delete", "recheck"},
         NEW n, n = Scanning(r, ph)
  PROVE  /\ DOMAIN n = ThreadFields /\ n.pc = "scan" /\ n.phase = ph /\ n.key = r.key
         /\ n.new = None /\ n.old = None /\ Known(n)
<1>1. /\ DOMAIN n = ThreadFields /\ n.pc = "scan" /\ n.phase = ph /\ n.new = None /\ n.key = r.key
      /\ n.old = None /\ n.wpin = r.wpin /\ n.then = "none" /\ n.unk = None /\ n.rem = None
  BY DEF Scanning, ThreadFields
<1>2. StepOK(n, n.pc)
  BY <1>1 DEF StepOK, Writing, WritePhases, AtPcs
<1>3. WordsOK(n, n.pc) /\ NewOK(n) /\ ScanOK(n)
  BY <1>1 DEF WordsOK, NewOK, ScanOK, WordPcs, MatchPcs
<1> QED BY <1>1, <1>2, <1>3 DEF Known

\* A scan of an insert.
LEMMA WriteScanKnown ==
  ASSUME NEW r, DOMAIN r = ThreadFields, r.new # None, r.wpin, r.old = None, r.rem = None,
         r.then = "none", r.key \in Keys, r.val \in Values, r.ttl \in Buckets, NewOK(r),
         NEW ph \in WritePhases, NEW n, n = Scanning(r, ph)
  PROVE  /\ DOMAIN n = ThreadFields /\ n.pc = "scan" /\ n.phase = ph /\ n.key = r.key
         /\ n.new = r.new /\ n.old = None /\ Known(n)
<1>1. /\ DOMAIN n = ThreadFields /\ n.pc = "scan" /\ n.phase = ph /\ n.new = r.new
      /\ n.old = None /\ n.wpin = r.wpin /\ n.then = "none" /\ n.unk = None /\ n.rem = None
      /\ n.key = r.key /\ n.val = r.val /\ n.ttl = r.ttl /\ n.left = Slots
  BY DEF Scanning, ThreadFields
<1>2. StepOK(n, n.pc)
  BY <1>1 DEF StepOK, Writing, WritePhases, AtPcs
<1>3. WordsOK(n, n.pc) /\ NewOK(n)
  BY <1>1 DEF WordsOK, NewOK, WordPcs, MatchPcs
<1>4. ScanOK(n)
  BY <1>1 DEF ScanOK, Bound
<1> QED BY <1>1, <1>2, <1>3, <1>4 DEF Known

\* rollback_reservation: the reserved item is the thread's to take off the count.
LEMMA RollbackKnown ==
  ASSUME TypeOK, NEW r, DOMAIN r = ThreadFields, r.new # None, r.rem = None,
         r.key \in Keys, r.val \in Values, r.ttl \in Buckets, NewOK(r),
         NEW w \in Location \cup {None}, NEW then \in {"wait", "err"}, then = "wait" => w # None,
         NEW n, n = RollingBack(r, w, then)
  PROVE  /\ DOMAIN n = ThreadFields /\ n.pc = "undo" /\ n.phase = "none" /\ n.key = r.key
         /\ n.new = None /\ n.old = r.new /\ Known(n)
<1>1. /\ DOMAIN n = ThreadFields /\ n.pc = "undo" /\ n.phase = "none" /\ n.new = None
      /\ n.old = r.new /\ n.wpin = FALSE /\ n.then = then /\ n.unk = w /\ n.rem = None
      /\ n.key = r.key /\ n.val = r.val /\ n.ttl = r.ttl
  BY DEF RollingBack, ThreadFields
<1>2. StepOK(n, n.pc)
  BY <1>1 DEF StepOK, Writing, WritePhases, AtPcs
<1>3. Issued(r.new)
  BY DEF NewOK, Issued, Resolves, TypeOK, Location
<1>4. WordsOK(n, n.pc) /\ NewOK(n) /\ ScanOK(n)
  BY <1>1, <1>3 DEF WordsOK, NewOK, ScanOK, WordPcs, MatchPcs
<1> QED BY <1>1, <1>2, <1>4 DEF Known

\* A step that only moves the call on.
LEMMA CallStep ==
  ASSUME IInv, NEW t \in Threads, NEW n, Set(t, n), DOMAIN n = ThreadFields,
         UNCHANGED <<slot, segs, locks, dr>>,
         th[t].pc \notin DrainPcs, n.pc \notin DrainPcs, Known(n),
         n.phase = "relock" <=> th[t].phase = "relock", n.phase = "relock" => n.key = th[t].key,
         n.new \in {th[t].new, None}, n.old \in {th[t].old, th[t].new, None}
  PROVE  IInv'
  BY QuietStep DEF Known

\* A call that lets its reader pin go, which may free a condemned segment.
LEMMA DropStep ==
  ASSUME IInv, NEW t \in Threads, NEW n, Set(t, n), DOMAIN n = ThreadFields,
         UNCHANGED <<slot, locks, dr>>, DropReader(t),
         th[t].pc \notin DrainPcs, n.pc \notin DrainPcs, Known(n),
         n.phase # "relock", th[t].phase # "relock", n.new = None, n.old = None
  PROVE  IInv'
<1>0. TypeOK /\ DOMAIN th = Threads /\ Apart /\ NoStaleEntry
  BY DEF IInv, TypeOK
<1>1. th'[t] = n /\ \A u \in Threads : u # t => th'[u] = th[u]
  BY <1>0 DEF Set
<1>2. PICK c : \A s \in Segments :
         \/ /\ s # c /\ st'[s] = st[s] /\ gen'[s] = gen[s] /\ items'[s] = items[s] /\ live'[s] = live[s]
         \/ /\ s = c /\ st[s] = "Condemned" /\ st'[s] = "Free" /\ gen'[s] = gen[s] + 1
            /\ items'[s] = <<>> /\ live'[s] = 0
  <2>1. CASE UNCHANGED segs
    <3>1. \A s \in Segments : /\ s # None /\ st'[s] = st[s] /\ gen'[s] = gen[s]
                              /\ items'[s] = items[s] /\ live'[s] = live[s]
      BY <2>1, SentinelAssumption DEF segs
    <3> QED BY <3>1
  <2>2. CASE ~UNCHANGED segs
    <3>1. /\ st[th[t].pin.seg] = "Condemned" /\ Recycle(th[t].pin.seg)
      BY <2>2 DEF DropReader
    <3> QED BY <1>0, <3>1 DEF Recycle, TypeOK
  <2> QED BY <2>1, <2>2
<1>3. TypeOK'
  <2>1. /\ st' \in [Segments -> SegmentStates] /\ gen' \in [Segments -> Nat]
        /\ items' \in [Segments -> Seq(Item)] /\ live' \in [Segments -> Int]
    <3>1. CASE UNCHANGED segs
      BY <1>0, <3>1 DEF TypeOK, segs
    <3>2. CASE ~UNCHANGED segs
      <4>1. PICK x : /\ st' = [st EXCEPT ![x] = "Free"]
                     /\ gen' = [gen EXCEPT ![x] = @ + 1]
                     /\ items' = [items EXCEPT ![x] = <<>>]
                     /\ live' = [live EXCEPT ![x] = 0]
        BY <3>2 DEF DropReader, Recycle
      <4>2. <<>> \in Seq(Item)
        OBVIOUS
      <4>3. items' \in [Segments -> Seq(Item)]
        BY <1>0, <4>1, <4>2 DEF TypeOK
      <4>4. st' \in [Segments -> SegmentStates]
        BY <1>0, <4>1 DEF TypeOK, SegmentStates
      <4> QED BY <1>0, <4>1, <4>3, <4>4 DEF TypeOK
    <3> QED BY <3>1, <3>2
  <2> QED BY <1>0, <1>1, <2>1 DEF TypeOK, locks, Set
<1>4. \A s \in Segments : SegmentStep(s)
  BY <1>0, <1>2 DEF TypeOK, SegmentStep
<1>5. ASSUME NEW k PROVE Bound(k)' \subseteq Bound(k)
  <2> SUFFICES ASSUME NEW i \in Slots, i \in Bound(k)' PROVE i \in Bound(k)
    BY DEF Bound
  <2>1. slot'[i] = slot[i] /\ slot[i] # None
    BY DEF Bound
  <2>2. slot[i].seg \in Segments
    BY <1>0, <2>1 DEF TypeOK, Location
  <2> QED BY <1>0, <1>3, <1>4, <2>1, <2>2, BoundKept
<1>6. Frame(t)
  <2>1. \A s \in Segments : st[s] # "Condemned" => st'[s] = st[s] /\ gen'[s] = gen[s]
    BY <1>2
  <2>2. \A s \in Segments : SegmentStep(s)
    BY <1>4
  <2> QED BY <1>1, <1>5, <2>1, <2>2 DEF Frame, locks
<1>7. ThreadOK(t)'
  <2>1. CallPc(t)' = n.pc
    BY <1>1 DEF CallPc
  <2>2. WordsOK(n, n.pc)'
    BY <1>0, <1>3, <1>4, WordsKept DEF Known
  <2>3. StepOK(n, n.pc)' /\ NewOK(n)' /\ ScanOK(n)'
    BY DEF Known, StepOK, Writing, NewOK, ScanOK
  <2>4. CallOK(t)'
    BY <1>1, <2>1, <2>2, <2>3 DEF CallOK
  <2>5. dr[t] = NoDrain /\ dr' = dr
    BY DEF IInv, ThreadOK, DrainOK
  <2>6. DrainOK(t)'
    BY <1>1, <2>5, SentinelAssumption DEF DrainOK, NoDrain, DrainPcs
  <2>7. LockOK(t)'
    BY <1>1 DEF LockOK, IInv, ThreadOK, DrainPcs, locks
  <2> QED BY <2>4, <2>6, <2>7 DEF ThreadOK
<1>8. SegmentsOK'
  BY <1>2 DEF IInv, SegmentsOK, locks
<1>9. NoStaleEntry'
  <2> SUFFICES ASSUME NEW i \in Slots, slot'[i] # None
               PROVE  /\ Resolves(slot[i])'
                      /\ st'[slot'[i].seg] \notin {"Free", "Condemned"}
                      /\ slot'[i].off <= Len(items'[slot'[i].seg])
    BY DEF NoStaleEntry
  <2>1. slot'[i] = slot[i] /\ slot[i].seg \in Segments
    BY <1>0 DEF TypeOK, Location
  <2> QED BY <1>0, <1>2, <2>1 DEF NoStaleEntry, Resolves
<1>10. OneEntry'
  BY <1>5, OneEntryKept DEF IInv
<1>11. Apart'
  BY <1>0, <1>1 DEF Apart
<1>12. LiveOK'
  <2>1. Refs' \subseteq Refs
    BY <1>1, LocationAssumption DEF Refs
  <2>2. ASSUME NEW s \in Segments PROVE live'[s] >= Cardinality(Outstanding(s)')
    <3>1. CASE gen'[s] = gen[s] /\ items'[s] = items[s] /\ live'[s] = live[s]
      <4>1. live[s] >= Cardinality(Outstanding(s))
        BY DEF IInv, LiveOK
      <4>2. Outstanding(s)' \subseteq Outstanding(s)
        BY <1>0, <1>3, <2>1, <3>1, NoNewRef
      <4> QED BY <1>0, <1>3, <3>1, <4>1, <4>2, LiveKept
    <3>2. CASE items'[s] = <<>> /\ live'[s] = 0
      BY <1>3, <3>2, LiveNone
    <3> QED BY <1>2, <3>1, <3>2
  <2> QED BY <2>2 DEF LiveOK
<1> QED BY <1>3, <1>6, <1>7, <1>8, <1>9, <1>10, <1>11, <1>12, StepInv

\* A scan that finds nothing to pin, or another key.
LEMMA VerifyFailsStep ==
  ASSUME IInv, NEW t \in Threads, VerifyFails(t)
  PROVE  IInv'
<1>0. PICK r : r = th[t]
  OBVIOUS
<1>1. r.pc = "verify" /\ UNCHANGED <<slot, segs, locks, dr>>
  BY <1>0 DEF VerifyFails
<1>2. /\ DOMAIN r = ThreadFields /\ th[t].pc \notin DrainPcs
      /\ StepOK(r, "verify") /\ WordsOK(r, "verify") /\ NewOK(r) /\ ScanOK(r)
  BY <1>0, <1>1, AtStep DEF DrainPcs
<1>3. Issued(r.word) /\ r.word \in Location
  BY <1>2 DEF WordsOK, WordPcs, Issued
<1>4. PICK u : /\ (u = r.unk /\ Readable(r.word) /\ ItemAt(r.word).key # r.key) \/ u \in Location
               /\ Set(t, [r EXCEPT !.pc = "scan", !.at = None, !.word = None, !.unk = u])
  <2>1. CASE ~Readable(r.word) /\ Set(t, [r EXCEPT !.pc = "scan", !.at = None, !.word = None,
                              !.unk = FirstUnknown(@, r.word)])
    <3>1. FirstUnknown(r.unk, r.word) \in Location
      BY <1>2, <1>3 DEF FirstUnknown, StepOK
    <3>2. [r EXCEPT !.pc = "scan", !.at = None, !.word = None, !.unk = FirstUnknown(@, r.word)]
          = [r EXCEPT !.pc = "scan", !.at = None, !.word = None, !.unk = FirstUnknown(r.unk, r.word)]
      BY <1>2 DEF ThreadFields
    <3> QED BY <2>1, <3>1, <3>2
  <2>2. CASE /\ Readable(r.word) /\ ItemAt(r.word).key # r.key
             /\ Set(t, [r EXCEPT !.pc = "scan", !.at = None, !.word = None])
    <3>2. [r EXCEPT !.pc = "scan", !.at = None, !.word = None, !.unk = r.unk]
          = [r EXCEPT !.pc = "scan", !.at = None, !.word = None]
      BY <1>2 DEF ThreadFields
    <3> QED BY <2>2, <3>2
  <2> QED BY <1>0, <2>1, <2>2 DEF VerifyFails
<1>5. PICK n : n = [r EXCEPT !.pc = "scan", !.at = None, !.word = None, !.unk = u]
  OBVIOUS
<1>6. DOMAIN n = ThreadFields /\ n.pc = "scan"
  BY <1>2, <1>5 DEF ThreadFields
<1>7. n.phase = r.phase /\ n.key = r.key /\ n.new = r.new /\ n.old = r.old /\ n.unk = u
  BY <1>2, <1>5 DEF ThreadFields
<1>8. u \in Location \cup {None}
  BY <1>2, <1>4 DEF StepOK
<1>9. StepOK(n, "scan")
  BY <1>2, <1>5, <1>8 DEF StepOK, Writing, WritePhases, ThreadFields, AtPcs
<1>10. WordsOK(n, "scan") /\ NewOK(n)
  BY <1>2, <1>7 DEF WordsOK, NewOK, WordPcs, MatchPcs
<1>11. ScanOK(n)
  BY <1>1, <1>2, <1>4, <1>5, LocationAssumption DEF ScanOK, ThreadFields
<1> QED BY <1>0, <1>1, <1>2, <1>4, <1>5, <1>6, <1>7, <1>9, <1>10, <1>11, QuietStep DEF DrainPcs

\* A call that has found its key.
Matched(r, p, w) == [[r EXCEPT !.left = {}, !.unk = None] EXCEPT !.pc = p, !.pin = w]

\* The key matched.
LEMMA VerifyMatchesStep ==
  ASSUME IInv, NEW t \in Threads, VerifyMatches(t)
  PROVE  IInv'
<1>0. PICK r : r = th[t]
  OBVIOUS
<1>1. /\ r.pc = "verify" /\ UNCHANGED <<slot, locks, dr>>
      /\ Readable(r.word) /\ ItemAt(r.word).key = r.key
  BY <1>0 DEF VerifyMatches
<1>2. /\ DOMAIN r = ThreadFields /\ th[t].pc \notin DrainPcs
      /\ StepOK(r, "verify") /\ WordsOK(r, "verify") /\ NewOK(r) /\ ScanOK(r)
  BY <1>0, <1>1, AtStep DEF DrainPcs
<1>3. Issued(r.word) /\ r.old = None /\ r.rem = None /\ r.then = "none" /\ r.at \in Slots
  BY <1>2 DEF WordsOK, WordPcs, StepOK, AtPcs
<1>4. r.phase \notin WritePhases => r.new = None /\ ~r.wpin
  BY <1>2 DEF StepOK, Writing
<1>5. r.phase \in WritePhases =>
        r.new # None /\ r.wpin /\ r.key \in Keys /\ r.val \in Values /\ r.ttl \in Buckets
  BY <1>2 DEF StepOK, Writing
<1>6. ASSUME NEW p \in {"publishes", "acquire", "pinold", "delgen"}, NEW w, NEW n,
             (p = "pinold" /\ r.phase = "lookup") \/ (p # "pinold" /\ r.phase \notin WritePhases),
             n = Matched(r, p, w)
      PROVE  /\ DOMAIN n = ThreadFields /\ n.pc = p /\ n.phase = r.phase
             /\ n.new = r.new /\ n.old = None /\ Known(n)
  <2>2. /\ DOMAIN n = ThreadFields /\ n.pc = p /\ n.phase = r.phase /\ n.new = r.new /\ n.old = None
        /\ n.wpin = r.wpin /\ n.then = "none" /\ n.unk = None /\ n.rem = None /\ n.word = r.word
        /\ n.key = r.key /\ n.val = r.val /\ n.ttl = r.ttl /\ n.at = r.at
    BY <1>2, <1>3, <1>6 DEF ThreadFields, Matched
  <2>3. StepOK(n, p)
    BY <1>3, <1>4, <1>5, <1>6, <2>2 DEF StepOK, Writing, WritePhases, AtPcs
  <2>4. WordsOK(n, p) /\ NewOK(n) /\ ScanOK(n)
    BY <1>1, <1>2, <1>3, <1>6, <2>2 DEF WordsOK, WordPcs, NewOK, ScanOK, WritePhases
  <2> QED BY <2>2, <2>3, <2>4 DEF Known
<1>7. CASE /\ r.phase = "get" /\ UNCHANGED segs
           /\ Set(t, [[r EXCEPT !.left = {}, !.unk = None] EXCEPT !.pc = "publishes", !.pin = r.word])
  <2>0. PICK p, w, n : /\ p = "publishes" /\ w = r.word /\ n = Matched(r, p, w)
    OBVIOUS
  <2>1. n = [[r EXCEPT !.left = {}, !.unk = None] EXCEPT !.pc = "publishes", !.pin = r.word]
    BY <2>0 DEF Matched
  <2>2. /\ DOMAIN n = ThreadFields /\ n.pc = "publishes" /\ n.phase = r.phase
        /\ n.new = r.new /\ n.old = None /\ Known(n)
    <3>1. /\ p \in {"publishes", "acquire", "pinold", "delgen"}
          /\ (p = "pinold" /\ r.phase = "lookup") \/ (p # "pinold" /\ r.phase \notin WritePhases)
      BY <1>7, <2>0 DEF WritePhases
    <3> QED BY <1>6, <2>0, <3>1
  <2>3. Set(t, n)
    BY <1>7, <2>1
  <2> QED BY <1>0, <1>1, <1>2, <1>3, <1>7, <2>2, <2>3, CallStep DEF DrainPcs
<1>8. CASE r.phase = "cold" /\ UNCHANGED segs /\ Set(t, Answering(r, ItemAt(r.pin).val))
  <2>1. PICK n : n = Answering(r, ItemAt(r.pin).val)
    OBVIOUS
  <2>2. /\ DOMAIN n = ThreadFields /\ n.pc = "done" /\ n.phase = "none"
        /\ n.new = None /\ n.old = None /\ Known(n)
    BY <2>1, AnswerKnown
  <2> QED BY <1>0, <1>1, <1>2, <1>8, <2>1, <2>2, CallStep DEF DrainPcs
<1>9. CASE /\ r.phase = "cold" /\ DropReader(t)
           /\ Set(t, [[r EXCEPT !.left = {}, !.unk = None] EXCEPT !.pc = "acquire", !.pin = None])
  <2>0. PICK p, w, n : /\ p = "acquire" /\ w = None /\ n = Matched(r, p, w)
    OBVIOUS
  <2>1. n = [[r EXCEPT !.left = {}, !.unk = None] EXCEPT !.pc = "acquire", !.pin = None]
    BY <2>0 DEF Matched
  <2>2. /\ DOMAIN n = ThreadFields /\ n.pc = "acquire" /\ n.phase = r.phase
        /\ n.new = r.new /\ n.old = None /\ Known(n)
    <3>1. /\ p \in {"publishes", "acquire", "pinold", "delgen"}
          /\ (p = "pinold" /\ r.phase = "lookup") \/ (p # "pinold" /\ r.phase \notin WritePhases)
      BY <1>9, <2>0 DEF WritePhases
    <3> QED BY <1>6, <2>0, <3>1
  <2>3. Set(t, n)
    BY <1>9, <2>1
  <2>4. n.new = None /\ n.phase # "relock"
    BY <1>4, <1>9, <2>2 DEF WritePhases
  <2> QED BY <1>0, <1>1, <1>2, <1>3, <1>9, <2>2, <2>3, <2>4, DropStep DEF DrainPcs
<1>10. CASE r.phase = "cold" /\ DropReader(t) /\ Set(t, Answering([r EXCEPT !.pin = None], "spent"))
  <2>1. PICK n : n = Answering([r EXCEPT !.pin = None], "spent")
    OBVIOUS
  <2>2. /\ DOMAIN n = ThreadFields /\ n.pc = "done" /\ n.phase = "none"
        /\ n.new = None /\ n.old = None /\ Known(n)
    BY <2>1, AnswerKnown
  <2> QED BY <1>0, <1>1, <1>2, <1>10, <2>1, <2>2, DropStep DEF DrainPcs
<1>11. CASE /\ r.phase = "lookup" /\ UNCHANGED segs
           /\ Set(t, [[r EXCEPT !.left = {}, !.unk = None] EXCEPT !.pc = "pinold"])
  <2>0. PICK p, w, n : /\ p = "pinold" /\ w = r.pin /\ n = Matched(r, p, w)
    OBVIOUS
  <2>1. n = [[r EXCEPT !.left = {}, !.unk = None] EXCEPT !.pc = "pinold", !.pin = r.pin]
    BY <2>0 DEF Matched
  <2>2. /\ DOMAIN n = ThreadFields /\ n.pc = "pinold" /\ n.phase = r.phase
        /\ n.new = r.new /\ n.old = None /\ Known(n)
    <3>1. /\ p \in {"publishes", "acquire", "pinold", "delgen"}
          /\ (p = "pinold" /\ r.phase = "lookup") \/ (p # "pinold" /\ r.phase \notin WritePhases)
      BY <1>11, <2>0 DEF WritePhases
    <3> QED BY <1>6, <2>0, <3>1
  <2>3. n = [[r EXCEPT !.left = {}, !.unk = None] EXCEPT !.pc = "pinold"]
    BY <1>2, <2>1 DEF ThreadFields
  <2> QED BY <1>0, <1>1, <1>2, <1>3, <1>11, <2>2, <2>3, CallStep DEF DrainPcs
<1>12. CASE /\ r.phase = "delete" /\ UNCHANGED segs
           /\ Set(t, [[r EXCEPT !.left = {}, !.unk = None] EXCEPT !.pc = "delgen"])
  <2>0. PICK p, w, n : /\ p = "delgen" /\ w = r.pin /\ n = Matched(r, p, w)
    OBVIOUS
  <2>1. n = [[r EXCEPT !.left = {}, !.unk = None] EXCEPT !.pc = "delgen", !.pin = r.pin]
    BY <2>0 DEF Matched
  <2>2. /\ DOMAIN n = ThreadFields /\ n.pc = "delgen" /\ n.phase = r.phase
        /\ n.new = r.new /\ n.old = None /\ Known(n)
    <3>1. /\ p \in {"publishes", "acquire", "pinold", "delgen"}
          /\ (p = "pinold" /\ r.phase = "lookup") \/ (p # "pinold" /\ r.phase \notin WritePhases)
      BY <1>12, <2>0 DEF WritePhases
    <3> QED BY <1>6, <2>0, <3>1
  <2>3. n = [[r EXCEPT !.left = {}, !.unk = None] EXCEPT !.pc = "delgen"]
    BY <1>2, <2>1 DEF ThreadFields
  <2> QED BY <1>0, <1>1, <1>2, <1>3, <1>12, <2>2, <2>3, CallStep DEF DrainPcs
<1>13. CASE r.phase \in {"replace", "relock"} /\ UNCHANGED segs /\ Set(t, [r EXCEPT !.pc = "swap"])
  <2>1. PICK n : n = [r EXCEPT !.pc = "swap"]
    OBVIOUS
  <2>2. /\ DOMAIN n = ThreadFields /\ n.pc = "swap" /\ n.phase = r.phase /\ n.new = r.new /\ n.old = None
        /\ n.wpin = r.wpin /\ n.then = "none" /\ n.unk = r.unk /\ n.rem = None /\ n.word = r.word
        /\ n.key = r.key /\ n.val = r.val /\ n.ttl = r.ttl /\ n.at = r.at /\ n.left = r.left
    BY <1>2, <1>3, <2>1 DEF ThreadFields
  <2>3. StepOK(n, "swap")
    BY <1>2, <1>3, <1>5, <1>13, <2>2 DEF StepOK, Writing, WritePhases, AtPcs
  <2>4. WordsOK(n, "swap") /\ NewOK(n)
    BY <1>1, <1>2, <1>3, <2>2 DEF WordsOK, NewOK
  <2>5. ScanOK(n)
    BY <1>1, <1>2, <2>2 DEF ScanOK
  <2> QED BY <1>0, <1>1, <1>2, <1>3, <1>13, <2>1, <2>2, <2>3, <2>4, <2>5, QuietStep DEF DrainPcs
<1>14. CASE r.phase = "recheck" /\ UNCHANGED segs /\ Set(t, Scanning(r, "delete"))
  <2>1. PICK n : n = Scanning(r, "delete")
    OBVIOUS
  <2>2. r.new = None /\ ~r.wpin
    BY <1>4, <1>14 DEF WritePhases
  <2>3. /\ DOMAIN n = ThreadFields /\ n.pc = "scan" /\ n.phase = "delete"
        /\ n.new = None /\ n.old = None /\ Known(n)
    BY <1>2, <1>3, <2>1, <2>2, ScanKnown
  <2> QED BY <1>0, <1>1, <1>2, <1>14, <2>1, <2>3, CallStep DEF DrainPcs
<1> QED BY <1>0, <1>7, <1>8, <1>9, <1>10, <1>11, <1>12, <1>13, <1>14 DEF VerifyMatches

\* A call answers.
LEMMA AnswerStep ==
  ASSUME IInv, NEW t \in Threads, NEW r, NEW res, Set(t, Answering(r, res)),
         UNCHANGED <<slot, locks, dr>>, UNCHANGED segs \/ DropReader(t),
         th[t].pc \notin DrainPcs, th[t].phase # "relock"
  PROVE  IInv'
<1>1. PICK n : n = Answering(r, res)
  OBVIOUS
<1>2. /\ DOMAIN n = ThreadFields /\ n.pc = "done" /\ n.phase = "none"
      /\ n.new = None /\ n.old = None /\ Known(n)
  BY <1>1, AnswerKnown
<1>3. n.pc \notin DrainPcs /\ n.phase # "relock" /\ Set(t, n)
  BY <1>1, <1>2 DEF DrainPcs
<1> QED BY <1>2, <1>3, CallStep, DropStep

\* A get or a delete scans again.
LEMMA RescanStep ==
  ASSUME IInv, NEW t \in Threads, NEW r, DOMAIN r = ThreadFields, r.new = None, ~r.wpin,
         r.old = None, r.rem = None, r.then = "none", NEW ph \in {"get", "cold", "delete", "recheck"},
         Set(t, Scanning(r, ph)), UNCHANGED <<slot, locks, dr>>, UNCHANGED segs \/ DropReader(t),
         th[t].pc \notin DrainPcs, th[t].phase # "relock"
  PROVE  IInv'
<1>1. PICK n : n = Scanning(r, ph)
  OBVIOUS
<1>2. /\ DOMAIN n = ThreadFields /\ n.pc = "scan" /\ n.phase = ph
      /\ n.new = None /\ n.old = None /\ Known(n)
  BY <1>1, ScanKnown
<1>3. n.pc \notin DrainPcs /\ n.phase # "relock" /\ Set(t, n)
  BY <1>1, <1>2 DEF DrainPcs
<1> QED BY <1>2, <1>3, CallStep, DropStep

\* An insert at a step where it holds its reservation and nothing else.
Holding(r) ==
  /\ DOMAIN r = ThreadFields /\ r.new # None /\ r.wpin /\ r.old = None /\ r.rem = None
  /\ r.then = "none" /\ r.key \in Keys /\ r.val \in Values /\ r.ttl \in Buckets /\ NewOK(r)

\* It scans again without the stripe.
LEMMA WriteScanStep ==
  ASSUME IInv, NEW t \in Threads, NEW r, Holding(r), r.new = th[t].new,
         NEW ph \in {"lookup", "replace"},
         Set(t, Scanning(r, ph)), UNCHANGED <<slot, segs, locks, dr>>,
         th[t].pc \notin DrainPcs, th[t].phase # "relock"
  PROVE  IInv'
<1>1. PICK n : n = Scanning(r, ph)
  OBVIOUS
<1>2. /\ DOMAIN n = ThreadFields /\ n.pc = "scan" /\ n.phase = ph
      /\ n.new = r.new /\ n.old = None /\ Known(n)
  BY <1>1, WriteScanKnown DEF Holding, WritePhases
<1>3. n.pc \notin DrainPcs /\ n.phase # "relock" /\ Set(t, n)
  BY <1>1, <1>2 DEF DrainPcs
<1> QED BY <1>2, <1>3, CallStep

\* The stripe as its guard leaves it.
LEMMA Released ==
  ASSUME IInv, NEW t \in Threads, stripe' = StripeReleased(th[t]), th[t].key \in Keys
  PROVE  /\ stripe' \in [Keys -> Threads \cup {None}]
         /\ \A k \in Keys, u \in Threads : u # t => (stripe'[k] = u <=> stripe[k] = u)
         /\ \A k \in Keys : stripe'[k] # t
<1>1. stripe \in [Keys -> Threads \cup {None}] /\ LockOK(t)
  BY DEF IInv, TypeOK, ThreadOK
<1>2. CASE th[t].phase = "relock"
  <2>1. stripe' = [stripe EXCEPT ![th[t].key] = None]
    BY <1>2 DEF StripeReleased
  <2>2. stripe[th[t].key] = t
    BY <1>1, <1>2 DEF LockOK
  <2> QED BY <1>1, <1>2, <2>1, <2>2, SentinelAssumption DEF LockOK
<1>3. CASE th[t].phase # "relock"
  BY <1>1, <1>3 DEF LockOK, StripeReleased
<1> QED BY <1>2, <1>3

\* It gives its reservation back.
LEMMA RollbackStep ==
  ASSUME IInv, NEW t \in Threads, NEW r, r = th[t], Holding(r),
         NEW w \in Location \cup {None}, NEW then \in {"wait", "err"}, then = "wait" => w # None,
         Set(t, RollingBack(r, w, then)), UNCHANGED <<slot, segs, ttl, chain, dr>>,
         stripe' = StripeReleased(r), th[t].pc \notin DrainPcs
  PROVE  IInv'
<1>1. PICK n : n = RollingBack(r, w, then)
  OBVIOUS
<1>2. /\ DOMAIN n = ThreadFields /\ n.pc = "undo" /\ n.phase = "none"
      /\ n.new = None /\ n.old = r.new /\ Known(n)
  BY <1>1, RollbackKnown DEF Holding, IInv
<1>3. n.pc \notin DrainPcs /\ n.phase # "relock" /\ th' = [th EXCEPT ![t] = n]
  BY <1>1, <1>2 DEF DrainPcs, Set
<1>4. /\ stripe' \in [Keys -> Threads \cup {None}]
      /\ \A k \in Keys, u \in Threads : u # t => (stripe'[k] = u <=> stripe[k] = u)
      /\ \A k \in Keys : stripe'[k] = t <=> n.phase = "relock" /\ n.key = k
  BY <1>3, Released DEF Holding
<1> QED BY <1>2, <1>3, <1>4, LocalStep DEF Known

\* The scan is out of slots.
LEMMA ScanOverStep ==
  ASSUME IInv, NEW t \in Threads, ScanOver(t)
  PROVE  IInv'
<1>0. PICK r : r = th[t]
  OBVIOUS
<1>1. r.pc = "scan" /\ r.left = {} /\ UNCHANGED <<slot, ttl, chain, dr>>
  BY <1>0 DEF ScanOver
<1>2. /\ DOMAIN r = ThreadFields /\ th[t].pc \notin DrainPcs
      /\ StepOK(r, "scan") /\ WordsOK(r, "scan") /\ NewOK(r) /\ ScanOK(r)
  BY <1>0, <1>1, AtStep DEF DrainPcs
<1>3. r.old = None /\ r.rem = None /\ r.then = "none" /\ r.unk \in Location \cup {None}
  BY <1>2 DEF StepOK
<1>4. r.phase \notin WritePhases => r.new = None /\ ~r.wpin
  BY <1>2 DEF StepOK, Writing
<1>5. r.phase \in WritePhases => Holding(r)
  BY <1>2, <1>3 DEF StepOK, Writing, Holding
<1>6. ASSUME UNCHANGED stripe PROVE UNCHANGED <<slot, locks, dr>>
  BY <1>1, <1>6 DEF locks
<1>7. CASE /\ r.phase = "get" /\ UNCHANGED <<segs, stripe>>
           /\ \/ r.unk = None /\ Set(t, Answering(r, Absent))
              \/ r.unk # None /\ Set(t, Scanning(r, "get"))
              \/ r.unk # None /\ ~Resolves(r.unk) /\ Set(t, Answering(r, "spent"))
  BY <1>0, <1>2, <1>3, <1>4, <1>6, <1>7, AnswerStep, RescanStep DEF WritePhases
<1>8. CASE /\ r.phase = "cold" /\ DropReader(t) /\ UNCHANGED stripe
           /\ LET u == [r EXCEPT !.pin = None] IN
                 \/ r.unk = None /\ Set(t, Answering(u, Absent))
                 \/ r.unk # None /\ Set(t, Scanning(u, "get"))
                 \/ r.unk # None /\ ~Resolves(r.unk) /\ Set(t, Answering(u, "spent"))
  <2>1. PICK u : u = [r EXCEPT !.pin = None]
    OBVIOUS
  <2>2. /\ DOMAIN u = ThreadFields /\ u.new = r.new /\ u.wpin = r.wpin /\ u.old = r.old
        /\ u.rem = r.rem /\ u.then = r.then
    BY <1>2, <2>1 DEF ThreadFields
  <2>3. \/ Set(t, Answering(u, Absent)) \/ Set(t, Answering(u, "spent"))
        \/ Set(t, Scanning(u, "get"))
    BY <1>8, <2>1
  <2>4. u.new = None /\ ~u.wpin /\ u.old = None /\ u.rem = None /\ u.then = "none"
    BY <1>3, <1>4, <1>8, <2>2 DEF WritePhases
  <2>5. UNCHANGED <<slot, locks, dr>> /\ DropReader(t) /\ th[t].phase # "relock"
    BY <1>0, <1>6, <1>8
  <2>6. ASSUME NEW res, Set(t, Answering(u, res)) PROVE IInv'
    BY <1>2, <2>5, <2>6, AnswerStep
  <2>7. CASE Set(t, Scanning(u, "get"))
    BY <1>2, <2>2, <2>4, <2>5, <2>7, RescanStep
  <2> QED BY <2>3, <2>6, <2>7
<1>9. CASE r.phase \in {"lookup", "replace"} /\ r.unk # None /\ UNCHANGED <<segs, stripe>>
           /\ Set(t, RollingBack(r, r.unk, "wait"))
  <2>1. Holding(r) /\ stripe' = StripeReleased(r)
    BY <1>5, <1>9 DEF WritePhases, StripeReleased
  <2> QED BY <1>0, <1>1, <1>2, <1>3, <1>9, <2>1, RollbackStep
<1>10. CASE r.phase = "lookup" /\ UNCHANGED <<segs, stripe>> /\ Set(t, Scanning(r, "replace"))
  BY <1>0, <1>2, <1>5, <1>6, <1>10, WriteScanStep DEF WritePhases
<1>11. CASE r.phase = "relock" /\ r.unk # None /\ UNCHANGED segs
            /\ Set(t, RollingBack(r, r.unk, "wait")) /\ stripe' = StripeReleased(r)
  <2>1. Holding(r)
    BY <1>5, <1>11 DEF WritePhases
  <2> QED BY <1>0, <1>1, <1>2, <1>3, <1>11, <2>1, RollbackStep
<1>12. ASSUME NEW p, <<p, r.phase>> \in {<<"lock", "replace">>, <<"claimslot", "relock">>},
              r.unk = None, UNCHANGED <<segs, stripe>>, Set(t, [r EXCEPT !.pc = p])
       PROVE  IInv'
  <2>1. PICK n : n = [r EXCEPT !.pc = p]
    OBVIOUS
  <2>2. /\ DOMAIN n = ThreadFields /\ n.pc = p /\ n.phase = r.phase /\ n.new = r.new /\ n.old = None
        /\ n.wpin = r.wpin /\ n.then = "none" /\ n.unk = None /\ n.rem = None
        /\ n.key = r.key /\ n.val = r.val /\ n.ttl = r.ttl /\ n.left = {}
    BY <1>1, <1>2, <1>3, <1>12, <2>1 DEF ThreadFields
  <2>3. Holding(r) /\ p \in {"lock", "claimslot"}
    BY <1>5, <1>12 DEF WritePhases
  <2>4. StepOK(n, p)
    BY <1>12, <2>2, <2>3 DEF StepOK, Writing, WritePhases, AtPcs, Holding
  <2>5. WordsOK(n, p) /\ NewOK(n)
    BY <1>2, <2>2, <2>3 DEF WordsOK, WordPcs, MatchPcs, NewOK
  <2>6. ScanOK(n)
    BY <1>1, <1>2, <1>12, <2>2 DEF ScanOK
  <2> QED BY <1>0, <1>2, <1>3, <1>6, <1>12, <2>1, <2>2, <2>3, <2>4, <2>5, <2>6, QuietStep DEF DrainPcs
<1>13. CASE /\ r.phase \in {"delete", "recheck"} /\ UNCHANGED <<segs, stripe>>
            /\ \/ \E res : Set(t, Answering(r, res))
               \/ Set(t, Scanning(r, "delete"))
  BY <1>0, <1>2, <1>3, <1>4, <1>6, <1>13, AnswerStep, RescanStep DEF WritePhases
<1>14. CASE r.phase = "get"
  BY <1>0, <1>7, <1>14 DEF ScanOver
<1>15. CASE r.phase = "cold"
  BY <1>0, <1>8, <1>15 DEF ScanOver
<1>16. CASE r.phase = "lookup"
  BY <1>0, <1>9, <1>10, <1>16 DEF ScanOver
<1>17. CASE r.phase = "replace"
  <2>1. /\ UNCHANGED <<segs, stripe>>
        /\ Set(t, IF r.unk = None THEN [r EXCEPT !.pc = "lock"] ELSE RollingBack(r, r.unk, "wait"))
    BY <1>0, <1>17 DEF ScanOver
  <2> QED BY <1>9, <1>12, <1>17, <2>1
<1>18. CASE r.phase = "relock"
  <2>1. /\ UNCHANGED segs
        /\ IF r.unk = None
           THEN Set(t, [r EXCEPT !.pc = "claimslot"]) /\ UNCHANGED stripe
           ELSE Set(t, RollingBack(r, r.unk, "wait")) /\ stripe' = StripeReleased(r)
    BY <1>0, <1>18 DEF ScanOver
  <2> QED BY <1>11, <1>12, <1>18, <2>1
<1>19. CASE r.phase \in {"delete", "recheck"}
  BY <1>0, <1>13, <1>19 DEF ScanOver
<1> QED BY <1>0, <1>14, <1>15, <1>16, <1>17, <1>18, <1>19 DEF ScanOver

\* A get or a delete begins.
LEMMA ScanBegins ==
  ASSUME IInv, NEW t \in Threads, NEW k \in Keys, GetBegin(t, k) \/ DeleteBegin(t, k)
  PROVE  IInv'
<1>1. th[t].pc = "idle" /\ UNCHANGED <<slot, segs, locks, dr>>
  BY DEF GetBegin, DeleteBegin
<1>2. th[t].phase # "relock" /\ th[t].pc \notin DrainPcs
  BY <1>1, AtStep DEF DrainPcs, StepOK
<1>3. PICK op, ph : ph \in {"get", "delete"} /\ Set(t, Scanning([Idle EXCEPT !.op = op, !.key = k], ph))
  BY DEF GetBegin, DeleteBegin
<1>4. PICK r : r = [Idle EXCEPT !.op = op, !.key = k]
  OBVIOUS
<1>5. /\ DOMAIN r = ThreadFields /\ r.new = None /\ ~r.wpin /\ r.old = None /\ r.rem = None
      /\ r.then = "none"
  BY <1>4 DEF Idle, ThreadFields
<1> QED BY <1>1, <1>2, <1>3, <1>4, <1>5, RescanStep

\* An insert starts, or starts over, with nothing but its arguments.
LEMMA ReserveAgain ==
  ASSUME IInv, NEW t \in Threads, NEW op, NEW k \in Keys, NEW v \in Values, NEW b \in Buckets,
         Set(t, [Idle EXCEPT !.pc = "reserve", !.op = op, !.key = k, !.val = v, !.ttl = b]),
         UNCHANGED <<slot, segs, locks, dr>>, th[t].pc \notin DrainPcs, th[t].phase # "relock"
  PROVE  IInv'
<1>1. PICK n : n = [Idle EXCEPT !.pc = "reserve", !.op = op, !.key = k, !.val = v, !.ttl = b]
  OBVIOUS
<1>2. /\ DOMAIN n = ThreadFields /\ n.pc = "reserve" /\ n.phase = "none" /\ n.new = None
      /\ n.old = None /\ n.wpin = FALSE /\ n.then = "none" /\ n.unk = None /\ n.rem = None
      /\ n.key = k /\ n.val = v /\ n.ttl = b
  BY <1>1 DEF Idle, ThreadFields
<1>3. StepOK(n, n.pc)
  BY <1>2 DEF StepOK, Writing, AtPcs
<1>4. WordsOK(n, n.pc) /\ NewOK(n) /\ ScanOK(n)
  BY <1>2 DEF WordsOK, NewOK, ScanOK, WordPcs, MatchPcs
<1> QED BY <1>1, <1>2, <1>3, <1>4, CallStep DEF Known, DrainPcs

\* An insert begins.
LEMMA InsertBegins ==
  ASSUME IInv, NEW t \in Threads, NEW k \in Keys, NEW v \in Values, NEW b \in Buckets,
         InsertBegin(t, k, v, b)
  PROVE  IInv'
<1>1. /\ th[t].pc = "idle" /\ UNCHANGED <<slot, segs, locks, dr>>
      /\ Set(t, [Idle EXCEPT !.pc = "reserve", !.op = "insert", !.key = k, !.val = v, !.ttl = b])
  BY DEF InsertBegin
<1>2. th[t].phase # "relock" /\ th[t].pc \notin DrainPcs
  BY <1>1, AtStep DEF DrainPcs, StepOK
<1> QED BY <1>1, <1>2, ReserveAgain

\* slot_publishes, or the cold fallback.
LEMMA SlotPublishesStep ==
  ASSUME IInv, NEW t \in Threads, SlotPublishes(t)
  PROVE  IInv'
<1>0. PICK r : r = th[t]
  OBVIOUS
<1>1. r.pc = "publishes" /\ UNCHANGED <<slot, segs, locks, dr>>
  BY <1>0 DEF SlotPublishes
<1>2. /\ DOMAIN r = ThreadFields /\ th[t].pc \notin DrainPcs /\ StepOK(r, "publishes")
  BY <1>0, <1>1, AtStep DEF DrainPcs
<1>3. /\ r.old = None /\ r.rem = None /\ r.then = "none" /\ r.new = None /\ ~r.wpin
      /\ r.phase # "relock"
  BY <1>2 DEF StepOK, Writing
<1>4. Set(t, Answering(r, ItemAt(r.pin).val)) \/ Set(t, Scanning(r, "cold"))
  BY <1>0 DEF SlotPublishes
<1>5. PICK res : res = ItemAt(r.pin).val
  OBVIOUS
<1> QED BY <1>0, <1>1, <1>2, <1>3, <1>4, <1>5, AnswerStep, RescanStep

\* acquire_item_at on the location the revalidation handed back.
LEMMA FollowStep ==
  ASSUME IInv, NEW t \in Threads, FollowRepublished(t)
  PROVE  IInv'
<1>0. PICK r : r = th[t]
  OBVIOUS
<1>1. r.pc = "acquire" /\ UNCHANGED <<slot, segs, locks, dr>>
  BY <1>0 DEF FollowRepublished
<1>2. /\ DOMAIN r = ThreadFields /\ th[t].pc \notin DrainPcs /\ StepOK(r, "acquire")
  BY <1>0, <1>1, AtStep DEF DrainPcs
<1>3. /\ r.old = None /\ r.rem = None /\ r.then = "none" /\ r.new = None /\ ~r.wpin
      /\ r.phase # "relock"
  BY <1>2 DEF StepOK, Writing
<1>4. PICK u : u = [r EXCEPT !.pin = r.word]
  OBVIOUS
<1>5. /\ DOMAIN u = ThreadFields /\ u.old = None /\ u.rem = None /\ u.then = "none"
      /\ u.new = None /\ ~u.wpin
  BY <1>2, <1>3, <1>4 DEF ThreadFields
<1>6. Set(t, Scanning(u, "cold")) \/ Set(t, Scanning(r, "get")) \/ Set(t, Answering(r, "spent"))
  BY <1>0, <1>4 DEF FollowRepublished
<1> QED BY <1>0, <1>1, <1>2, <1>3, <1>5, <1>6, AnswerStep, RescanStep

\* The call returns.
LEMMA ReturnStep ==
  ASSUME IInv, NEW t \in Threads, Return(t)
  PROVE  IInv'
<1>0. th[t].pc = "done" /\ UNCHANGED <<slot, locks, dr>> /\ DropReader(t) /\ Set(t, Idle)
  BY DEF Return
<1>1. th[t].pc \notin DrainPcs /\ th[t].phase # "relock"
  BY <1>0, AtStep DEF DrainPcs, StepOK
<1>2. PICK n : n = Idle
  OBVIOUS
<1>3. /\ DOMAIN n = ThreadFields /\ n.pc = "idle" /\ n.phase = "none" /\ n.new = None
      /\ n.old = None /\ n.wpin = FALSE /\ n.then = "none" /\ n.unk = None /\ n.rem = None
  BY <1>2 DEF Idle, ThreadFields
<1>4. StepOK(n, n.pc)
  BY <1>3 DEF StepOK, Writing, AtPcs
<1>5. WordsOK(n, n.pc) /\ NewOK(n) /\ ScanOK(n)
  BY <1>3 DEF WordsOK, NewOK, ScanOK, WordPcs, MatchPcs
<1> QED BY <1>0, <1>1, <1>2, <1>3, <1>4, <1>5, DropStep DEF Known, DrainPcs

\* The last look for room.
LEMMA NoRoomStep ==
  ASSUME IInv, NEW t \in Threads, NoRoom(t)
  PROVE  IInv'
<1>0. PICK r, n : r = th[t] /\ n = [r EXCEPT !.pc = "noroom"]
  OBVIOUS
<1>1. r.pc = "reserve" /\ UNCHANGED <<slot, segs, locks, dr>> /\ Set(t, n)
  BY <1>0 DEF NoRoom
<1>2. /\ DOMAIN r = ThreadFields /\ th[t].pc \notin DrainPcs
      /\ StepOK(r, "reserve") /\ WordsOK(r, "reserve")
  BY <1>0, <1>1, AtStep DEF DrainPcs
<1>3. /\ r.new = None /\ ~r.wpin /\ r.phase # "relock" /\ r.old = None /\ r.then = "none"
      /\ r.rem = None /\ r.unk \in Location \cup {None}
  BY <1>2 DEF StepOK, Writing
<1>4. /\ DOMAIN n = ThreadFields /\ n.pc = "noroom" /\ n.phase = r.phase /\ n.new = None
      /\ n.old = None /\ n.wpin = r.wpin /\ n.then = "none" /\ n.unk = r.unk /\ n.rem = None
      /\ n.key = r.key
  BY <1>0, <1>2, <1>3 DEF ThreadFields
<1>5. StepOK(n, "noroom")
  BY <1>3, <1>4 DEF StepOK, Writing, AtPcs
<1>6. WordsOK(n, "noroom") /\ NewOK(n) /\ ScanOK(n)
  BY <1>3, <1>4 DEF WordsOK, WordPcs, MatchPcs, NewOK, ScanOK
<1> QED BY <1>0, <1>1, <1>2, <1>3, <1>4, <1>5, <1>6, QuietStep DEF DrainPcs

\* NoFreeSegments.
LEMMA ReserveFailsStep ==
  ASSUME IInv, NEW t \in Threads, ReserveFails(t)
  PROVE  IInv'
<1>1. th[t].pc = "noroom" /\ UNCHANGED <<slot, segs, locks, dr>> /\ Set(t, Answering(th[t], "err"))
  BY DEF ReserveFails
<1>2. th[t].pc \notin DrainPcs /\ th[t].phase # "relock"
  BY <1>1, AtStep DEF DrainPcs, StepOK
<1>3. PICK r : r = th[t]
  OBVIOUS
<1> QED BY <1>1, <1>2, <1>3, AnswerStep

\* try_pin_remover on the old entry's segment.
LEMMA PinOldStep ==
  ASSUME IInv, NEW t \in Threads, PinOld(t)
  PROVE  IInv'
<1>0. PICK r : r = th[t]
  OBVIOUS
<1>1. r.pc = "pinold" /\ UNCHANGED <<slot, segs, locks, dr>>
  BY <1>0 DEF PinOld
<1>2. /\ DOMAIN r = ThreadFields /\ th[t].pc \notin DrainPcs
      /\ StepOK(r, "pinold") /\ WordsOK(r, "pinold") /\ NewOK(r)
  BY <1>0, <1>1, AtStep DEF DrainPcs
<1>3. Holding(r) /\ r.phase # "relock" /\ r.word \in Location
  BY <1>2 DEF StepOK, Writing, Holding, WordsOK, WordPcs, Issued
<1>4. CASE Set(t, RollingBack(r, r.word, "wait"))
  <2>1. stripe' = StripeReleased(r) /\ UNCHANGED <<slot, segs, ttl, chain, dr>>
    BY <1>1, <1>3 DEF StripeReleased, locks
  <2>2. r.word # None
    BY <1>3, LocationAssumption
  <2> QED BY <1>0, <1>2, <1>3, <1>4, <2>1, <2>2, RollbackStep
<1>5. CASE Set(t, Scanning(r, "lookup"))
  BY <1>0, <1>1, <1>2, <1>3, <1>5, WriteScanStep
<1>6. CASE Set(t, [r EXCEPT !.pc = "swapold", !.rem = r.word.seg])
  <2>1. PICK n : n = [r EXCEPT !.pc = "swapold", !.rem = r.word.seg]
    OBVIOUS
  <2>2. /\ DOMAIN n = ThreadFields /\ n.pc = "swapold" /\ n.phase = r.phase /\ n.new = r.new
        /\ n.old = None /\ n.wpin = r.wpin /\ n.then = "none" /\ n.unk = r.unk /\ n.word = r.word
        /\ n.key = r.key /\ n.val = r.val /\ n.ttl = r.ttl /\ n.at = r.at
    BY <1>2, <1>3, <2>1 DEF ThreadFields, Holding
  <2>3. StepOK(n, "swapold")
    BY <1>2, <1>3, <2>2 DEF StepOK, Writing, AtPcs, Holding
  <2>4. WordsOK(n, "swapold") /\ NewOK(n) /\ ScanOK(n)
    BY <1>2, <1>3, <2>2 DEF WordsOK, WordPcs, MatchPcs, NewOK, ScanOK
  <2> QED BY <1>0, <1>1, <1>2, <1>3, <1>6, <2>1, <2>2, <2>3, <2>4, QuietStep DEF DrainPcs
<1> QED BY <1>0, <1>4, <1>5, <1>6 DEF PinOld

\* The insert stripe, then the same pass again under it.
LEMMA LockStripeStep ==
  ASSUME IInv, NEW t \in Threads, LockStripe(t)
  PROVE  IInv'
<1>0. PICK r : r = th[t]
  OBVIOUS
<1>1. /\ r.pc = "lock" /\ UNCHANGED <<slot, segs, ttl, chain, dr>> /\ stripe[r.key] = None
      /\ stripe' = [stripe EXCEPT ![r.key] = t] /\ Set(t, Scanning(r, "relock"))
  BY <1>0 DEF LockStripe
<1>2. /\ DOMAIN r = ThreadFields /\ th[t].pc \notin DrainPcs /\ StepOK(r, "lock") /\ NewOK(r)
  BY <1>0, <1>1, AtStep DEF DrainPcs
<1>3. Holding(r) /\ r.phase # "relock"
  BY <1>2 DEF StepOK, Writing, Holding
<1>4. PICK n : n = Scanning(r, "relock")
  OBVIOUS
<1>5. /\ DOMAIN n = ThreadFields /\ n.pc = "scan" /\ n.phase = "relock" /\ n.key = r.key
      /\ n.new = r.new /\ n.old = None /\ Known(n)
  BY <1>3, <1>4, WriteScanKnown DEF Holding, WritePhases
<1>6. stripe \in [Keys -> Threads \cup {None}] /\ LockOK(t) /\ r.key \in Keys
  BY <1>3 DEF IInv, TypeOK, ThreadOK, Holding
<1>7. /\ stripe' \in [Keys -> Threads \cup {None}]
      /\ \A k \in Keys, u \in Threads : u # t => (stripe'[k] = u <=> stripe[k] = u)
      /\ \A k \in Keys : stripe'[k] = t <=> n.phase = "relock" /\ n.key = k
  BY <1>0, <1>1, <1>3, <1>5, <1>6, SentinelAssumption DEF LockOK
<1>8. n.pc \notin DrainPcs /\ th' = [th EXCEPT ![t] = n]
  BY <1>1, <1>4, <1>5 DEF DrainPcs, Set
<1>9. StepOK(n, n.pc) /\ WordsOK(n, n.pc) /\ NewOK(n) /\ ScanOK(n)
  BY <1>5 DEF Known
<1>10. n.new \in {th[t].new, None} /\ n.old \in {th[t].old, th[t].new, None}
  BY <1>0, <1>5
<1> QED BY <1>1, <1>2, <1>5, <1>7, <1>8, <1>9, <1>10, LocalStep

\* try_claim_new_slot passes by a slot that is taken.
LEMMA PassTakenStep ==
  ASSUME IInv, NEW t \in Threads, NEW i \in Slots, PassTaken(t, i)
  PROVE  IInv'
<1>0. PICK r, n : r = th[t] /\ n = [r EXCEPT !.taken = @ \cup {i}]
  OBVIOUS
<1>1. r.pc = "claimslot" /\ UNCHANGED <<slot, segs, locks, dr>> /\ Set(t, n)
  BY <1>0 DEF PassTaken
<1>2. /\ DOMAIN r = ThreadFields /\ th[t].pc \notin DrainPcs
      /\ StepOK(r, "claimslot") /\ WordsOK(r, "claimslot") /\ NewOK(r) /\ ScanOK(r)
  BY <1>0, <1>1, AtStep DEF DrainPcs
<1>3. /\ DOMAIN n = ThreadFields /\ n.pc = r.pc /\ n.phase = r.phase /\ n.new = r.new
      /\ n.old = r.old /\ n.wpin = r.wpin /\ n.then = r.then /\ n.unk = r.unk /\ n.rem = r.rem
      /\ n.key = r.key /\ n.val = r.val /\ n.ttl = r.ttl /\ n.at = r.at /\ n.left = r.left
      /\ n.word = r.word
  BY <1>0, <1>2 DEF ThreadFields
<1>4. StepOK(n, "claimslot")
  BY <1>2, <1>3 DEF StepOK, Writing
<1>5. WordsOK(n, "claimslot") /\ NewOK(n)
  BY <1>2, <1>3 DEF WordsOK, WordPcs, MatchPcs, NewOK
<1>6. ScanOK(n)
  BY <1>1, <1>2, <1>3 DEF ScanOK
<1>7. /\ n.pc = "claimslot" /\ n.pc \notin DrainPcs
      /\ n.phase = "relock" <=> th[t].phase = "relock"
      /\ n.phase = "relock" => n.key = th[t].key
      /\ n.new \in {th[t].new, None} /\ n.old \in {th[t].old, th[t].new, None}
  <2>1. n.pc = "claimslot" /\ n.pc \notin DrainPcs
    BY <1>1, <1>3 DEF DrainPcs
  <2>2. n.phase = th[t].phase /\ n.key = th[t].key /\ n.new = th[t].new /\ n.old = th[t].old
    BY <1>0, <1>3
  <2> QED BY <2>1, <2>2
<1> QED BY <1>1, <1>2, <1>3, <1>4, <1>5, <1>6, <1>7, QuietStep

\* HashTableInsertEx.
LEMMA BucketFullStep ==
  ASSUME IInv, NEW t \in Threads, BucketFull(t)
  PROVE  IInv'
<1>0. PICK r, w : r = th[t] /\ w = None
  OBVIOUS
<1>1. /\ r.pc = "claimslot" /\ UNCHANGED <<slot, segs, ttl, chain, dr>>
      /\ stripe' = StripeReleased(r) /\ Set(t, RollingBack(r, w, "err"))
  BY <1>0 DEF BucketFull
<1>2. /\ DOMAIN r = ThreadFields /\ th[t].pc \notin DrainPcs /\ StepOK(r, "claimslot") /\ NewOK(r)
  BY <1>0, <1>1, AtStep DEF DrainPcs
<1>3. Holding(r) /\ w \in Location \cup {None}
  BY <1>0, <1>2 DEF StepOK, Writing, Holding
<1> QED BY <1>0, <1>1, <1>2, <1>3, RollbackStep

\* The segment of an entry that is out of the table is pinned, or left to its drain.
LEMMA PinUnlinkedStep ==
  ASSUME IInv, NEW t \in Threads, PinUnlinked(t)
  PROVE  IInv'
<1>0. PICK r : r = th[t]
  OBVIOUS
<1>1. r.pc = "undo" /\ UNCHANGED <<slot, segs, locks, dr>>
  BY <1>0 DEF PinUnlinked
<1>2. /\ DOMAIN r = ThreadFields /\ th[t].pc \notin DrainPcs
      /\ StepOK(r, "undo") /\ WordsOK(r, "undo")
  BY <1>0, <1>1, AtStep DEF DrainPcs
<1>3. r.new = None /\ ~r.wpin /\ r.phase # "relock" /\ r.rem = None /\ r.old # None
  BY <1>2 DEF StepOK, Writing
<1>4. CASE Set(t, [r EXCEPT !.pc = "remove", !.rem = r.old.seg])
  <2>1. PICK n : n = [r EXCEPT !.pc = "remove", !.rem = r.old.seg]
    OBVIOUS
  <2>2. /\ DOMAIN n = ThreadFields /\ n.pc = "remove" /\ n.phase = r.phase /\ n.new = None
        /\ n.old = r.old /\ n.wpin = r.wpin /\ n.then = r.then /\ n.unk = r.unk
        /\ n.key = r.key /\ n.val = r.val /\ n.ttl = r.ttl
    BY <1>2, <1>3, <2>1 DEF ThreadFields
  <2>3. StepOK(n, "remove")
    BY <1>2, <1>3, <2>2 DEF StepOK, Writing, AtPcs
  <2>4. WordsOK(n, "remove") /\ NewOK(n) /\ ScanOK(n)
    BY <1>2, <1>3, <2>2 DEF WordsOK, WordPcs, MatchPcs, NewOK, ScanOK
  <2> QED BY <1>0, <1>1, <1>2, <1>3, <1>4, <2>1, <2>2, <2>3, <2>4, QuietStep DEF DrainPcs
<1>5. CASE Set(t, [r EXCEPT !.pc = "tail", !.old = None])
  <2>1. PICK n : n = [r EXCEPT !.pc = "tail", !.old = None]
    OBVIOUS
  <2>2. /\ DOMAIN n = ThreadFields /\ n.pc = "tail" /\ n.phase = r.phase /\ n.new = None
        /\ n.old = None /\ n.wpin = r.wpin /\ n.then = r.then /\ n.unk = r.unk /\ n.rem = None
        /\ n.key = r.key /\ n.val = r.val /\ n.ttl = r.ttl
    BY <1>2, <1>3, <2>1 DEF ThreadFields
  <2>3. StepOK(n, "tail")
    BY <1>2, <1>3, <2>2 DEF StepOK, Writing, AtPcs
  <2>4. WordsOK(n, "tail") /\ NewOK(n) /\ ScanOK(n)
    BY <1>2, <1>3, <2>2 DEF WordsOK, WordPcs, MatchPcs, NewOK, ScanOK
  <2> QED BY <1>0, <1>1, <1>2, <1>3, <1>5, <2>1, <2>2, <2>3, <2>4, QuietStep DEF DrainPcs
<1> QED BY <1>0, <1>4, <1>5 DEF PinUnlinked

\* What follows the decrement.
LEMMA AfterRemoveStep ==
  ASSUME IInv, NEW t \in Threads, AfterRemove(t)
  PROVE  IInv'
<1>0. PICK r : r = th[t]
  OBVIOUS
<1>1. r.pc = "tail" /\ UNCHANGED <<slot, segs, locks, dr>>
  BY <1>0 DEF AfterRemove
<1>2. /\ DOMAIN r = ThreadFields /\ th[t].pc \notin DrainPcs /\ StepOK(r, "tail")
  BY <1>0, <1>1, AtStep DEF DrainPcs
<1>3. r.new = None /\ ~r.wpin /\ r.phase # "relock" /\ r.rem = None /\ r.old = None
  BY <1>2 DEF StepOK, Writing
<1>4. CASE r.then = "wait" /\ Set(t, [r EXCEPT !.pc = "wait", !.then = "none"])
  <2>1. PICK n : n = [r EXCEPT !.pc = "wait", !.then = "none"]
    OBVIOUS
  <2>2. /\ DOMAIN n = ThreadFields /\ n.pc = "wait" /\ n.phase = r.phase /\ n.new = None
        /\ n.old = None /\ n.wpin = r.wpin /\ n.then = "none" /\ n.unk = r.unk /\ n.rem = None
        /\ n.key = r.key /\ n.val = r.val /\ n.ttl = r.ttl
    BY <1>2, <1>3, <2>1 DEF ThreadFields
  <2>3. StepOK(n, "wait")
    BY <1>2, <1>3, <1>4, <2>2 DEF StepOK, Writing, AtPcs
  <2>4. WordsOK(n, "wait") /\ NewOK(n) /\ ScanOK(n)
    BY <1>3, <2>2 DEF WordsOK, WordPcs, MatchPcs, NewOK, ScanOK
  <2> QED BY <1>0, <1>1, <1>2, <1>3, <1>4, <2>1, <2>2, <2>3, <2>4, QuietStep DEF DrainPcs
<1>5. CASE Set(t, Answering(r, r.then))
  <2>1. PICK res : res = r.then
    OBVIOUS
  <2> QED BY <1>0, <1>1, <1>2, <1>3, <1>5, <2>1, AnswerStep
<1> QED BY <1>0, <1>4, <1>5 DEF AfterRemove

\* wait_while_draining_or_filling is over.
LEMMA WaitOverStep ==
  ASSUME IInv, NEW t \in Threads, WaitOver(t)
  PROVE  IInv'
<1>0. PICK r : r = th[t]
  OBVIOUS
<1>1. /\ r.pc = "wait" /\ UNCHANGED <<slot, segs, locks, dr>>
      /\ Set(t, [Idle EXCEPT !.pc = "reserve", !.op = r.op, !.key = r.key, !.val = r.val,
                             !.ttl = r.ttl])
  BY <1>0 DEF WaitOver
<1>2. th[t].pc \notin DrainPcs /\ StepOK(r, "wait")
  BY <1>0, <1>1, AtStep DEF DrainPcs
<1>3. PICK op, k, v, b : op = r.op /\ k = r.key /\ v = r.val /\ b = r.ttl
  OBVIOUS
<1>4. /\ k \in Keys /\ v \in Values /\ b \in Buckets /\ th[t].phase # "relock"
      /\ Set(t, [Idle EXCEPT !.pc = "reserve", !.op = op, !.key = k, !.val = v, !.ttl = b])
  BY <1>0, <1>1, <1>2, <1>3 DEF StepOK
<1> QED BY <1>1, <1>2, <1>4, ReserveAgain

\* delete's steps between its lookup and its unlink.
LEMMA DeleteMoves ==
  ASSUME IInv, NEW t \in Threads, NEW r, r = th[t], r.pc \in {"delgen", "delpin", "delfence"},
         NEW n, Set(t, n), UNCHANGED <<slot, segs, locks, dr>>,
         DOMAIN n = ThreadFields, n.pc \in {"delpin", "delfence", "unlink", "unlinkfree"},
         n.word = r.word, n.phase = r.phase, n.new = r.new, n.wpin = r.wpin, n.old = r.old,
         n.then = r.then, n.unk = r.unk, n.rem = r.rem \/ n.pc = "unlink"
  PROVE  IInv'
<1>1. /\ DOMAIN r = ThreadFields /\ th[t].pc \notin DrainPcs
      /\ StepOK(r, r.pc) /\ WordsOK(r, r.pc)
  BY AtStep DEF DrainPcs
<1>2. /\ r.new = None /\ ~r.wpin /\ r.phase # "relock" /\ r.rem = None /\ r.old = None
      /\ r.then = "none" /\ r.unk \in Location \cup {None}
  BY <1>1 DEF StepOK, Writing
<1>3. StepOK(n, n.pc)
  BY <1>2 DEF StepOK, Writing, AtPcs
<1>4. WordsOK(n, n.pc) /\ NewOK(n) /\ ScanOK(n)
  BY <1>1, <1>2 DEF WordsOK, WordPcs, MatchPcs, NewOK, ScanOK
<1> QED BY <1>1, <1>2, <1>3, <1>4, QuietStep DEF DrainPcs

\* observed_gen, and the pin that decides which way the delete goes.
LEMMA DeletePinStep ==
  ASSUME IInv, NEW t \in Threads, ObserveGen(t) \/ PinForDelete(t)
  PROVE  IInv'
<1>0. PICK r : r = th[t]
  OBVIOUS
<1>1. r.pc \in {"delgen", "delpin"} /\ UNCHANGED <<slot, segs, locks, dr>>
  BY <1>0 DEF ObserveGen, PinForDelete
<1>2. DOMAIN r = ThreadFields
  BY <1>0 DEF IInv, TypeOK
<1>3. PICK n : /\ Set(t, n)
               /\ \/ n = [r EXCEPT !.pc = "delpin", !.obs = gen[r.word.seg]]
                  \/ n = [r EXCEPT !.pc = "unlink", !.rem = r.word.seg, !.obs = None]
                  \/ n = [r EXCEPT !.pc = "delfence"]
  BY <1>0 DEF ObserveGen, PinForDelete
<1>4. /\ DOMAIN n = ThreadFields /\ n.pc \in {"delpin", "delfence", "unlink", "unlinkfree"}
      /\ n.word = r.word /\ n.phase = r.phase /\ n.new = r.new /\ n.wpin = r.wpin /\ n.old = r.old
      /\ n.then = r.then /\ n.unk = r.unk /\ (n.rem = r.rem \/ n.pc = "unlink")
  BY <1>2, <1>3 DEF ThreadFields
<1> QED BY <1>0, <1>1, <1>3, <1>4, DeleteMoves

\* The generation fence of the unpinned path.
LEMMA FenceStep ==
  ASSUME IInv, NEW t \in Threads, GenerationFence(t)
  PROVE  IInv'
<1>0. PICK r : r = th[t]
  OBVIOUS
<1>1. r.pc = "delfence" /\ UNCHANGED <<slot, segs, locks, dr>>
  BY <1>0 DEF GenerationFence
<1>2. DOMAIN r = ThreadFields /\ th[t].pc \notin DrainPcs /\ StepOK(r, "delfence")
  BY <1>0, <1>1, AtStep DEF DrainPcs
<1>3. CASE Set(t, [r EXCEPT !.pc = "unlinkfree", !.obs = None])
  <2>1. PICK n : n = [r EXCEPT !.pc = "unlinkfree", !.obs = None]
    OBVIOUS
  <2>2. /\ DOMAIN n = ThreadFields /\ n.pc \in {"delpin", "delfence", "unlink", "unlinkfree"}
        /\ n.word = r.word /\ n.phase = r.phase /\ n.new = r.new /\ n.wpin = r.wpin /\ n.old = r.old
        /\ n.then = r.then /\ n.unk = r.unk /\ (n.rem = r.rem \/ n.pc = "unlink")
    BY <1>2, <2>1 DEF ThreadFields
  <2>3. Set(t, n) /\ r.pc \in {"delgen", "delpin", "delfence"}
    BY <1>1, <1>3, <2>1
  <2> QED BY <1>0, <1>1, <2>2, <2>3, DeleteMoves
<1>4. CASE Set(t, Scanning([r EXCEPT !.obs = None], "delete"))
  <2>1. PICK u : u = [r EXCEPT !.obs = None]
    OBVIOUS
  <2>2. /\ DOMAIN u = ThreadFields /\ u.new = r.new /\ u.wpin = r.wpin /\ u.old = r.old
        /\ u.rem = r.rem /\ u.then = r.then
    BY <1>2, <2>1 DEF ThreadFields
  <2>3. r.new = None /\ ~r.wpin /\ r.phase # "relock" /\ r.rem = None /\ r.old = None /\ r.then = "none"
    BY <1>2 DEF StepOK, Writing
  <2> QED BY <1>0, <1>1, <1>2, <1>4, <2>1, <2>2, <2>3, RescanStep
<1> QED BY <1>0, <1>3, <1>4 DEF GenerationFence

-----------------------------------------------------------------------------
(* Steps of a call that change the table. *)

\* Such a step ends with no reservation; what it took out of the table is its own.
LEMMA TableStep ==
  ASSUME IInv, NEW t \in Threads, NEW n, th' = [th EXCEPT ![t] = n], DOMAIN n = ThreadFields,
         UNCHANGED <<segs, ttl, chain, dr>>,
         stripe' \in [Keys -> Threads \cup {None}],
         \A k \in Keys, u \in Threads : u # t => (stripe'[k] = u <=> stripe[k] = u),
         \A k \in Keys : stripe'[k] # t,
         th[t].pc \notin DrainPcs, n.pc \notin DrainPcs,
         StepOK(n, n.pc), WordsOK(n, n.pc), n.new = None, n.phase # "relock", th[t].old = None,
         slot' \in [Slots -> Location \cup {None}],
         \A i \in Slots : slot'[i] \in {slot[i], None, th[t].new},
         n.old # None => (\E i \in Slots : slot[i] = n.old) /\ (\A i \in Slots : slot'[i] # n.old),
         \A k \in Keys : stripe[k] # t => Bound(k)' \subseteq Bound(k), OneEntry'
  PROVE  IInv'
<1>0. TypeOK /\ DOMAIN th = Threads /\ Apart /\ NoStaleEntry /\ NewOK(th[t])
  BY DEF IInv, TypeOK, ThreadOK, CallOK
<1>1. th'[t] = n /\ \A u \in Threads : u # t => th'[u] = th[u]
  BY <1>0
<1>3. TypeOK'
  BY <1>0, <1>1 DEF TypeOK, segs
<1>4. \A s \in Segments : SegmentStep(s)
  BY <1>0 DEF TypeOK, SegmentStep, segs
<1>5. Frame(t)
  BY <1>1, <1>4 DEF Frame, segs
<1>6. ThreadOK(t)'
  <2>1. CallPc(t)' = n.pc
    BY <1>1 DEF CallPc
  <2>2. StepOK(n, n.pc)' /\ WordsOK(n, n.pc)' /\ NewOK(n)' /\ ScanOK(n)'
    BY DEF StepOK, Writing, WordsOK, NewOK, ScanOK, Issued, Resolves, ItemAt, segs
  <2>3. CallOK(t)'
    BY <1>1, <2>1, <2>2 DEF CallOK
  <2>4. dr[t] = NoDrain /\ dr' = dr
    BY DEF IInv, ThreadOK, DrainOK
  <2>5. DrainOK(t)'
    BY <1>1, <2>4, SentinelAssumption DEF DrainOK, NoDrain, DrainPcs
  <2>6. LockOK(t)'
    BY <1>1 DEF LockOK, IInv, ThreadOK, DrainPcs
  <2> QED BY <2>3, <2>5, <2>6 DEF ThreadOK
<1>7. SegmentsOK'
  BY DEF IInv, SegmentsOK, segs
<1>8. NoStaleEntry'
  <2> SUFFICES ASSUME NEW i \in Slots, slot'[i] # None
               PROVE  /\ Resolves(slot[i])'
                      /\ st'[slot'[i].seg] \notin {"Free", "Condemned"}
                      /\ slot'[i].off <= Len(items'[slot'[i].seg])
    BY DEF NoStaleEntry
  <2>1. CASE slot'[i] = slot[i]
    BY <1>0, <2>1 DEF NoStaleEntry, Resolves, segs
  <2>2. CASE slot'[i] = th[t].new
    BY <1>0, <2>2 DEF NewOK, Resolves, segs
  <2> QED BY <2>1, <2>2
<1>9. Apart'
  BY <1>0, <1>1 DEF Apart
<1>10. LiveOK'
  <2>1. Refs' \subseteq Refs
    BY <1>1, LocationAssumption DEF Refs
  <2>2. ASSUME NEW s \in Segments PROVE live'[s] >= Cardinality(Outstanding(s)')
    <3>1. live[s] >= Cardinality(Outstanding(s)) /\ live'[s] = live[s]
      BY DEF IInv, LiveOK, segs
    <3>2. Outstanding(s)' \subseteq Outstanding(s)
      BY <1>0, <1>3, <2>1, NoNewRef DEF segs
    <3> QED BY <1>0, <1>3, <3>1, <3>2, LiveKept
  <2> QED BY <2>2 DEF LiveOK
<1> QED BY <1>3, <1>5, <1>6, <1>7, <1>8, <1>9, <1>10, StepInv

\* Slots hold different locations.
LEMMA SlotsApart ==
  ASSUME IInv, NEW i \in Slots, NEW j \in Slots, slot[i] # None, slot[i] = slot[j]
  PROVE  i = j
<1>1. PICK k : k = ItemAt(slot[i]).key
  OBVIOUS
<1>2. k \in Keys /\ i \in Bound(k)
  BY <1>1, SlotIssued DEF IInv
<1>3. j \in Bound(k)
  BY <1>1, SlotIssued DEF IInv
<1> QED BY <1>2, <1>3 DEF IInv, OneEntry

\* Taking entries out binds no key.
LEMMA UnlinkBinds ==
  ASSUME IInv, UNCHANGED segs, \A i \in Slots : slot'[i] \in {slot[i], None}, NEW k
  PROVE  Bound(k)' \subseteq Bound(k)
  BY DEF Bound, Resolves, ItemAt, segs

\* Exchanging an entry for another of its key binds no key.
LEMMA SwapBinds ==
  ASSUME IInv, UNCHANGED segs, NEW a \in Slots, NEW w, slot[a] # None,
         slot'[a] = w, \A i \in Slots : i # a => slot'[i] = slot[i],
         ItemAt(w).key = ItemAt(slot[a]).key, NEW k
  PROVE  Bound(k)' \subseteq Bound(k)
<1> SUFFICES ASSUME NEW i \in Slots, i \in Bound(k)' PROVE i \in Bound(k)
  BY DEF Bound
<1>2. CASE i = a
  <2>2. ItemAt(w)'.key = k
    BY <1>2 DEF Bound, ItemAt
  <2>3. ItemAt(slot[a]).key = k
    BY <2>2 DEF ItemAt, segs
  <2> QED BY <1>2, <2>3, SlotIssued DEF IInv
<1>3. CASE i # a
  BY <1>3 DEF Bound, Resolves, ItemAt, segs
<1> QED BY <1>2, <1>3

\* The exchange of the published entry for the reserved one, by either of the two CASes.
LEMMA ExchangeStep ==
  ASSUME IInv, NEW t \in Threads, NEW r, r = th[t], r.pc \in {"swapold", "swap"},
         slot[r.at] = r.word, slot' = [slot EXCEPT ![r.at] = r.new],
         UNCHANGED <<segs, ttl, chain, dr>>, stripe' = StripeReleased(r),
         NEW n, Set(t, n), DOMAIN n = ThreadFields, n.pc \in {"undo", "remove"}, n.phase = "none",
         ~n.wpin, n.new = None, n.old = r.word, n.then = "ok", n.unk \in Location \cup {None},
         n.rem # None => n.pc = "remove"
  PROVE  IInv'
<1>1. /\ DOMAIN r = ThreadFields /\ th[t].pc \notin DrainPcs
      /\ StepOK(r, r.pc) /\ WordsOK(r, r.pc) /\ NewOK(r)
  BY AtStep DEF DrainPcs
<1>2. /\ r.new # None /\ r.key \in Keys /\ r.at \in Slots /\ r.old = None
      /\ Issued(r.word) /\ r.word \in Location
  BY <1>1 DEF StepOK, Writing, AtPcs, WordsOK, WordPcs, Issued
<1>3. r.word # None /\ slot[r.at] # None /\ slot \in [Slots -> Location \cup {None}]
  BY <1>2, LocationAssumption DEF IInv, TypeOK
<1>4. Resolves(r.word) /\ ItemAt(r.word).key = r.key
  <2>1. Resolves(slot[r.at])
    BY <1>2, <1>3 DEF IInv, NoStaleEntry
  <2>2. Resolves(r.word)
    BY <2>1
  <2> QED BY <1>1, <2>2 DEF WordsOK, MatchPcs
<1>5. r.new \in Location /\ ItemAt(r.new).key = r.key /\ r.new # r.word
  <2>1. slot[r.at] # th[t].new
    BY <1>2, <1>3 DEF IInv, Apart
  <2> QED BY <1>1, <1>2, <2>1 DEF NewOK
<1>6. \A k : Bound(k)' \subseteq Bound(k)
  <2>1. PICK a, w : a = r.at /\ w = r.new
    OBVIOUS
  <2>2. /\ a \in Slots /\ slot[a] # None /\ slot'[a] = w
        /\ \A i \in Slots : i # a => slot'[i] = slot[i]
    BY <1>2, <1>3, <2>1
  <2>3. ItemAt(w).key = r.key /\ ItemAt(slot[a]).key = r.key
    BY <1>4, <1>5, <2>1
  <2> QED BY <2>2, <2>3, SwapBinds
<1>7. OneEntry'
  BY <1>6, OneEntryKept DEF IInv
<1>8. /\ slot' \in [Slots -> Location \cup {None}]
      /\ \A i \in Slots : slot'[i] \in {slot[i], None, th[t].new}
  BY <1>3, <1>5
<1>9. (\E i \in Slots : slot[i] = n.old) /\ (\A i \in Slots : slot'[i] # n.old)
  <2>1. \A i \in Slots : i # r.at => slot[i] # r.word
    BY <1>2, <1>3, SlotsApart
  <2>2. \A i \in Slots : i # r.at => slot'[i] = slot[i]
    BY <1>3
  <2>3. slot'[r.at] = r.new
    BY <1>2, <1>3
  <2> QED BY <1>2, <1>5, <2>1, <2>2, <2>3
<1>10. StepOK(n, n.pc)
  BY <1>3 DEF StepOK, Writing, AtPcs
<1>11. WordsOK(n, n.pc)
  BY <1>2 DEF WordsOK, WordPcs, MatchPcs
<1>12. /\ stripe' \in [Keys -> Threads \cup {None}]
       /\ \A k \in Keys, u \in Threads : u # t => (stripe'[k] = u <=> stripe[k] = u)
       /\ \A k \in Keys : stripe'[k] # t
  BY <1>2, Released
<1>13. th' = [th EXCEPT ![t] = n] /\ n.pc \notin DrainPcs /\ n.phase # "relock" /\ th[t].old = None
  BY <1>2 DEF Set, DrainPcs
<1> QED BY <1>1, <1>6, <1>7, <1>8, <1>9, <1>10, <1>11, <1>12, <1>13, TableStep

\* cas_location_at.
LEMMA SwapOldStep ==
  ASSUME IInv, NEW t \in Threads, SwapOld(t)
  PROVE  IInv'
<1>0. PICK r : r = th[t]
  OBVIOUS
<1>1. r.pc = "swapold" /\ UNCHANGED <<segs, locks, dr>>
  BY <1>0 DEF SwapOld
<1>2. /\ DOMAIN r = ThreadFields /\ th[t].pc \notin DrainPcs /\ StepOK(r, "swapold") /\ NewOK(r)
  BY <1>0, <1>1, AtStep DEF DrainPcs
<1>3. CASE slot[r.at] = r.word
  <2>1. PICK n : n = [r EXCEPT !.pc = "remove", !.phase = "none", !.at = None, !.word = None,
                               !.wpin = FALSE, !.new = None, !.old = r.word, !.then = "ok"]
    OBVIOUS
  <2>2. /\ DOMAIN n = ThreadFields /\ n.pc = "remove" /\ n.phase = "none"
        /\ ~n.wpin /\ n.new = None /\ n.old = r.word /\ n.then = "ok" /\ n.unk = r.unk
    BY <1>2, <2>1 DEF ThreadFields
  <2>3. slot' = [slot EXCEPT ![r.at] = r.new] /\ Set(t, n)
    BY <1>0, <1>3, <2>1 DEF SwapOld
  <2>4. stripe' = StripeReleased(r) /\ UNCHANGED <<segs, ttl, chain, dr>> /\ r.unk \in Location \cup {None}
    BY <1>1, <1>2 DEF StripeReleased, StepOK, locks
  <2> QED BY <1>0, <1>1, <1>3, <2>2, <2>3, <2>4, ExchangeStep
<1>4. CASE slot[r.at] # r.word
  <2>1. PICK u : u = [r EXCEPT !.rem = None]
    OBVIOUS
  <2>2. Set(t, Scanning(u, "lookup")) /\ UNCHANGED <<slot, segs, locks, dr>>
    BY <1>0, <1>1, <1>4, <2>1 DEF SwapOld
  <2>3. /\ DOMAIN u = ThreadFields /\ u.new = r.new /\ u.wpin = r.wpin /\ u.old = r.old
        /\ u.rem = None /\ u.then = r.then /\ u.key = r.key /\ u.val = r.val /\ u.ttl = r.ttl
    BY <1>2, <2>1 DEF ThreadFields
  <2>4. Holding(u) /\ th[t].phase # "relock"
    BY <1>0, <1>2, <2>3 DEF Holding, StepOK, Writing, NewOK
  <2> QED BY <1>0, <1>2, <2>2, <2>3, <2>4, WriteScanStep
<1> QED BY <1>3, <1>4

\* try_replace_existing's CAS.
LEMMA ReplaceStep ==
  ASSUME IInv, NEW t \in Threads, TryReplaceExisting(t)
  PROVE  IInv'
<1>0. PICK r : r = th[t]
  OBVIOUS
<1>1. r.pc = "swap" /\ UNCHANGED <<segs, ttl, chain, dr>>
  BY <1>0 DEF TryReplaceExisting
<1>2. /\ DOMAIN r = ThreadFields /\ th[t].pc \notin DrainPcs
      /\ StepOK(r, "swap") /\ WordsOK(r, "swap") /\ NewOK(r) /\ ScanOK(r)
  BY <1>0, <1>1, AtStep DEF DrainPcs
<1>3. CASE slot[r.at] = r.word
  <2>1. PICK n : n = [r EXCEPT !.pc = "undo", !.phase = "none", !.left = {}, !.at = None,
                               !.word = None, !.unk = None, !.wpin = FALSE, !.new = None,
                               !.old = r.word, !.then = "ok"]
    OBVIOUS
  <2>2. /\ DOMAIN n = ThreadFields /\ n.pc = "undo" /\ n.phase = "none" /\ n.rem = r.rem
        /\ ~n.wpin /\ n.new = None /\ n.old = r.word /\ n.then = "ok" /\ n.unk = None
    BY <1>2, <2>1 DEF ThreadFields
  <2>3. slot' = [slot EXCEPT ![r.at] = r.new] /\ Set(t, n) /\ stripe' = StripeReleased(r)
    BY <1>0, <1>3, <2>1 DEF TryReplaceExisting
  <2>4. r.rem = None
    BY <1>2 DEF StepOK
  <2> QED BY <1>0, <1>1, <1>3, <2>2, <2>3, <2>4, ExchangeStep
<1>4. CASE slot[r.at] # r.word
  <2>1. PICK n : n = [r EXCEPT !.pc = "scan", !.left = @ \cup {r.at}, !.at = None, !.word = None]
    OBVIOUS
  <2>2. Set(t, n) /\ UNCHANGED <<slot, segs, locks, dr>>
    BY <1>0, <1>1, <1>4, <2>1 DEF TryReplaceExisting, locks
  <2>3. /\ DOMAIN n = ThreadFields /\ n.pc = "scan" /\ n.phase = r.phase /\ n.new = r.new
        /\ n.old = r.old /\ n.wpin = r.wpin /\ n.then = r.then /\ n.unk = r.unk /\ n.rem = r.rem
        /\ n.key = r.key /\ n.val = r.val /\ n.ttl = r.ttl /\ n.left = r.left \cup {r.at}
    BY <1>2, <2>1 DEF ThreadFields
  <2>4. StepOK(n, "scan")
    BY <1>2, <2>3 DEF StepOK, Writing, WritePhases, AtPcs
  <2>5. WordsOK(n, "scan") /\ NewOK(n)
    BY <1>2, <2>3 DEF WordsOK, WordPcs, MatchPcs, NewOK
  <2>6. ScanOK(n)
    BY <1>1, <1>2, <2>3 DEF ScanOK
  <2> QED BY <1>0, <1>2, <2>2, <2>3, <2>4, <2>5, <2>6, QuietStep DEF DrainPcs
<1> QED BY <1>3, <1>4

\* try_claim_new_slot: under the stripe, with no slot of the key left.
LEMMA ClaimSlotStep ==
  ASSUME IInv, NEW t \in Threads, NEW a \in Slots, TryClaimNewSlot(t, a)
  PROVE  IInv'
<1>0. PICK r : r = th[t]
  OBVIOUS
<1>1. /\ r.pc = "claimslot" /\ slot[a] = None /\ slot' = [slot EXCEPT ![a] = r.new]
      /\ stripe' = StripeReleased(r) /\ UNCHANGED <<segs, ttl, chain, dr>>
      /\ Set(t, Answering(r, "ok"))
  BY <1>0 DEF TryClaimNewSlot
<1>2. /\ DOMAIN r = ThreadFields /\ th[t].pc \notin DrainPcs
      /\ StepOK(r, "claimslot") /\ NewOK(r) /\ ScanOK(r)
  BY <1>0, <1>1, AtStep DEF DrainPcs
<1>3. /\ r.new # None /\ r.key \in Keys /\ r.old = None /\ r.phase = "relock"
      /\ r.left = {} /\ r.unk = None
  BY <1>2 DEF StepOK, Writing
<1>4. r.new \in Location /\ ItemAt(r.new).key = r.key
  BY <1>2, <1>3 DEF NewOK
<1>5. Bound(r.key) = {}
  BY <1>1, <1>2, <1>3 DEF ScanOK
<1>6. slot \in [Slots -> Location \cup {None}] /\ stripe[r.key] = t
  BY <1>0, <1>3 DEF IInv, TypeOK, ThreadOK, LockOK
<1>7. ASSUME NEW k \in Keys, NEW i \in Slots, i \in Bound(k)'
      PROVE  i \in Bound(k) \/ (i = a /\ k = r.key)
  <2>1. CASE i = a
    <3>1. PICK w : w = r.new
      OBVIOUS
    <3>2. slot'[a] = w /\ ItemAt(w).key = r.key
      BY <1>1, <1>4, <1>6, <3>1
    <3>3. ItemAt(w)'.key = k
      BY <1>7, <2>1, <3>2 DEF Bound, ItemAt
    <3> QED BY <1>1, <2>1, <3>2, <3>3 DEF ItemAt, segs
  <2>2. CASE i # a
    BY <1>1, <1>6, <1>7, <2>2 DEF Bound, Resolves, ItemAt, segs
  <2> QED BY <2>1, <2>2
<1>8. \A k \in Keys : \A i \in Bound(k)' : i \in Slots
  BY DEF Bound
<1>9. \A k \in Keys : stripe[k] # t => Bound(k)' \subseteq Bound(k)
  BY <1>6, <1>7, <1>8
<1>10. OneEntry'
  <2> SUFFICES ASSUME NEW k \in Keys, NEW i \in Bound(k)', NEW j \in Bound(k)' PROVE i = j
    BY DEF OneEntry
  <2>1. CASE k = r.key
    BY <1>5, <1>7, <1>8, <2>1
  <2>2. CASE k # r.key
    BY <1>7, <1>8, <2>2 DEF IInv, OneEntry
  <2> QED BY <2>1, <2>2
<1>11. /\ slot' \in [Slots -> Location \cup {None}]
       /\ \A i \in Slots : slot'[i] \in {slot[i], None, th[t].new}
  BY <1>0, <1>1, <1>4, <1>6
<1>12. PICK n : n = Answering(r, "ok")
  OBVIOUS
<1>13. /\ DOMAIN n = ThreadFields /\ n.pc = "done" /\ n.phase = "none"
       /\ n.new = None /\ n.old = None /\ Known(n)
  BY <1>12, AnswerKnown
<1>14. StepOK(n, n.pc) /\ WordsOK(n, n.pc)
  BY <1>13 DEF Known
<1>15. /\ stripe' \in [Keys -> Threads \cup {None}]
       /\ \A k \in Keys, u \in Threads : u # t => (stripe'[k] = u <=> stripe[k] = u)
       /\ \A k \in Keys : stripe'[k] # t
  BY <1>0, <1>1, <1>3, Released
<1>16. /\ th' = [th EXCEPT ![t] = n] /\ n.pc \notin DrainPcs /\ n.phase # "relock"
       /\ th[t].old = None /\ UNCHANGED <<segs, ttl, chain, dr>>
  BY <1>0, <1>1, <1>3, <1>12, <1>13 DEF Set, DrainPcs
<1> QED BY <1>2, <1>9, <1>10, <1>11, <1>13, <1>14, <1>15, <1>16, TableStep

\* A delete's unlink, without a pin or under one.
LEMMA UnlinkStep ==
  ASSUME IInv, NEW t \in Threads, UnlinkUnpinned(t) \/ UnlinkPinned(t)
  PROVE  IInv'
<1>0. PICK r, w : r = th[t] /\ w = r.word
  OBVIOUS
<1>1. /\ r.pc \in {"unlinkfree", "unlink"} /\ UNCHANGED <<segs, locks, dr>>
      /\ slot' = [i \in Slots |-> IF slot[i] = w THEN None ELSE slot[i]]
  BY <1>0 DEF UnlinkUnpinned, UnlinkPinned, Publishing
<1>2. /\ DOMAIN r = ThreadFields /\ th[t].pc \notin DrainPcs
      /\ StepOK(r, r.pc) /\ WordsOK(r, r.pc)
  BY <1>0, <1>1, AtStep DEF DrainPcs
<1>3. /\ r.new = None /\ ~r.wpin /\ r.phase # "relock" /\ r.old = None /\ r.then = "none"
      /\ r.unk \in Location \cup {None} /\ (r.rem # None => r.pc = "unlink")
  BY <1>1, <1>2 DEF StepOK, Writing
<1>4. Issued(w) /\ w \in Location /\ w # None
  BY <1>0, <1>1, <1>2, LocationAssumption DEF WordsOK, WordPcs, Issued
<1>5. /\ slot' \in [Slots -> Location \cup {None}]
      /\ \A i \in Slots : slot'[i] \in {slot[i], None}
      /\ \A i \in Slots : slot'[i] # w
  BY <1>1, <1>4 DEF IInv, TypeOK
<1>6. \A k : Bound(k)' \subseteq Bound(k)
  BY <1>1, <1>5, UnlinkBinds
<1>7. OneEntry'
  BY <1>6, OneEntryKept DEF IInv
<1>8. /\ stripe' \in [Keys -> Threads \cup {None}]
      /\ \A k \in Keys, u \in Threads : u # t => (stripe'[k] = u <=> stripe[k] = u)
      /\ \A k \in Keys : stripe'[k] # t
      /\ UNCHANGED <<segs, ttl, chain, dr>>
  BY <1>0, <1>1, <1>3 DEF IInv, TypeOK, ThreadOK, LockOK, locks
<1>9. ASSUME NEW n, Set(t, n), DOMAIN n = ThreadFields, n.pc \notin DrainPcs, StepOK(n, n.pc),
             WordsOK(n, n.pc), n.new = None, n.phase # "relock",
             n.old # None => (n.old = w /\ \E i \in Slots : slot[i] = w)
      PROVE  IInv'
  <2>1. n.old # None => (\E i \in Slots : slot[i] = n.old) /\ (\A i \in Slots : slot'[i] # n.old)
    BY <1>5, <1>9
  <2>2. \A i \in Slots : slot'[i] \in {slot[i], None, th[t].new}
    BY <1>5
  <2>3. th' = [th EXCEPT ![t] = n] /\ th[t].old = None
    BY <1>0, <1>3, <1>9 DEF Set
  <2> QED BY <1>2, <1>5, <1>6, <1>7, <1>8, <1>9, <2>1, <2>2, <2>3, TableStep
<1>10. ASSUME NEW u, Set(t, Scanning(u, "recheck")) \/ Set(t, Scanning(u, "delete")),
              DOMAIN u = ThreadFields, u.new = None, ~u.wpin, u.old = None, u.rem = None, u.then = "none"
       PROVE  IInv'
  <2>1. PICK ph, n : ph \in {"delete", "recheck"} /\ n = Scanning(u, ph) /\ Set(t, n)
    BY <1>10
  <2>2. /\ DOMAIN n = ThreadFields /\ n.pc = "scan" /\ n.phase = ph
        /\ n.new = None /\ n.old = None /\ Known(n)
    BY <1>10, <2>1, ScanKnown
  <2> QED BY <1>9, <2>1, <2>2 DEF Known, DrainPcs
<1>11. CASE UnlinkUnpinned(t)
  <2>0. r.pc = "unlinkfree" /\ r.rem = None
    BY <1>0, <1>3, <1>11 DEF UnlinkUnpinned
  <2>1. PICK u : u = [r EXCEPT !.unlinked = TRUE]
    OBVIOUS
  <2>2. /\ DOMAIN u = ThreadFields /\ u.new = r.new /\ u.wpin = r.wpin /\ u.old = r.old
        /\ u.rem = r.rem /\ u.then = r.then
    BY <1>2, <2>1 DEF ThreadFields
  <2>3. Set(t, Scanning(u, "recheck")) \/ Set(t, Scanning(r, "delete"))
    BY <1>0, <1>11, <2>1 DEF UnlinkUnpinned
  <2> QED BY <1>2, <1>3, <1>10, <2>0, <2>2, <2>3
<1>12. CASE UnlinkPinned(t) /\ Publishing(w) # {}
  <2>0. r.pc = "unlink" /\ \E i \in Slots : slot[i] = w
    BY <1>0, <1>12 DEF UnlinkPinned, Publishing
  <2>1. PICK n : n = [r EXCEPT !.pc = "remove", !.at = None, !.word = None, !.phase = "none",
                               !.old = r.word, !.then = "deleted"]
    OBVIOUS
  <2>2. /\ DOMAIN n = ThreadFields /\ n.pc = "remove" /\ n.phase = "none" /\ n.new = None
        /\ n.old = w /\ n.wpin = r.wpin /\ n.then = "deleted" /\ n.unk = r.unk
    BY <1>0, <1>2, <1>3, <2>1 DEF ThreadFields
  <2>3. StepOK(n, n.pc)
    BY <1>3, <1>4, <2>2 DEF StepOK, Writing, AtPcs
  <2>4. WordsOK(n, n.pc)
    BY <1>4, <2>2 DEF WordsOK, WordPcs, MatchPcs
  <2>5. Set(t, n)
    BY <1>0, <1>12, <2>1 DEF UnlinkPinned
  <2> QED BY <1>9, <2>0, <2>2, <2>3, <2>4, <2>5 DEF DrainPcs
<1>13. CASE UnlinkPinned(t) /\ Publishing(w) = {}
  <2>1. PICK n : n = Answering([r EXCEPT !.rem = None], Ack(r.unlinked))
    OBVIOUS
  <2>2. /\ DOMAIN n = ThreadFields /\ n.pc = "done" /\ n.phase = "none"
        /\ n.new = None /\ n.old = None /\ Known(n)
    BY <2>1, AnswerKnown
  <2>3. Set(t, n)
    BY <1>0, <1>13, <2>1 DEF UnlinkPinned
  <2> QED BY <1>9, <2>2, <2>3 DEF Known, DrainPcs
<1> QED BY <1>11, <1>12, <1>13

-----------------------------------------------------------------------------
(* Steps of a call that change a segment. *)

\* A reference to an item of s goes.
LEMMA OneRefLess ==
  ASSUME TypeOK, TypeOK', NEW w \in Location, Resolves(w), w \in Refs,
         w.off <= Len(items[w.seg]), gen'[w.seg] = gen[w.seg], items'[w.seg] = items[w.seg],
         \A x \in Refs' : x.seg = w.seg => x \in Refs /\ x # w
  PROVE  w.off \in Outstanding(w.seg) /\ Outstanding(w.seg)' \subseteq Outstanding(w.seg) \ {w.off}
<1>0. PICK s, q : s = w.seg /\ q = w.off
  OBVIOUS
<1>1. s \in Segments /\ q \in Nat \ {0} /\ w = Loc(s, q)
  BY <1>0, CurrentLoc DEF Location
<1>2. Len(items[s]) \in Nat
  BY <1>1 DEF TypeOK
<1>3. q \in Outstanding(s)
  BY <1>0, <1>1, <1>2 DEF Outstanding
<1>4. ASSUME NEW o \in Outstanding(s)' PROVE o \in Outstanding(s) /\ o # q
  <2>1. o \in 1..Len(items[s]) /\ Loc(s, o)' \in Refs'
    BY <1>0 DEF Outstanding
  <2>2. Loc(s, o)' = Loc(s, o) /\ Loc(s, o).seg = s
    BY <1>0 DEF Loc
  <2>3. Loc(s, o) \in Refs /\ Loc(s, o) # w
    BY <1>0, <2>1, <2>2
  <2> QED BY <1>1, <2>1, <2>3 DEF Outstanding
<1>5. Outstanding(s)' \subseteq Outstanding(s) \ {q}
  BY <1>4
<1>6. Outstanding(s)' = Outstanding(w.seg)'
  BY <1>0 DEF Outstanding, Loc
<1> QED BY <1>0, <1>3, <1>5, <1>6

\* A segment gets an item and one reference to it.
LEMMA OneRefMore ==
  ASSUME TypeOK, TypeOK', NEW s \in Segments, NEW x \in Item, gen'[s] = gen[s],
         items'[s] = Append(items[s], x),
         \A w \in Refs' : w.seg = s => w \in Refs \/ w.off = Len(items[s]) + 1
  PROVE  Outstanding(s)' \subseteq Outstanding(s) \cup {Len(items[s]) + 1}
<1> SUFFICES ASSUME NEW o \in Outstanding(s)', o # Len(items[s]) + 1 PROVE o \in Outstanding(s)
  OBVIOUS
<1>1. items[s] \in Seq(Item) /\ Len(items'[s]) = Len(items[s]) + 1 /\ Len(items[s]) \in Nat
  BY DEF TypeOK
<1>2. o \in 1..Len(items[s]) /\ Loc(s, o)' \in Refs'
  BY <1>1 DEF Outstanding
<1>3. Loc(s, o)' = Loc(s, o) /\ Loc(s, o).seg = s /\ Loc(s, o).off = o
  BY DEF Loc
<1>4. Loc(s, o) \in Refs
  BY <1>2, <1>3
<1> QED BY <1>2, <1>4 DEF Outstanding

\* remove_at takes the item off the count, if the incarnation is still there.
LEMMA RemoveStep ==
  ASSUME IInv, NEW t \in Threads, RemoveAt(t)
  PROVE  IInv'
<1>0. PICK r, w, n : /\ r = th[t] /\ w = r.old
                     /\ n = [r EXCEPT !.pc = "tail", !.old = None, !.rem = None]
  OBVIOUS
<1>1. /\ r.pc = "remove" /\ UNCHANGED <<slot, st, gen, items, locks, dr>>
      /\ live' = Removed(w) /\ th' = [th EXCEPT ![t] = n]
  BY <1>0 DEF RemoveAt, Set
<1>2. /\ DOMAIN r = ThreadFields /\ th[t].pc \notin DrainPcs
      /\ StepOK(r, "remove") /\ WordsOK(r, "remove")
  BY <1>0, <1>1, AtStep DEF DrainPcs
<1>3. /\ r.new = None /\ ~r.wpin /\ r.phase # "relock" /\ w # None /\ Issued(w) /\ w \in Location
  BY <1>0, <1>2 DEF StepOK, Writing, WordsOK, Issued
<1>4. /\ DOMAIN n = ThreadFields /\ n.pc = "tail" /\ n.phase = r.phase /\ n.new = None
      /\ n.old = None /\ n.wpin = r.wpin /\ n.then = r.then /\ n.unk = r.unk /\ n.rem = None
      /\ n.key = r.key /\ n.val = r.val /\ n.ttl = r.ttl
  BY <1>0, <1>2, <1>3 DEF ThreadFields
<1>5. TypeOK /\ DOMAIN th = Threads /\ Apart
  BY DEF IInv, TypeOK
<1>6. th'[t] = n /\ \A u \in Threads : u # t => th'[u] = th[u]
  BY <1>1, <1>5
<1>7. TypeOK'
  <2>1. live' \in [Segments -> Int]
    <3>1. live' = live \/ (w.seg \in Segments /\ live' = [live EXCEPT ![w.seg] = @ - 1])
      BY <1>1, <1>3 DEF Removed, Location
    <3> QED BY <1>5, <3>1 DEF TypeOK
  <2> QED BY <1>1, <1>4, <1>5, <1>6, <2>1 DEF TypeOK, locks
<1>8. \A s \in Segments : SegmentStep(s)
  BY <1>1, <1>5 DEF TypeOK, SegmentStep
<1>9. \A k : Bound(k)' = Bound(k)
  BY <1>1 DEF Bound, Resolves, ItemAt
<1>10. Frame(t)
  BY <1>1, <1>4, <1>6, <1>8, <1>9 DEF Frame, locks
<1>11. ThreadOK(t)'
  <2>1. CallPc(t)' = n.pc
    BY <1>4, <1>6 DEF CallPc, DrainPcs
  <2>2. StepOK(n, n.pc)'
    BY <1>2, <1>3, <1>4 DEF StepOK, Writing, AtPcs
  <2>3. WordsOK(n, n.pc)' /\ NewOK(n)' /\ ScanOK(n)'
    BY <1>3, <1>4 DEF WordsOK, NewOK, ScanOK, WordPcs, MatchPcs
  <2>4. CallOK(t)'
    BY <1>6, <2>1, <2>2, <2>3 DEF CallOK
  <2>5. dr[t] = NoDrain /\ dr' = dr
    BY <1>1, <1>2 DEF IInv, ThreadOK, DrainOK
  <2>6. DrainOK(t)'
    BY <1>4, <1>6, <2>5, SentinelAssumption DEF DrainOK, NoDrain, DrainPcs
  <2>7. LockOK(t)'
    BY <1>0, <1>1, <1>2, <1>3, <1>4, <1>6 DEF LockOK, IInv, ThreadOK, DrainPcs, locks
  <2> QED BY <2>4, <2>6, <2>7 DEF ThreadOK
<1>12. SegmentsOK' /\ NoStaleEntry'
  BY <1>1 DEF IInv, SegmentsOK, NoStaleEntry, Resolves, locks
<1>13. OneEntry'
  BY <1>9 DEF IInv, OneEntry
<1>14. Apart'
  BY <1>1, <1>4, <1>5, <1>6 DEF Apart
<1>15. LiveOK'
  <2>1. Refs' \subseteq Refs /\ w \in Refs
    BY <1>0, <1>1, <1>3, <1>4, <1>6, LocationAssumption DEF Refs
  <2>2. w \notin Refs'
    <3>1. \A i \in Slots : slot'[i] # w
      BY <1>0, <1>1, <1>3, <1>5 DEF Apart
    <3>2. \A u \in Threads : u # t => th[u].new # w /\ th[u].old # w
      BY <1>0, <1>3, <1>5 DEF Apart
    <3>3. \A u \in Threads : th'[u].new # w /\ th'[u].old # w
      BY <1>3, <1>4, <1>6, <3>2
    <3> QED BY <3>1, <3>3 DEF Refs
  <2>3. ASSUME NEW s \in Segments PROVE live'[s] >= Cardinality(Outstanding(s)')
    <3>1. live[s] >= Cardinality(Outstanding(s))
      BY DEF IInv, LiveOK
    <3>2. CASE Resolves(w) /\ w.seg = s
      <4>1. live'[s] = live[s] - 1
        BY <1>1, <1>5, <3>2 DEF Removed, TypeOK
      <4>2. w.off <= Len(items[w.seg])
        BY <1>3, <3>2 DEF Issued
      <4>3. w.off \in Outstanding(w.seg) /\ Outstanding(w.seg)' \subseteq Outstanding(w.seg) \ {w.off}
        BY <1>1, <1>3, <1>5, <1>7, <2>1, <2>2, <3>2, <4>2, OneRefLess
      <4>4. PICK o : o = w.off
        OBVIOUS
      <4>5. o \in Outstanding(s) /\ Outstanding(s)' \subseteq Outstanding(s) \ {o}
        BY <3>2, <4>3, <4>4
      <4> QED BY <1>5, <1>7, <3>1, <4>1, <4>5, LiveLess
    <3>3. CASE ~(Resolves(w) /\ w.seg = s)
      <4>1. live'[s] = live[s]
        BY <1>1, <1>5, <3>3 DEF Removed, TypeOK
      <4>2. Outstanding(s)' \subseteq Outstanding(s)
        BY <1>1, <1>5, <1>7, <2>1, NoNewRef
      <4> QED BY <1>5, <1>7, <3>1, <4>1, <4>2, LiveKept
    <3> QED BY <3>2, <3>3
  <2> QED BY <2>3 DEF LiveOK
<1> QED BY <1>7, <1>10, <1>11, <1>12, <1>13, <1>14, <1>15, StepInv

\* The next location of a segment is nobody's yet.
LEMMA FreshLoc ==
  ASSUME IInv, NEW s \in Segments, NEW w, w = Loc(s, Len(items[s]) + 1)
  PROVE  /\ w \in Location /\ w.seg = s /\ w.gen = gen[s] /\ w.off = Len(items[s]) + 1 /\ w # None
         /\ \A i \in Slots : slot[i] # w
         /\ \A u \in Threads : th[u].new # w /\ th[u].old # w
<1>0. TypeOK /\ NoStaleEntry
  BY DEF IInv
<1>1. Len(items[s]) \in Nat
  BY <1>0 DEF TypeOK
<1>2. w \in Location /\ w.seg = s /\ w.gen = gen[s] /\ w.off = Len(items[s]) + 1 /\ w # None
  BY <1>0, <1>1, LocFields, LocationAssumption
<1>3. ~(w.off <= Len(items[w.seg])) /\ Resolves(w)
  BY <1>1, <1>2 DEF Resolves
<1>4. \A i \in Slots : slot[i] # w
  BY <1>0, <1>2, <1>3 DEF NoStaleEntry
<1>5. ASSUME NEW u \in Threads PROVE th[u].new # w /\ th[u].old # w
  <2>1. NewOK(th[u]) /\ (th[u].old # None => Issued(th[u].old))
    BY DEF IInv, ThreadOK, CallOK, WordsOK
  <2> QED BY <1>2, <1>3, <2>1 DEF NewOK, Issued
<1> QED BY <1>2, <1>4, <1>5

\* TtlBucket::reserve and define.
LEMMA ReserveStep ==
  ASSUME IInv, NEW t \in Threads, NEW s \in Segments, Reserve(t, s)
  PROVE  IInv'
<1>0. PICK r, w, x, u, n :
        /\ r = th[t] /\ w = Loc(s, Len(items[s]) + 1) /\ x = [key |-> r.key, val |-> r.val]
        /\ u = [r EXCEPT !.new = w, !.wpin = TRUE] /\ n = Scanning(u, "lookup")
  OBVIOUS
<1>1. /\ r.pc = "reserve" /\ st[s] = "Live"
      /\ items' = [items EXCEPT ![s] = Append(@, x)] /\ live' = [live EXCEPT ![s] = @ + 1]
      /\ th' = [th EXCEPT ![t] = n] /\ UNCHANGED <<slot, st, gen, locks, dr>>
  BY <1>0 DEF Reserve, HasRoom, Set
<1>2. DOMAIN r = ThreadFields /\ th[t].pc \notin DrainPcs /\ StepOK(r, "reserve")
  BY <1>0, <1>1, AtStep DEF DrainPcs
<1>3. /\ r.new = None /\ r.phase # "relock" /\ r.old = None /\ r.rem = None /\ r.then = "none"
      /\ r.key \in Keys /\ r.val \in Values /\ r.ttl \in Buckets
  BY <1>2 DEF StepOK, Writing
<1>4. /\ DOMAIN u = ThreadFields /\ u.new = w /\ u.wpin /\ u.old = None /\ u.rem = None
      /\ u.then = "none" /\ u.key = r.key /\ u.val = r.val /\ u.ttl = r.ttl
  BY <1>0, <1>2, <1>3 DEF ThreadFields
<1>5. /\ DOMAIN n = ThreadFields /\ n.pc = "scan" /\ n.phase = "lookup" /\ n.new = w /\ n.wpin
      /\ n.old = None /\ n.rem = None /\ n.then = "none" /\ n.unk = None
      /\ n.key = r.key /\ n.val = r.val /\ n.ttl = r.ttl
  <2>1. /\ DOMAIN n = ThreadFields /\ n.pc = "scan" /\ n.phase = "lookup" /\ n.new = u.new
        /\ n.wpin = u.wpin /\ n.old = u.old /\ n.rem = u.rem /\ n.then = u.then /\ n.unk = None
        /\ n.key = u.key /\ n.val = u.val /\ n.ttl = u.ttl
    BY <1>0, <1>4 DEF ThreadFields, Scanning
  <2> QED BY <1>4, <2>1
<1>6. TypeOK /\ DOMAIN th = Threads /\ Apart /\ NoStaleEntry
  BY DEF IInv, TypeOK
<1>7. th'[t] = n /\ \A v \in Threads : v # t => th'[v] = th[v]
  BY <1>1, <1>6
<1>8. x \in Item /\ items[s] \in Seq(Item) /\ Len(items[s]) \in Nat /\ live[s] \in Int
  <2>1. x = [key |-> r.key, val |-> r.val]
    BY <1>0
  <2>2. x \in Item
    BY <1>3, <2>1 DEF Item
  <2> QED BY <1>6, <2>2 DEF TypeOK
<1>9. /\ items'[s] = Append(items[s], x) /\ live'[s] = live[s] + 1
      /\ \A e \in Segments : e # s => items'[e] = items[e] /\ live'[e] = live[e]
  BY <1>1, <1>6 DEF TypeOK
<1>10. /\ items'[s] \in Seq(Item) /\ Len(items'[s]) = Len(items[s]) + 1
       /\ \A o \in 1..Len(items[s]) : items'[s][o] = items[s][o]
       /\ items'[s][Len(items[s]) + 1] = x
  BY <1>8, <1>9
<1>11. TypeOK'
  <2>1. items' \in [Segments -> Seq(Item)] /\ live' \in [Segments -> Int]
    BY <1>1, <1>6, <1>8, <1>9, <1>10 DEF TypeOK
  <2> QED BY <1>1, <1>5, <1>6, <1>7, <2>1 DEF TypeOK, locks
<1>12. \A e \in Segments : SegmentStep(e)
  <2>1. SegmentStep(s)
    BY <1>1, <1>8, <1>10 DEF SegmentStep
  <2>2. \A e \in Segments : e # s => SegmentStep(e)
    BY <1>1, <1>6, <1>9 DEF SegmentStep, TypeOK
  <2> QED BY <2>1, <2>2
<1>13. ASSUME NEW k PROVE Bound(k)' \subseteq Bound(k)
  <2> SUFFICES ASSUME NEW i \in Slots, i \in Bound(k)' PROVE i \in Bound(k)
    BY DEF Bound
  <2>1. slot'[i] = slot[i] /\ slot[i] # None
    BY <1>1 DEF Bound
  <2>2. slot[i].seg \in Segments
    BY <1>6, <2>1 DEF TypeOK, Location
  <2> QED BY <1>6, <1>11, <1>12, <2>1, <2>2, BoundKept
<1>14. /\ w \in Location /\ w.seg = s /\ w.gen = gen[s] /\ w.off = Len(items[s]) + 1 /\ w # None
       /\ \A i \in Slots : slot[i] # w
       /\ \A v \in Threads : th[v].new # w /\ th[v].old # w
  BY <1>0, FreshLoc
<1>15. Frame(t)
  <2>1. th'[t].new = w /\ st[w.seg] = "Live"
    BY <1>1, <1>5, <1>7, <1>14
  <2> QED BY <1>1, <1>7, <1>12, <1>13, <2>1 DEF Frame, locks
<1>16. ThreadOK(t)'
  <2>1. CallPc(t)' = n.pc
    BY <1>5, <1>7 DEF CallPc, DrainPcs
  <2>2. StepOK(n, n.pc)'
    BY <1>3, <1>5, <1>14 DEF StepOK, Writing, WritePhases, AtPcs
  <2>3. WordsOK(n, n.pc)' /\ ScanOK(n)'
    BY <1>5 DEF WordsOK, ScanOK, WordPcs, MatchPcs
  <2>4. NewOK(n)'
    <3>1. Resolves(w)'
      BY <1>1, <1>14 DEF Resolves
    <3>2. ItemAt(w)' = x
      BY <1>10, <1>14 DEF ItemAt
    <3>3. x.key = r.key
      BY <1>0
    <3> QED BY <1>1, <1>5, <1>8, <1>10, <1>14, <3>1, <3>2, <3>3 DEF NewOK
  <2>5. CallOK(t)'
    BY <1>7, <2>1, <2>2, <2>3, <2>4 DEF CallOK
  <2>6. dr[t] = NoDrain /\ dr' = dr
    BY <1>1, <1>2 DEF IInv, ThreadOK, DrainOK
  <2>7. DrainOK(t)'
    BY <1>5, <1>7, <2>6, SentinelAssumption DEF DrainOK, NoDrain, DrainPcs
  <2>8. LockOK(t)'
    BY <1>0, <1>1, <1>2, <1>3, <1>5, <1>7 DEF LockOK, IInv, ThreadOK, DrainPcs, locks
  <2> QED BY <2>5, <2>7, <2>8 DEF ThreadOK
<1>17. SegmentsOK'
  BY <1>1 DEF IInv, SegmentsOK, locks
<1>18. NoStaleEntry'
  <2> SUFFICES ASSUME NEW i \in Slots, slot'[i] # None
               PROVE  /\ Resolves(slot[i])'
                      /\ st'[slot'[i].seg] \notin {"Free", "Condemned"}
                      /\ slot'[i].off <= Len(items'[slot'[i].seg])
    BY DEF NoStaleEntry
  <2>1. slot'[i] = slot[i] /\ slot[i].seg \in Segments /\ slot[i].off \in Nat
    BY <1>1, <1>6 DEF TypeOK, Location
  <2>2. Resolves(slot[i]) /\ st[slot[i].seg] \notin {"Free", "Condemned"} /\ slot[i].off <= Len(items[slot[i].seg])
    BY <1>6, <2>1 DEF NoStaleEntry
  <2> QED BY <1>1, <1>8, <1>9, <1>10, <2>1, <2>2 DEF Resolves
<1>19. OneEntry'
  BY <1>13, OneEntryKept DEF IInv
<1>20. Apart'
  <2>1. \A v \in Threads : v # t => th'[v].new # w /\ th'[v].old # w
    BY <1>7, <1>14
  <2> QED BY <1>1, <1>5, <1>6, <1>7, <1>14, <2>1 DEF Apart
<1>21. LiveOK'
  <2>1. \A y \in Refs' : y \in Refs \/ y = w
    BY <1>1, <1>5, <1>7, LocationAssumption DEF Refs
  <2>2. ASSUME NEW e \in Segments PROVE live'[e] >= Cardinality(Outstanding(e)')
    <3>1. live[e] >= Cardinality(Outstanding(e))
      BY DEF IInv, LiveOK
    <3>2. CASE e = s
      <4>1. Outstanding(s)' \subseteq Outstanding(s) \cup {Len(items[s]) + 1}
        BY <1>1, <1>6, <1>8, <1>9, <1>11, <1>14, <2>1, OneRefMore
      <4> QED BY <1>6, <1>9, <1>11, <3>1, <3>2, <4>1, LiveMore
    <3>3. CASE e # s
      <4>1. Outstanding(e)' \subseteq Outstanding(e)
        BY <1>1, <1>6, <1>9, <1>11, <1>14, <2>1, <3>3, NoNewRef
      <4> QED BY <1>6, <1>9, <1>11, <3>1, <3>3, <4>1, LiveKept
    <3> QED BY <3>2, <3>3
  <2> QED BY <2>2 DEF LiveOK
<1> QED BY <1>11, <1>15, <1>16, <1>17, <1>18, <1>19, <1>20, <1>21, StepInv

-----------------------------------------------------------------------------
(* Drains. *)

\* A call from which a drain runs, or that expands its chain, holds nothing.
LEMMA CallAtRest ==
  ASSUME IInv, NEW t \in Threads, CallPc(t) \in {"idle", "reserve", "tail"}
  PROVE  /\ DOMAIN th[t] = ThreadFields
         /\ th[t].new = None /\ th[t].old = None /\ ~th[t].wpin /\ th[t].rem = None
         /\ th[t].phase # "relock"
         /\ \A k \in Keys : stripe[k] # t
<1>1. DOMAIN th[t] = ThreadFields /\ StepOK(th[t], CallPc(t)) /\ LockOK(t)
  BY DEF IInv, TypeOK, ThreadOK, CallOK
<1> QED BY <1>1 DEF StepOK, Writing, LockOK

\* It is the same after a step of the drain.
LEMMA CallResumes ==
  ASSUME IInv, NEW t \in Threads, CallPc(t) \in {"idle", "reserve", "tail"},
         CallPc(t)' = CallPc(t), th'[t] = th[t] \/ \E q : th'[t] = [th[t] EXCEPT !.pc = q]
  PROVE  /\ DOMAIN th'[t] = ThreadFields
         /\ th'[t].new = None /\ th'[t].old = None /\ th'[t].phase = th[t].phase
         /\ CallOK(t)'
<1>0. PICK r, n, p : r = th[t] /\ n = th'[t] /\ p = CallPc(t)
  OBVIOUS
<1>1. /\ DOMAIN r = ThreadFields /\ r.new = None /\ r.old = None /\ ~r.wpin /\ r.phase # "relock"
      /\ StepOK(r, p)
  BY <1>0, CallAtRest DEF IInv, ThreadOK, CallOK
<1>2. /\ DOMAIN n = ThreadFields /\ n.new = r.new /\ n.old = r.old /\ n.phase = r.phase
      /\ n.wpin = r.wpin /\ n.key = r.key /\ n.val = r.val /\ n.ttl = r.ttl /\ n.then = r.then
      /\ n.unk = r.unk /\ n.rem = r.rem /\ n.at = r.at /\ n.left = r.left
  <2>1. CASE n = r
    BY <1>1, <2>1
  <2>2. CASE n # r
    <3>1. PICK q : n = [r EXCEPT !.pc = q]
      BY <1>0, <2>2
    <3> QED BY <1>1, <3>1 DEF ThreadFields
  <2> QED BY <2>1, <2>2
<1>3. p \in {"idle", "reserve", "tail"} /\ CallPc(t)' = p
  BY <1>0
<1>4. StepOK(n, p)'
  BY <1>1, <1>2, <1>3 DEF StepOK, Writing, AtPcs
<1>5. WordsOK(n, p)' /\ NewOK(n)' /\ ScanOK(n)'
  BY <1>1, <1>2, <1>3 DEF WordsOK, NewOK, ScanOK, WordPcs, MatchPcs
<1> QED BY <1>0, <1>1, <1>2, <1>3, <1>4, <1>5 DEF CallOK

\* The parts of the invariant after a step of a drain.
LEMMA DrainStep ==
  ASSUME IInv, NEW t \in Threads, CallPc(t) \in {"idle", "reserve", "tail"},
         CallPc(t)' = CallPc(t), th'[t] = th[t] \/ \E q : th'[t] = [th[t] EXCEPT !.pc = q],
         TypeOK', stripe' = stripe,
         \A u \in Threads : u # t => th'[u] = th[u] /\ dr'[u] = dr[u],
         \A b \in Buckets, u \in Threads : u # t => (chain'[b] = u <=> chain[b] = u),
         \A s \in Segments : SegmentStep(s),
         \A s \in Segments : (\/ st[s] = "Draining" /\ s # dr[t].seg
                              \/ st[s] = "Relinking" /\ s # dr[t].dest)
                             => st'[s] = st[s] /\ ttl'[s] = ttl[s],
         \A s \in Segments : st[s] \in {"Live", "Sealed", "Draining"} =>
           \/ gen'[s] = gen[s] /\ st'[s] \in {"Live", "Sealed", "Draining"}
           \/ \A u \in Threads : u # t /\ th[u].new # None => th[u].new.seg # s,
         \A i \in Slots : \/ slot'[i] \in {slot[i], None}
                          \/ /\ dr[t].dest # None /\ slot'[i].seg = dr[t].dest
                             /\ \A u \in Threads : slot'[i] # th[u].new /\ slot'[i] # th[u].old,
         \A k \in Keys : Bound(k)' \subseteq Bound(k),
         DrainOK(t)', \A b \in Buckets : chain'[b] = t =>
           /\ th'[t].pc \in DrainPcs
           /\ dr'[t].seg # None => b = ttl'[dr'[t].seg]
           /\ dr'[t].seg = None => b = ttl'[dr'[t].dest],
         SegmentsOK', NoStaleEntry', LiveOK'
  PROVE  IInv'
<1>1. /\ DOMAIN th'[t] = ThreadFields
      /\ th'[t].new = None /\ th'[t].old = None /\ th'[t].phase = th[t].phase
      /\ CallOK(t)'
  BY CallResumes
<1>2. th[t].new = None /\ th[t].old = None /\ th[t].phase # "relock" /\ \A k \in Keys : stripe[k] # t
  BY CallAtRest
<1>3. Frame(t)
  BY <1>1, <1>2 DEF Frame
<1>4. LockOK(t)'
  BY <1>1, <1>2 DEF LockOK
<1>5. ThreadOK(t)'
  BY <1>1, <1>4 DEF ThreadOK
<1>6. OneEntry'
  BY OneEntryKept DEF IInv
<1>7. Apart'
  <2>1. Apart
    BY DEF IInv
  <2>2. \A u \in Threads : th'[u].new = th[u].new /\ th'[u].old = th[u].old
    BY <1>1, <1>2
  <2> QED BY <2>1, <2>2 DEF Apart
<1> QED BY <1>3, <1>5, <1>6, <1>7, StepInv

\* Steps that only move segments between states other than Free and Condemned,
\* and locks.
LEMMA PassStep ==
  ASSUME IInv, NEW t \in Threads, CallPc(t) \in {"idle", "reserve", "tail"},
         CallPc(t)' = CallPc(t), NEW q, th' = [th EXCEPT ![t].pc = q] \/ th' = th,
         UNCHANGED <<slot, gen, items, live, stripe>>,
         st' \in [Segments -> SegmentStates], ttl' \in [Segments -> Buckets \cup {None}],
         chain' \in [Buckets -> Threads \cup {None}], DOMAIN dr' = Threads, DOMAIN dr'[t] = DrainFields,
         \A u \in Threads : u # t => dr'[u] = dr[u],
         \A b \in Buckets : chain'[b] = chain[b] \/ ({chain[b], chain'[b]} = {t, None}),
         \A s \in Segments :
            \/ st'[s] = st[s] /\ ttl'[s] = ttl[s]
            \/ st[s] = "Free" /\ st'[s] = "Live" /\ ttl'[s] \in Buckets
            \/ st[s] = "Free" /\ st'[s] = "Relinking"
            \/ st[s] = "Live" /\ st'[s] = "Sealed" /\ ttl'[s] = ttl[s]
            \/ st[s] \in {"Live", "Sealed"} /\ st'[s] = "Draining" /\ ttl'[s] = ttl[s]
            \/ s = dr[t].dest /\ st[s] = "Relinking" /\ st'[s] = "Sealed" /\ ttl'[s] = ttl[s] /\ ttl[s] \in Buckets,
         DrainOK(t)', \A b \in Buckets : chain'[b] = t =>
           /\ th'[t].pc \in DrainPcs
           /\ dr'[t].seg # None => b = ttl'[dr'[t].seg]
           /\ dr'[t].seg = None => b = ttl'[dr'[t].dest]
  PROVE  IInv'
<1>0. TypeOK /\ DOMAIN th = Threads /\ DOMAIN dr = Threads /\ DOMAIN th[t] = ThreadFields
  BY DEF IInv, TypeOK
<1>1. /\ \A u \in Threads : u # t => th'[u] = th[u]
      /\ th'[t] = th[t] \/ th'[t] = [th[t] EXCEPT !.pc = q]
      /\ DOMAIN th' = Threads
  BY <1>0
<1>2. DOMAIN th'[t] = ThreadFields
  BY <1>0, <1>1
<1>3. TypeOK'
  BY <1>0, <1>1, <1>2 DEF TypeOK
<1>4. \A s \in Segments : SegmentStep(s)
  <2> SUFFICES ASSUME NEW s \in Segments PROVE SegmentStep(s)
    OBVIOUS
  <2>1. Len(items[s]) \in Nat /\ items'[s] = items[s] /\ gen'[s] = gen[s]
    BY <1>0 DEF TypeOK
  <2>2. /\ st[s] # "Free" => st'[s] # "Free"
        /\ st[s] \in {"Draining", "Condemned"} => st'[s] \in {"Draining", "Condemned"}
    OBVIOUS
  <2> QED BY <2>1, <2>2 DEF SegmentStep
<1>5. /\ \A s \in Segments : (\/ st[s] = "Draining" /\ s # dr[t].seg
                              \/ st[s] = "Relinking" /\ s # dr[t].dest)
                             => st'[s] = st[s] /\ ttl'[s] = ttl[s]
      /\ \A s \in Segments : st[s] \in {"Live", "Sealed", "Draining"} =>
           gen'[s] = gen[s] /\ st'[s] \in {"Live", "Sealed", "Draining"}
  OBVIOUS
<1>6. \A b \in Buckets, u \in Threads : u # t => (chain'[b] = u <=> chain[b] = u)
  BY SentinelAssumption
<1>7. \A k : Bound(k)' = Bound(k)
  BY DEF Bound, Resolves, ItemAt
<1>8. SegmentsOK'
  BY DEF IInv, SegmentsOK
<1>9. NoStaleEntry'
  <2> SUFFICES ASSUME NEW i \in Slots, slot[i] # None
               PROVE  st'[slot[i].seg] \notin {"Free", "Condemned"}
    BY DEF IInv, NoStaleEntry, Resolves
  <2>1. slot[i].seg \in Segments /\ st[slot[i].seg] \notin {"Free", "Condemned"}
    BY <1>0 DEF TypeOK, Location, IInv, NoStaleEntry
  <2> QED BY <2>1
<1>10. LiveOK'
  <2>1. \A u \in Threads : th'[u].new = th[u].new /\ th'[u].old = th[u].old
    BY <1>1, CallAtRest, CallResumes
  <2>2. Refs' = Refs
    BY <2>1 DEF Refs
  <2> QED BY <2>2 DEF IInv, LiveOK, Outstanding, Loc
<1>11. th'[t] = th[t] \/ \E x : th'[t] = [th[t] EXCEPT !.pc = x]
  BY <1>1
<1> QED BY <1>1, <1>3, <1>4, <1>5, <1>6, <1>7, <1>8, <1>9, <1>10, <1>11, DrainStep

\* What the invariant says of a thread that drains.
LEMMA InDrain ==
  ASSUME IInv, NEW t \in Threads, th[t].pc \in DrainPcs
  PROVE  /\ CallPc(t) = dr[t].ret /\ CallPc(t) \in {"idle", "reserve", "tail"}
         /\ DOMAIN dr[t] = DrainFields /\ DrainOK(t) /\ LockOK(t)
         /\ th[t].new = None /\ th[t].old = None
<1>1. DOMAIN dr[t] = DrainFields /\ DrainOK(t) /\ LockOK(t)
  BY DEF IInv, TypeOK, ThreadOK
<1>2. CallPc(t) = dr[t].ret /\ CallPc(t) \in {"idle", "reserve", "tail"}
  BY <1>1 DEF DrainOK, CallPc
<1> QED BY <1>1, <1>2, CallAtRest

\* try_expand.
LEMMA ExpandStep ==
  ASSUME IInv, NEW t \in Threads, NEW s \in Segments, Expand(t, s)
  PROVE  IInv'
<1>0. PICK b : b = th[t].ttl
  OBVIOUS
<1>1. /\ th[t].pc = "reserve" /\ st[s] = "Free"
      /\ st' = [x \in Segments |-> IF x = s THEN "Live"
                                   ELSE IF st[x] = "Live" /\ ttl[x] = b THEN "Sealed" ELSE st[x]]
      /\ ttl' = [ttl EXCEPT ![s] = b]
      /\ UNCHANGED <<slot, gen, items, live, stripe, chain, th, dr>>
  BY <1>0 DEF Expand
<1>2. th[t].pc \notin DrainPcs /\ StepOK(th[t], "reserve") /\ TypeOK
  BY <1>1, AtStep DEF DrainPcs, IInv
<1>3. b \in Buckets
  BY <1>0, <1>2 DEF StepOK
<1>4. CallPc(t) = "reserve" /\ CallPc(t)' = CallPc(t)
  BY <1>1, <1>2 DEF CallPc
<1>5. st' \in [Segments -> SegmentStates] /\ ttl' \in [Segments -> Buckets \cup {None}]
  BY <1>1, <1>2, <1>3 DEF TypeOK, SegmentStates
<1>6. \A x \in Segments :
            \/ st'[x] = st[x] /\ ttl'[x] = ttl[x]
            \/ st[x] = "Free" /\ st'[x] = "Live" /\ ttl'[x] \in Buckets
            \/ st[x] = "Live" /\ st'[x] = "Sealed" /\ ttl'[x] = ttl[x]
  BY <1>1, <1>2, <1>3 DEF TypeOK
<1>7. dr[t] = NoDrain
  BY <1>2 DEF IInv, ThreadOK, DrainOK
<1>8. DrainOK(t)'
  BY <1>1, <1>7, SentinelAssumption DEF DrainOK, NoDrain, DrainPcs
<1>9. \A x \in Buckets : chain'[x] # t
  BY <1>1, <1>2 DEF IInv, ThreadOK, LockOK
<1>10. /\ chain' \in [Buckets -> Threads \cup {None}] /\ DOMAIN dr' = Threads /\ DOMAIN dr'[t] = DrainFields
  BY <1>1, <1>2 DEF TypeOK
<1> QED BY <1>1, <1>4, <1>5, <1>6, <1>8, <1>9, <1>10, PassStep

\* claim_for_drain's CAS, under the chain lock.
LEMMA ClaimStep ==
  ASSUME IInv, NEW t \in Threads, NEW s \in Segments, ClaimForDrain(t, s)
  PROVE  IInv'
<1>0. PICK p, d : p = th[t].pc /\ d = [NoDrain EXCEPT !.seg = s, !.ret = p]
  OBVIOUS
<1>1. /\ p \in {"idle", "reserve", "tail"} /\ st[s] \in {"Sealed", "Live"} /\ chain[ttl[s]] = None
      /\ chain' = [chain EXCEPT ![ttl[s]] = t] /\ st' = [st EXCEPT ![s] = "Draining"]
      /\ dr' = [dr EXCEPT ![t] = d] /\ th' = [th EXCEPT ![t].pc = "quiesce"]
      /\ UNCHANGED <<slot, gen, items, live, stripe, ttl>>
  BY <1>0 DEF ClaimForDrain
<1>2. TypeOK /\ DOMAIN dr = Threads /\ DOMAIN th = Threads /\ DOMAIN th[t] = ThreadFields /\ LockOK(t)
  BY DEF IInv, TypeOK, ThreadOK
<1>3. /\ dr'[t] = d /\ DOMAIN d = DrainFields /\ d.seg = s /\ d.ret = p /\ d.dest = None
  BY <1>0, <1>1, <1>2 DEF NoDrain, DrainFields
<1>4. th'[t].pc = "quiesce" /\ p \notin DrainPcs
  BY <1>1, <1>2 DEF ThreadFields, DrainPcs
<1>5. CallPc(t) = p /\ CallPc(t)' = p
  BY <1>0, <1>3, <1>4 DEF CallPc, DrainPcs
<1>6. ttl[s] \in Buckets
  BY <1>1 DEF IInv, SegmentsOK
<1>7. /\ st' \in [Segments -> SegmentStates] /\ chain' \in [Buckets -> Threads \cup {None}]
      /\ DOMAIN dr' = Threads /\ ttl' \in [Segments -> Buckets \cup {None}]
      /\ \A u \in Threads : u # t => dr'[u] = dr[u]
  BY <1>1, <1>2 DEF TypeOK, SegmentStates
<1>8. \A b \in Buckets : chain'[b] = chain[b] \/ ({chain[b], chain'[b]} = {t, None})
  BY <1>1, <1>2 DEF TypeOK
<1>9. \A x \in Segments :
            \/ st'[x] = st[x] /\ ttl'[x] = ttl[x]
            \/ st[x] \in {"Live", "Sealed"} /\ st'[x] = "Draining" /\ ttl'[x] = ttl[x]
  BY <1>1, <1>2 DEF TypeOK
<1>10. st'[s] = "Draining" /\ ttl'[s] \in Buckets /\ chain'[ttl'[s]] = t
  BY <1>1, <1>2, <1>6 DEF TypeOK
<1>11. DrainOK(t)'
  BY <1>1, <1>3, <1>4, <1>10 DEF DrainOK, DrainPcs
<1>12. \A b \in Buckets : chain'[b] = t => b = ttl'[s]
  BY <1>0, <1>1, <1>2, <1>4, <1>6 DEF LockOK, TypeOK
<1>13. \A b \in Buckets : chain'[b] = t =>
           /\ th'[t].pc \in DrainPcs
           /\ dr'[t].seg # None => b = ttl'[dr'[t].seg]
           /\ dr'[t].seg = None => b = ttl'[dr'[t].dest]
  BY <1>3, <1>4, <1>12, SentinelAssumption DEF DrainPcs
<1>14. CallPc(t) \in {"idle", "reserve", "tail"} /\ CallPc(t)' = CallPc(t) /\ DOMAIN dr'[t] = DrainFields
  BY <1>1, <1>3, <1>5
<1> QED BY <1>1, <1>7, <1>8, <1>9, <1>11, <1>13, <1>14, PassStep

\* A step within a drain: the call that runs it is where it was.
LEMMA DrainGoesOn ==
  ASSUME IInv, NEW t \in Threads, th[t].pc \in DrainPcs, NEW q \in DrainPcs, NEW e,
         th' = [th EXCEPT ![t].pc = q], dr' = [dr EXCEPT ![t] = e],
         e.ret = dr[t].ret, DOMAIN e = DrainFields
  PROVE  /\ th'[t].pc = q /\ dr'[t] = e
         /\ \A u \in Threads : u # t => th'[u] = th[u] /\ dr'[u] = dr[u]
         /\ \A u \in Threads : th'[u].new = th[u].new
         /\ CallPc(t) \in {"idle", "reserve", "tail"} /\ CallPc(t)' = CallPc(t)
         /\ DOMAIN dr' = Threads /\ DOMAIN dr'[t] = DrainFields
<1>1. DOMAIN dr = Threads /\ DOMAIN th = Threads /\ DOMAIN th[t] = ThreadFields
  BY DEF IInv, TypeOK
<1>2. th'[t].pc = q /\ th'[t].new = th[t].new /\ dr'[t] = e
  BY <1>1 DEF ThreadFields
<1>3. \A u \in Threads : u # t => th'[u] = th[u] /\ dr'[u] = dr[u]
  BY <1>1
<1>4. CallPc(t) \in {"idle", "reserve", "tail"} /\ CallPc(t) = dr[t].ret
  BY InDrain
<1>5. CallPc(t)' = e.ret
  BY <1>2 DEF CallPc
<1> QED BY <1>1, <1>2, <1>3, <1>4, <1>5

\* The waits for writers and removers are over.
LEMMA QuiesceStep ==
  ASSUME IInv, NEW t \in Threads, Quiesce(t)
  PROVE  IInv'
<1>0. PICK d : d = dr[t]
  OBVIOUS
<1>1. /\ th[t].pc = "quiesce" /\ PinsWriter(d.seg) = {}
      /\ UNCHANGED <<slot, gen, items, live, stripe, chain>>
  BY <1>0 DEF Quiesce, Quiesced
<1>2. /\ TypeOK /\ DOMAIN d = DrainFields /\ DrainOK(t) /\ LockOK(t)
  BY <1>0 DEF IInv, TypeOK, ThreadOK
<1>3. /\ d.seg \in Segments /\ st[d.seg] = "Draining" /\ ttl[d.seg] \in Buckets
      /\ chain[ttl[d.seg]] = t /\ d.ret \in {"idle", "reserve", "tail"}
      /\ d.dest # None =>
           /\ d.dest \in Segments /\ st[d.dest] = "Relinking" /\ ttl[d.dest] \in Buckets
           /\ chain[ttl[d.dest]] = t /\ ttl[d.dest] = ttl[d.seg]
  BY <1>0, <1>1, <1>2, SentinelAssumption DEF DrainOK, DrainPcs
<1>4. \A u \in Threads : th[u].new # None => th[u].new.seg # d.seg
  <2>1. \A u \in Threads : th[u].new # None => th[u].wpin
    BY DEF IInv, ThreadOK, CallOK, StepOK
  <2> QED BY <1>1, <2>1 DEF PinsWriter
<1>5. \A b \in Buckets : chain[b] = t => b = ttl[d.seg]
  BY <1>0, <1>2, <1>3, SentinelAssumption DEF LockOK
<1>6. ASSUME NEW q \in {"sweep", "copy"}, NEW e, th' = [th EXCEPT ![t].pc = q],
             dr' = [dr EXCEPT ![t] = e], DOMAIN e = DrainFields, e.seg = d.seg, e.ret = d.ret, e.j = 1,
             UNCHANGED <<st, ttl>>, e.dest = d.dest, q = "copy" => d.dest # None
      PROVE  IInv'
  <2>1. /\ th'[t].pc = q /\ dr'[t] = e
        /\ \A u \in Threads : u # t => th'[u] = th[u] /\ dr'[u] = dr[u]
        /\ \A u \in Threads : th'[u].new = th[u].new
        /\ CallPc(t) \in {"idle", "reserve", "tail"} /\ CallPc(t)' = CallPc(t)
        /\ DOMAIN dr' = Threads /\ DOMAIN dr'[t] = DrainFields
    BY <1>0, <1>1, <1>6, DrainGoesOn DEF DrainPcs
  <2>2. \A i \in Slots : slot[i] # None => slot[i].off >= 1
    BY <1>2 DEF TypeOK, Location
  <2>3. DrainOK(t)'
    BY <1>1, <1>3, <1>4, <1>6, <2>1, <2>2 DEF DrainOK, DrainPcs
  <2>4. \A b \in Buckets : chain'[b] = t =>
           /\ th'[t].pc \in DrainPcs
           /\ dr'[t].seg # None => b = ttl'[dr'[t].seg]
           /\ dr'[t].seg = None => b = ttl'[dr'[t].dest]
    BY <1>1, <1>3, <1>5, <1>6, <2>1, SentinelAssumption DEF DrainPcs
  <2>5. /\ st' \in [Segments -> SegmentStates] /\ chain' \in [Buckets -> Threads \cup {None}]
        /\ ttl' \in [Segments -> Buckets \cup {None}]
    BY <1>1, <1>2, <1>6 DEF TypeOK
  <2> QED BY <1>1, <1>6, <2>1, <2>3, <2>4, <2>5, PassStep
<1>7. ASSUME NEW e \in Segments, NEW kind, st[e] = "Free", st' = [st EXCEPT ![e] = "Relinking"],
             ttl' = [ttl EXCEPT ![e] = ttl[d.seg]], th' = [th EXCEPT ![t].pc = "copy"],
             NEW f, f = [d EXCEPT !.j = 1, !.kind = kind, !.dest = e], dr' = [dr EXCEPT ![t] = f]
      PROVE  IInv'
  <2>0. DOMAIN f = DrainFields /\ f.seg = d.seg /\ f.ret = d.ret /\ f.j = 1 /\ f.dest = e
    BY <1>2, <1>7 DEF DrainFields
  <2>1. /\ th'[t].pc = "copy" /\ dr'[t] = f
        /\ \A u \in Threads : u # t => th'[u] = th[u] /\ dr'[u] = dr[u]
        /\ \A u \in Threads : th'[u].new = th[u].new
        /\ CallPc(t) \in {"idle", "reserve", "tail"} /\ CallPc(t)' = CallPc(t)
        /\ DOMAIN dr' = Threads /\ DOMAIN dr'[t] = DrainFields
    <3>1. PICK q : q = "copy"
      OBVIOUS
    <3>2. q \in DrainPcs /\ th[t].pc \in DrainPcs /\ th' = [th EXCEPT ![t].pc = q]
      BY <1>1, <1>7, <3>1 DEF DrainPcs
    <3>3. dr' = [dr EXCEPT ![t] = f] /\ f.ret = dr[t].ret
      BY <1>0, <1>7, <2>0
    <3> QED BY <2>0, <3>1, <3>2, <3>3, DrainGoesOn
  <2>2. /\ st'[d.seg] = "Draining" /\ st'[e] = "Relinking"
        /\ ttl'[d.seg] = ttl[d.seg] /\ ttl'[e] = ttl[d.seg]
    BY <1>2, <1>3, <1>7 DEF TypeOK
  <2>3. DrainOK(t)'
    BY <1>1, <1>3, <1>4, <2>0, <2>1, <2>2, SentinelAssumption DEF DrainOK, DrainPcs
  <2>4. \A b \in Buckets : chain'[b] = t =>
           /\ th'[t].pc \in DrainPcs
           /\ dr'[t].seg # None => b = ttl'[dr'[t].seg]
           /\ dr'[t].seg = None => b = ttl'[dr'[t].dest]
    BY <1>1, <1>3, <1>5, <2>0, <2>1, <2>2, SentinelAssumption DEF DrainPcs
  <2>5. /\ st' \in [Segments -> SegmentStates] /\ chain' \in [Buckets -> Threads \cup {None}]
        /\ ttl' \in [Segments -> Buckets \cup {None}]
    BY <1>1, <1>2, <1>3, <1>7 DEF TypeOK, SegmentStates
  <2>6. \A x \in Segments :
            \/ st'[x] = st[x] /\ ttl'[x] = ttl[x]
            \/ st[x] = "Free" /\ st'[x] = "Relinking"
    BY <1>2, <1>7 DEF TypeOK
  <2>7. th' = [th EXCEPT ![t].pc = "copy"] /\ UNCHANGED <<slot, gen, items, live, stripe, chain>>
    BY <1>1, <1>7
  <2> QED BY <2>1, <2>3, <2>4, <2>5, <2>6, <2>7, PassStep
<1>8. CASE /\ d.dest = None /\ dr' = [dr EXCEPT ![t].j = 1, ![t].kind = "drop"]
           /\ th' = [th EXCEPT ![t].pc = "sweep"] /\ UNCHANGED <<st, ttl>>
  <2>1. PICK e : e = [d EXCEPT !.j = 1, !.kind = "drop"]
    OBVIOUS
  <2>2. dr' = [dr EXCEPT ![t] = e]
    BY <1>0, <1>8, <2>1
  <2>3. DOMAIN e = DrainFields /\ e.seg = d.seg /\ e.ret = d.ret /\ e.j = 1 /\ e.dest = d.dest
    BY <1>2, <2>1 DEF DrainFields
  <2> QED BY <1>6, <1>8, <2>2, <2>3
<1>9. CASE /\ d.dest # None /\ dr' = [dr EXCEPT ![t].j = 1]
           /\ th' = [th EXCEPT ![t].pc = "copy"] /\ UNCHANGED <<st, ttl>>
  <2>1. PICK e : e = [d EXCEPT !.j = 1]
    OBVIOUS
  <2>2. dr' = [dr EXCEPT ![t] = e]
    BY <1>0, <1>9, <2>1
  <2>3. DOMAIN e = DrainFields /\ e.seg = d.seg /\ e.ret = d.ret /\ e.j = 1 /\ e.dest = d.dest
    BY <1>2, <2>1 DEF DrainFields
  <2> QED BY <1>6, <1>9, <2>2, <2>3
<1>10. CASE \E e \in Segments, kind \in {"merge", "promote"} :
                /\ st[e] = "Free"
                /\ st' = [st EXCEPT ![e] = "Relinking"]
                /\ ttl' = [ttl EXCEPT ![e] = ttl[d.seg]]
                /\ dr' = [dr EXCEPT ![t].j = 1, ![t].kind = kind, ![t].dest = e]
                /\ th' = [th EXCEPT ![t].pc = "copy"]
  <2>1. PICK e \in Segments, kind \in {"merge", "promote"} :
                /\ st[e] = "Free"
                /\ st' = [st EXCEPT ![e] = "Relinking"]
                /\ ttl' = [ttl EXCEPT ![e] = ttl[d.seg]]
                /\ dr' = [dr EXCEPT ![t].j = 1, ![t].kind = kind, ![t].dest = e]
                /\ th' = [th EXCEPT ![t].pc = "copy"]
    BY <1>10
  <2>2. PICK f : f = [d EXCEPT !.j = 1, !.kind = kind, !.dest = e]
    OBVIOUS
  <2>3. dr' = [dr EXCEPT ![t] = f]
    BY <1>0, <2>1, <2>2
  <2> QED BY <1>7, <2>1, <2>2, <2>3
<1> QED BY <1>0, <1>8, <1>9, <1>10 DEF Quiesce

\* The same for any step that stays in the drain.
LEMMA DrainMoves ==
  ASSUME IInv, NEW t \in Threads, th[t].pc \in DrainPcs, NEW q,
         th' = [th EXCEPT ![t].pc = q] \/ th' = th, th'[t].pc \in DrainPcs,
         dr'[t].ret = dr[t].ret
  PROVE  /\ \A u \in Threads : u # t => th'[u] = th[u]
         /\ \A u \in Threads : th'[u].new = th[u].new
         /\ CallPc(t) \in {"idle", "reserve", "tail"} /\ CallPc(t)' = CallPc(t)
<1>1. DOMAIN th = Threads /\ DOMAIN th[t] = ThreadFields
  BY DEF IInv, TypeOK
<1>2. th'[t].new = th[t].new
  BY <1>1 DEF ThreadFields
<1>3. \A u \in Threads : u # t => th'[u] = th[u]
  BY <1>1
<1>4. CallPc(t) \in {"idle", "reserve", "tail"} /\ CallPc(t) = dr[t].ret
  BY InDrain
<1>5. CallPc(t)' = dr'[t].ret
  BY DEF CallPc
<1> QED BY <1>2, <1>3, <1>4, <1>5

\* A drain that copies.
LEMMA AtCopy ==
  ASSUME IInv, NEW t \in Threads, th[t].pc \in {"copy", "relink", "sweep"}, NEW d, d = dr[t]
  PROVE  /\ d.seg \in Segments /\ st[d.seg] = "Draining" /\ ttl[d.seg] \in Buckets
         /\ chain[ttl[d.seg]] = t /\ d.ret \in {"idle", "reserve", "tail"}
         /\ d.j \in Nat \ {0}
         /\ \A u \in Threads : th[u].new # None => th[u].new.seg # d.seg
         /\ d.dest # None =>
              /\ d.dest \in Segments /\ st[d.dest] = "Relinking" /\ ttl[d.dest] \in Buckets
              /\ chain[ttl[d.dest]] = t /\ ttl[d.dest] = ttl[d.seg] /\ d.dest # d.seg
         /\ th[t].pc \in {"copy", "relink"} => d.dest # None
         /\ \A b \in Buckets : chain[b] = t => b = ttl[d.seg]
         /\ DOMAIN d = DrainFields /\ DOMAIN dr = Threads
<1>1. /\ DOMAIN dr = Threads /\ DOMAIN d = DrainFields /\ DrainOK(t) /\ LockOK(t)
  BY DEF IInv, TypeOK, ThreadOK
<1>2. /\ d.seg \in Segments /\ st[d.seg] = "Draining" /\ ttl[d.seg] \in Buckets
      /\ chain[ttl[d.seg]] = t /\ d.ret \in {"idle", "reserve", "tail"}
      /\ d.j \in Nat \ {0}
      /\ \A u \in Threads : th[u].new # None => th[u].new.seg # d.seg
      /\ th[t].pc \in {"copy", "relink"} => d.dest # None
  BY <1>1 DEF DrainOK, DrainPcs
<1>3. d.dest # None =>
        /\ d.dest \in Segments /\ st[d.dest] = "Relinking" /\ ttl[d.dest] \in Buckets
        /\ chain[ttl[d.dest]] = t /\ ttl[d.dest] = ttl[d.seg] /\ d.dest # d.seg
  BY <1>1, <1>2, SentinelAssumption DEF DrainOK
<1>4. \A b \in Buckets : chain[b] = t => b = ttl[d.seg]
  BY <1>1, <1>2, SentinelAssumption DEF LockOK
<1> QED BY <1>1, <1>2, <1>3, <1>4

\* copy_into looks at one item.
LEMMA CopyItemStep ==
  ASSUME IInv, NEW t \in Threads, CopyItem(t)
  PROVE  IInv'
<1>0. PICK d, q : d = dr[t] /\ q = "relink"
  OBVIOUS
<1>1. /\ th[t].pc = "copy" /\ UNCHANGED <<slot, st, gen, items, live, stripe, ttl, chain>>
  BY DEF CopyItem, segs, locks
<1>2. /\ d.seg \in Segments /\ st[d.seg] = "Draining" /\ ttl[d.seg] \in Buckets
      /\ chain[ttl[d.seg]] = t /\ d.ret \in {"idle", "reserve", "tail"}
      /\ d.j \in Nat \ {0}
      /\ \A u \in Threads : th[u].new # None => th[u].new.seg # d.seg
      /\ d.dest # None /\ d.dest \in Segments /\ st[d.dest] = "Relinking" /\ ttl[d.dest] \in Buckets
      /\ chain[ttl[d.dest]] = t /\ ttl[d.dest] = ttl[d.seg]
      /\ \A b \in Buckets : chain[b] = t => b = ttl[d.seg]
      /\ DOMAIN d = DrainFields /\ DOMAIN dr = Threads /\ th[t].pc \in DrainPcs
  BY <1>0, <1>1, AtCopy DEF DrainPcs
<1>3. TypeOK /\ DOMAIN th = Threads /\ DOMAIN th[t] = ThreadFields
  BY DEF IInv, TypeOK
<1>4. /\ th' = [th EXCEPT ![t].pc = q] \/ th' = th
      /\ th'[t].pc \in {"copy", "relink"} /\ DOMAIN dr' = Threads
      /\ \A u \in Threads : u # t => dr'[u] = dr[u]
      /\ DOMAIN dr'[t] = DrainFields /\ dr'[t].seg = d.seg /\ dr'[t].dest = d.dest
      /\ dr'[t].ret = d.ret /\ dr'[t].j \in Nat \ {0}
  <2>1. CASE th' = th /\ dr' = [dr EXCEPT ![t].j = @ + 1]
    <3>1. PICK e : e = [d EXCEPT !.j = @ + 1]
      OBVIOUS
    <3>2. DOMAIN dr' = Threads /\ dr'[t] = e /\ \A u \in Threads : u # t => dr'[u] = dr[u]
      BY <1>0, <1>2, <2>1, <3>1
    <3>3. /\ DOMAIN e = DrainFields /\ e.seg = d.seg /\ e.ret = d.ret /\ e.dest = d.dest
          /\ e.j = d.j + 1
      BY <1>2, <3>1 DEF DrainFields
    <3>4. e.j \in Nat \ {0}
      BY <1>2, <3>3
    <3> QED BY <1>1, <2>1, <3>2, <3>3, <3>4
  <2>2. CASE th' = [th EXCEPT ![t].pc = "relink"] /\ dr' = dr
    BY <1>0, <1>2, <1>3, <2>2 DEF ThreadFields
  <2> QED BY <2>1, <2>2 DEF CopyItem
<1>5. /\ \A u \in Threads : u # t => th'[u] = th[u]
      /\ \A u \in Threads : th'[u].new = th[u].new
      /\ CallPc(t) \in {"idle", "reserve", "tail"} /\ CallPc(t)' = CallPc(t)
  <2>1. th'[t].pc \in DrainPcs /\ dr'[t].ret = dr[t].ret
    BY <1>0, <1>4 DEF DrainPcs
  <2> QED BY <1>2, <1>4, <2>1, DrainMoves
<1>6. DrainOK(t)'
  BY <1>1, <1>2, <1>4, <1>5 DEF DrainOK, DrainPcs
<1>7. \A b \in Buckets : chain'[b] = t =>
         /\ th'[t].pc \in DrainPcs
         /\ dr'[t].seg # None => b = ttl'[dr'[t].seg]
         /\ dr'[t].seg = None => b = ttl'[dr'[t].dest]
  BY <1>1, <1>2, <1>4, SentinelAssumption DEF DrainPcs
<1>8. /\ st' \in [Segments -> SegmentStates] /\ chain' \in [Buckets -> Threads \cup {None}]
      /\ ttl' \in [Segments -> Buckets \cup {None}]
  BY <1>1, <1>3 DEF TypeOK
<1> QED BY <1>1, <1>4, <1>5, <1>6, <1>7, <1>8, PassStep

\* The copying is over.
LEMMA CopyOverStep ==
  ASSUME IInv, NEW t \in Threads, CopyOver(t)
  PROVE  IInv'
<1>0. PICK d, q, e : /\ d = dr[t] /\ q = "sweep"
                     /\ e = [d EXCEPT !.j = 1, !.dest = IF d.kind = "promote" THEN None ELSE @]
  OBVIOUS
<1>1. /\ th[t].pc = "copy" /\ UNCHANGED <<slot, gen, items, live, stripe, ttl, chain>>
      /\ th' = [th EXCEPT ![t].pc = q]
      /\ st' = IF d.kind = "promote" THEN [st EXCEPT ![d.dest] = "Sealed"] ELSE st
  BY <1>0 DEF CopyOver, locks
<1>2. /\ d.seg \in Segments /\ st[d.seg] = "Draining" /\ ttl[d.seg] \in Buckets
      /\ chain[ttl[d.seg]] = t /\ d.ret \in {"idle", "reserve", "tail"}
      /\ \A u \in Threads : th[u].new # None => th[u].new.seg # d.seg
      /\ d.dest # None /\ d.dest \in Segments /\ st[d.dest] = "Relinking" /\ ttl[d.dest] \in Buckets
      /\ chain[ttl[d.dest]] = t /\ ttl[d.dest] = ttl[d.seg] /\ d.dest # d.seg
      /\ \A b \in Buckets : chain[b] = t => b = ttl[d.seg]
      /\ DOMAIN d = DrainFields /\ DOMAIN dr = Threads /\ th[t].pc \in DrainPcs
  BY <1>0, <1>1, AtCopy DEF DrainPcs
<1>3. TypeOK /\ DOMAIN th = Threads /\ DOMAIN th[t] = ThreadFields
  BY DEF IInv, TypeOK
<1>4. th'[t].pc = "sweep"
  BY <1>0, <1>1, <1>3 DEF ThreadFields
<1>5. DOMAIN dr' = Threads /\ dr'[t] = e /\ \A u \in Threads : u # t => dr'[u] = dr[u]
  BY <1>0, <1>2 DEF CopyOver
<1>6. /\ DOMAIN e = DrainFields /\ e.seg = d.seg /\ e.ret = d.ret /\ e.j = 1
      /\ d.kind = "promote" => e.dest = None
      /\ d.kind # "promote" => e.dest = d.dest
  BY <1>0, <1>2 DEF DrainFields
<1>7. /\ \A u \in Threads : u # t => th'[u] = th[u]
      /\ \A u \in Threads : th'[u].new = th[u].new
      /\ CallPc(t) \in {"idle", "reserve", "tail"} /\ CallPc(t)' = CallPc(t)
  <2>1. th'[t].pc \in DrainPcs /\ dr'[t].ret = dr[t].ret
    BY <1>0, <1>4, <1>5, <1>6 DEF DrainPcs
  <2> QED BY <1>1, <1>2, <2>1, DrainMoves
<1>8. /\ st' \in [Segments -> SegmentStates] /\ chain' \in [Buckets -> Threads \cup {None}]
      /\ ttl' \in [Segments -> Buckets \cup {None}]
  BY <1>1, <1>2, <1>3 DEF TypeOK, SegmentStates
<1>9. /\ st'[d.seg] = "Draining" /\ (d.kind # "promote" => st'[d.dest] = "Relinking")
      /\ \A s \in Segments : \/ st'[s] = st[s] /\ ttl'[s] = ttl[s]
                             \/ /\ s = dr[t].dest /\ st[s] = "Relinking" /\ st'[s] = "Sealed"
                                /\ ttl'[s] = ttl[s] /\ ttl[s] \in Buckets
  BY <1>0, <1>1, <1>2, <1>3 DEF TypeOK
<1>10. \A i \in Slots : slot[i] # None => slot[i].off >= 1
  BY <1>3 DEF TypeOK, Location
<1>11. DrainOK(t)'
  BY <1>1, <1>2, <1>4, <1>5, <1>6, <1>7, <1>9, <1>10 DEF DrainOK, DrainPcs
<1>12. \A b \in Buckets : chain'[b] = t =>
         /\ th'[t].pc \in DrainPcs
         /\ dr'[t].seg # None => b = ttl'[dr'[t].seg]
         /\ dr'[t].seg = None => b = ttl'[dr'[t].dest]
  BY <1>1, <1>2, <1>4, <1>5, <1>6, SentinelAssumption DEF DrainPcs
<1>13. th' = [th EXCEPT ![t].pc = q] \/ th' = th
  BY <1>1
<1> QED BY <1>1, <1>5, <1>6, <1>7, <1>8, <1>9, <1>11, <1>12, <1>13, PassStep

\* merge_evict claims its next candidate, or publishes what it has copied.
LEMMA NextCandidateStep ==
  ASSUME IInv, NEW t \in Threads, NextCandidate(t)
  PROVE  IInv'
<1>0. PICK d : d = dr[t]
  OBVIOUS
<1>1. /\ th[t].pc = "nextcand" /\ UNCHANGED <<slot, gen, items, live, stripe, ttl>>
  BY DEF NextCandidate
<1>2. /\ TypeOK /\ DOMAIN th = Threads /\ DOMAIN th[t] = ThreadFields /\ SegmentsOK
      /\ DOMAIN dr = Threads /\ DOMAIN d = DrainFields /\ DrainOK(t) /\ LockOK(t)
  BY <1>0 DEF IInv, TypeOK, ThreadOK
<1>3. /\ d.seg = None /\ d.dest \in Segments /\ st[d.dest] = "Relinking" /\ ttl[d.dest] \in Buckets
      /\ chain[ttl[d.dest]] = t /\ d.ret \in {"idle", "reserve", "tail"} /\ d.dest # None
      /\ \A b \in Buckets : chain[b] = t => b = ttl[d.dest]
  BY <1>0, <1>1, <1>2 DEF DrainOK, DrainPcs, LockOK
<1>4. ASSUME NEW s \in Segments, st[s] = "Sealed", ttl[s] = ttl[d.dest],
             st' = [st EXCEPT ![s] = "Draining"], dr' = [dr EXCEPT ![t].seg = s],
             th' = [th EXCEPT ![t].pc = "quiesce"], chain' = chain
      PROVE  IInv'
  <2>0. PICK q, e : q = "quiesce" /\ e = [d EXCEPT !.seg = s]
    OBVIOUS
  <2>1. th' = [th EXCEPT ![t].pc = q] \/ th' = th
    BY <1>4, <2>0
  <2>2. th'[t].pc = "quiesce"
    BY <1>2, <1>4 DEF ThreadFields
  <2>3. DOMAIN dr' = Threads /\ dr'[t] = e /\ \A u \in Threads : u # t => dr'[u] = dr[u]
    BY <1>0, <1>2, <1>4, <2>0
  <2>4. DOMAIN e = DrainFields /\ e.seg = s /\ e.ret = d.ret /\ e.dest = d.dest
    BY <1>2, <2>0 DEF DrainFields
  <2>5. /\ \A u \in Threads : u # t => th'[u] = th[u]
        /\ \A u \in Threads : th'[u].new = th[u].new
        /\ CallPc(t) \in {"idle", "reserve", "tail"} /\ CallPc(t)' = CallPc(t)
    <3>1. th'[t].pc \in DrainPcs /\ th[t].pc \in DrainPcs /\ dr'[t].ret = dr[t].ret
      BY <1>0, <1>1, <2>2, <2>3, <2>4 DEF DrainPcs
    <3> QED BY <2>1, <3>1, DrainMoves
  <2>6. /\ st' \in [Segments -> SegmentStates] /\ chain' \in [Buckets -> Threads \cup {None}]
        /\ ttl' \in [Segments -> Buckets \cup {None}]
    BY <1>1, <1>2, <1>4 DEF TypeOK, SegmentStates
  <2>7. /\ st'[s] = "Draining" /\ st'[d.dest] = "Relinking"
        /\ \A x \in Segments : \/ st'[x] = st[x] /\ ttl'[x] = ttl[x]
                               \/ /\ st[x] \in {"Live", "Sealed"} /\ st'[x] = "Draining"
                                  /\ ttl'[x] = ttl[x]
    BY <1>1, <1>2, <1>3, <1>4 DEF TypeOK
  <2>8. DrainOK(t)'
    <3>1. /\ ttl'[s] = ttl[d.dest] /\ ttl'[d.dest] = ttl[d.dest] /\ chain'[ttl[d.dest]] = t
      BY <1>1, <1>3, <1>4
    <3> QED BY <1>3, <2>2, <2>3, <2>4, <2>7, <3>1 DEF DrainOK, DrainPcs
  <2>9. \A b \in Buckets : chain'[b] = t =>
           /\ th'[t].pc \in DrainPcs
           /\ dr'[t].seg # None => b = ttl'[dr'[t].seg]
           /\ dr'[t].seg = None => b = ttl'[dr'[t].dest]
    BY <1>1, <1>3, <1>4, <2>2, <2>3, <2>4, SentinelAssumption DEF DrainPcs
  <2> QED BY <1>1, <1>4, <2>1, <2>3, <2>4, <2>5, <2>6, <2>7, <2>8, <2>9, PassStep
<1>5. ASSUME st' = [st EXCEPT ![d.dest] = "Sealed"], dr' = [dr EXCEPT ![t] = NoDrain],
             th' = [th EXCEPT ![t].pc = d.ret], chain' = [chain EXCEPT ![ttl[d.dest]] = None]
      PROVE  IInv'
  <2>0. PICK q : q = d.ret
    OBVIOUS
  <2>1. th' = [th EXCEPT ![t].pc = q] \/ th' = th
    BY <1>5, <2>0
  <2>2. th'[t].pc = d.ret
    BY <1>2, <1>5 DEF ThreadFields
  <2>3. /\ DOMAIN dr' = Threads /\ dr'[t] = NoDrain /\ DOMAIN dr'[t] = DrainFields
        /\ \A u \in Threads : u # t => dr'[u] = dr[u]
    BY <1>2, <1>5 DEF NoDrain, DrainFields
  <2>4. CallPc(t) = d.ret /\ CallPc(t)' = d.ret
    BY <1>0, <1>1, <1>3, <2>2 DEF CallPc, DrainPcs
  <2>5. /\ st' \in [Segments -> SegmentStates] /\ chain' \in [Buckets -> Threads \cup {None}]
        /\ ttl' \in [Segments -> Buckets \cup {None}]
    BY <1>1, <1>2, <1>5 DEF TypeOK, SegmentStates
  <2>6. \A x \in Segments : \/ st'[x] = st[x] /\ ttl'[x] = ttl[x]
                            \/ /\ x = dr[t].dest /\ st[x] = "Relinking" /\ st'[x] = "Sealed"
                               /\ ttl'[x] = ttl[x] /\ ttl[x] \in Buckets
    BY <1>0, <1>1, <1>2, <1>3, <1>5 DEF TypeOK
  <2>7. /\ \A b \in Buckets : chain'[b] = chain[b] \/ ({chain[b], chain'[b]} = {t, None})
        /\ \A b \in Buckets : chain'[b] # t
    BY <1>2, <1>3, <1>5, SentinelAssumption DEF TypeOK
  <2>8. DrainOK(t)'
    BY <1>3, <2>2, <2>3 DEF DrainOK, DrainPcs, NoDrain
  <2>9. CallPc(t) \in {"idle", "reserve", "tail"} /\ CallPc(t)' = CallPc(t)
    BY <1>3, <2>4
  <2> QED BY <1>1, <2>1, <2>3, <2>5, <2>6, <2>7, <2>8, <2>9, PassStep
<1> QED BY <1>0, <1>4, <1>5 DEF NextCandidate

\* The location at the cursor.
LEMMA CursorKnown ==
  ASSUME IInv, NEW t \in Threads, th[t].pc \in {"copy", "relink", "sweep"}, NEW c, c = CursorLoc(t)
  PROVE  /\ c \in Location /\ c # None /\ Resolves(c)
         /\ c.seg = dr[t].seg /\ c.gen = gen[dr[t].seg] /\ c.off = dr[t].j
         /\ \A u \in Threads : th[u].new # c
<1>0. PICK d : d = dr[t]
  OBVIOUS
<1>1. /\ d.seg \in Segments /\ d.j \in Nat \ {0}
      /\ \A u \in Threads : th[u].new # None => th[u].new.seg # d.seg
  BY <1>0, AtCopy
<1>2. c = Loc(d.seg, d.j) /\ TypeOK
  BY <1>0 DEF CursorLoc, IInv
<1>3. c \in Location /\ Resolves(c) /\ c.seg = d.seg /\ c.gen = gen[d.seg] /\ c.off = d.j
  BY <1>1, <1>2, LocFields
<1> QED BY <1>0, <1>1, <1>3, LocationAssumption

\* An entry at the cursor's offset is the one at the cursor.
LEMMA AtCursor ==
  ASSUME IInv, NEW t \in Threads, th[t].pc \in {"copy", "relink", "sweep"},
         NEW i \in Slots, slot[i] # None, slot[i].seg = dr[t].seg, slot[i].off = dr[t].j
  PROVE  slot[i] = CursorLoc(t)
<1>1. PICK w : w = slot[i]
  OBVIOUS
<1>2. w \in Location /\ Resolves(w)
  BY <1>1, SlotIssued DEF IInv
<1>3. w = Loc(w.seg, w.off)
  BY <1>2, CurrentLoc DEF IInv
<1> QED BY <1>1, <1>3 DEF CursorLoc

\* A drain takes the entry at its cursor out of the table, and off the count if it was there.
LEMMA TakeOutStep ==
  ASSUME IInv, NEW t \in Threads, th[t].pc \in {"copy", "sweep"}, ~AtEnd(t), th' = th,
         UNCHANGED <<st, gen, items, stripe, ttl, chain>>,
         NEW c, c = CursorLoc(t),
         slot' = [i \in Slots |-> IF slot[i] = c THEN None ELSE slot[i]],
         live' \in [Segments -> Int],
         \A s \in Segments : s # dr[t].seg => live'[s] = live[s],
         \/ (\A i \in Slots : slot[i] # c) /\ live'[dr[t].seg] = live[dr[t].seg]
         \/ (\E i \in Slots : slot[i] = c) /\ live'[dr[t].seg] = live[dr[t].seg] - 1,
         DOMAIN dr' = Threads, DOMAIN dr'[t] = DrainFields,
         \A u \in Threads : u # t => dr'[u] = dr[u],
         dr'[t].ret = dr[t].ret, dr'[t].seg = dr[t].seg, dr'[t].dest = dr[t].dest, DrainOK(t)'
  PROVE  IInv'
<1>0. PICK d, z : d = dr[t] /\ z = d.seg
  OBVIOUS
<1>1. TypeOK /\ NoStaleEntry /\ Apart /\ DOMAIN th = Threads /\ DOMAIN th[t] = ThreadFields
  BY DEF IInv, TypeOK
<1>2. /\ c \in Location /\ c # None /\ Resolves(c) /\ c.seg = z /\ c.off = d.j
      /\ \A u \in Threads : th[u].new # c
  BY <1>0, CursorKnown
<1>3. /\ z \in Segments /\ st[z] = "Draining" /\ d.j \in Nat \ {0}
  BY <1>0, AtCopy
<1>4. d.j <= Len(items[z])
  <2>1. ~(d.j > Len(items[z]))
    BY <1>0 DEF AtEnd
  <2>2. Len(items[z]) \in Nat
    BY <1>1, <1>3 DEF TypeOK
  <2> QED BY <1>3, <2>1, <2>2
<1>5. \A i \in Slots : slot'[i] \in {slot[i], None} /\ slot'[i] # c
  BY <1>2
<1>6. TypeOK'
  <2>1. slot' \in [Slots -> Location \cup {None}]
    BY <1>1 DEF TypeOK
  <2> QED BY <1>1, <2>1 DEF TypeOK
<1>7. \A s \in Segments : SegmentStep(s)
  BY <1>1 DEF TypeOK, SegmentStep
<1>8. \A k \in Keys : Bound(k)' \subseteq Bound(k)
  BY <1>5 DEF Bound, Resolves, ItemAt
<1>9. CallPc(t) \in {"idle", "reserve", "tail"} /\ CallPc(t)' = CallPc(t) /\ LockOK(t)
  BY InDrain DEF CallPc, DrainPcs
<1>10. \A b \in Buckets : chain'[b] = t =>
         /\ th'[t].pc \in DrainPcs
         /\ dr'[t].seg # None => b = ttl'[dr'[t].seg]
         /\ dr'[t].seg = None => b = ttl'[dr'[t].dest]
  BY <1>9 DEF LockOK
<1>11. SegmentsOK' /\ NoStaleEntry'
  BY <1>5 DEF IInv, SegmentsOK, NoStaleEntry, Resolves
<1>12. LiveOK'
  <2>1. Refs' \subseteq Refs
    BY <1>5, LocationAssumption DEF Refs
  <2>2. ASSUME NEW s \in Segments PROVE live'[s] >= Cardinality(Outstanding(s)')
    <3>1. live[s] >= Cardinality(Outstanding(s))
      BY DEF IInv, LiveOK
    <3>2. CASE s = z /\ \E i \in Slots : slot[i] = c
      <4>1. live'[s] = live[s] - 1
        BY <1>0, <3>2
      <4>2. c \in Refs
        BY <1>2, <3>2 DEF Refs
      <4>3. \A u \in Threads : th'[u].new # c /\ th'[u].old # c
        BY <1>1, <1>2, <3>2 DEF Apart
      <4>4. c \notin Refs'
        BY <1>5, <4>3 DEF Refs
      <4>5. /\ c.off <= Len(items[c.seg]) /\ gen'[c.seg] = gen[c.seg] /\ items'[c.seg] = items[c.seg]
            /\ \A x \in Refs' : x.seg = c.seg => x \in Refs /\ x # c
        BY <1>2, <1>4, <2>1, <4>4
      <4>6. c.off \in Outstanding(c.seg) /\ Outstanding(c.seg)' \subseteq Outstanding(c.seg) \ {c.off}
        BY <1>1, <1>2, <1>6, <4>2, <4>5, OneRefLess
      <4>7. PICK o : o = c.off
        OBVIOUS
      <4>8. o \in Outstanding(s) /\ Outstanding(s)' \subseteq Outstanding(s) \ {o}
        BY <1>2, <3>2, <4>6, <4>7
      <4> QED BY <1>1, <1>6, <3>1, <4>1, <4>8, LiveLess
    <3>3. CASE ~(s = z /\ \E i \in Slots : slot[i] = c)
      <4>1. live'[s] = live[s]
        BY <1>0, <3>3
      <4>2. Outstanding(s)' \subseteq Outstanding(s)
        BY <1>1, <1>6, <2>1, NoNewRef
      <4> QED BY <1>1, <1>6, <3>1, <4>1, <4>2, LiveKept
    <3> QED BY <3>2, <3>3
  <2> QED BY <2>2 DEF LiveOK
<1>13. /\ th'[t] = th[t] \/ \E q : th'[t] = [th[t] EXCEPT !.pc = q]
       /\ \A u \in Threads : u # t => th'[u] = th[u] /\ dr'[u] = dr[u]
  OBVIOUS
<1>14. \A s \in Segments : st[s] \in {"Live", "Sealed", "Draining"} =>
           gen'[s] = gen[s] /\ st'[s] \in {"Live", "Sealed", "Draining"}
  OBVIOUS
<1> QED BY <1>5, <1>6, <1>7, <1>8, <1>9, <1>10, <1>11, <1>12, <1>13, <1>14, DrainStep

\* prune unlinks an item ahead of the copying.
LEMMA PruneStep ==
  ASSUME IInv, NEW t \in Threads, Prune(t)
  PROVE  IInv'
<1>0. PICK c, z : c = CursorLoc(t) /\ z = dr[t].seg
  OBVIOUS
<1>1. /\ th[t].pc = "copy" /\ ~AtEnd(t) /\ th' = th /\ dr' = dr
      /\ UNCHANGED <<st, gen, items, stripe, ttl, chain>>
      /\ live' = [live EXCEPT ![z] = @ - 1]
  BY <1>0 DEF Prune, locks
<1>2. /\ \E i \in Slots : slot[i] = c
      /\ slot' = [i \in Slots |-> IF slot[i] = c THEN None ELSE slot[i]]
  BY <1>0 DEF Prune, Publishing
<1>3. TypeOK /\ z \in Segments
  BY <1>0, <1>1, AtCopy DEF IInv
<1>4. /\ live' \in [Segments -> Int] /\ live'[z] = live[z] - 1
      /\ \A s \in Segments : s # z => live'[s] = live[s]
  BY <1>1, <1>3 DEF TypeOK
<1>5. DrainOK(t)'
  <2>1. DrainOK(t)
    BY DEF IInv, ThreadOK
  <2>2. th[t].pc # "sweep"
    BY <1>1
  <2> QED BY <1>1, <2>1, <2>2 DEF DrainOK
<1>6. DOMAIN dr' = Threads /\ DOMAIN dr'[t] = DrainFields
  BY <1>1, <1>3 DEF TypeOK
<1> QED BY <1>0, <1>1, <1>2, <1>4, <1>5, <1>6, TakeOutStep

\* clear sweeps one item.
LEMMA SweepStep ==
  ASSUME IInv, NEW t \in Threads, SweepItem(t)
  PROVE  IInv'
<1>0. PICK d, c, z, e : /\ d = dr[t] /\ c = CursorLoc(t) /\ z = d.seg
                        /\ e = [d EXCEPT !.j = @ + 1]
  OBVIOUS
<1>1. /\ th[t].pc = "sweep" /\ ~AtEnd(t) /\ th' = th /\ dr' = [dr EXCEPT ![t].j = @ + 1]
      /\ UNCHANGED <<st, gen, items, stripe, ttl, chain>>
  BY DEF SweepItem, locks
<1>2. /\ slot' = [i \in Slots |-> IF slot[i] = c THEN None ELSE slot[i]]
      /\ \/ (\A i \in Slots : slot[i] # c) /\ live' = live
         \/ (\E i \in Slots : slot[i] = c) /\ live' = [live EXCEPT ![z] = @ - 1]
  <2>1. Publishing(c) = {} <=> \A i \in Slots : slot[i] # c
    BY DEF Publishing
  <2>2. \A i \in Slots : i \in Publishing(c) <=> slot[i] = c
    BY DEF Publishing
  <2>3. /\ slot' = [i \in Slots |-> IF i \in Publishing(c) THEN None ELSE slot[i]]
        /\ live' = IF Publishing(c) = {} THEN live ELSE [live EXCEPT ![z] = @ - 1]
    BY <1>0 DEF SweepItem
  <2> QED BY <2>1, <2>2, <2>3
<1>3. /\ TypeOK /\ z \in Segments /\ d.j \in Nat \ {0} /\ DOMAIN d = DrainFields /\ DOMAIN dr = Threads
      /\ DrainOK(t)
  BY <1>0, <1>1, AtCopy DEF IInv, ThreadOK
<1>4. /\ live' \in [Segments -> Int]
      /\ \A s \in Segments : s # z => live'[s] = live[s]
      /\ \/ (\A i \in Slots : slot[i] # c) /\ live'[z] = live[z]
         \/ (\E i \in Slots : slot[i] = c) /\ live'[z] = live[z] - 1
  BY <1>2, <1>3 DEF TypeOK
<1>5. DOMAIN dr' = Threads /\ dr'[t] = e /\ \A u \in Threads : u # t => dr'[u] = dr[u]
  BY <1>0, <1>1, <1>3
<1>6. /\ DOMAIN e = DrainFields /\ e.seg = d.seg /\ e.ret = d.ret /\ e.dest = d.dest
      /\ e.j = d.j + 1
  BY <1>0, <1>3 DEF DrainFields
<1>7. ASSUME NEW i \in Slots, slot'[i] # None, slot'[i].seg = z PROVE slot'[i].off >= d.j + 1
  <2>1. slot'[i] = slot[i] /\ slot[i] # c
    BY <1>2, <1>7
  <2>2. slot[i].off >= d.j /\ slot[i].off # d.j /\ slot[i].off \in Nat
    <3>1. slot[i].off # d.j
      BY <1>0, <1>1, <1>7, <2>1, AtCursor
    <3>2. slot[i].off \in Nat
      BY <1>3, <1>7, <2>1 DEF TypeOK, Location
    <3>3. slot[i].off >= d.j
      BY <1>0, <1>1, <1>3, <1>7, <2>1 DEF DrainOK
    <3> QED BY <3>1, <3>2, <3>3
  <2> QED BY <1>3, <2>1, <2>2
<1>8. DrainOK(t)'
  <2>1. e.j \in Nat \ {0}
    BY <1>3, <1>6
  <2> QED BY <1>0, <1>1, <1>3, <1>5, <1>6, <1>7, <2>1 DEF DrainOK, DrainPcs
<1>9. /\ DOMAIN dr'[t] = DrainFields /\ dr'[t].ret = dr[t].ret /\ dr'[t].seg = dr[t].seg
      /\ dr'[t].dest = dr[t].dest
  BY <1>0, <1>5, <1>6
<1> QED BY <1>0, <1>1, <1>2, <1>4, <1>5, <1>8, <1>9, TakeOutStep

\* cas_location: the entry goes over to the copy, or it had moved on.
LEMMA RelinkStep ==
  ASSUME IInv, NEW t \in Threads, Relink(t)
  PROVE  IInv'
<1>0. PICK d, c, z, q : d = dr[t] /\ c = CursorLoc(t) /\ z = d.seg /\ q = "copy"
  OBVIOUS
<1>1. /\ th[t].pc = "relink" /\ UNCHANGED <<st, gen, stripe, ttl, chain>>
      /\ th' = [th EXCEPT ![t].pc = q]
  BY <1>0 DEF Relink, locks
<1>2. /\ z \in Segments /\ st[z] = "Draining" /\ ttl[z] \in Buckets
      /\ chain[ttl[z]] = t /\ d.ret \in {"idle", "reserve", "tail"}
      /\ d.j \in Nat \ {0}
      /\ \A u \in Threads : th[u].new # None => th[u].new.seg # z
      /\ d.dest # None /\ d.dest \in Segments /\ st[d.dest] = "Relinking" /\ ttl[d.dest] \in Buckets
      /\ chain[ttl[d.dest]] = t /\ ttl[d.dest] = ttl[z] /\ d.dest # z
      /\ \A b \in Buckets : chain[b] = t => b = ttl[z]
      /\ DOMAIN d = DrainFields /\ DOMAIN dr = Threads /\ th[t].pc \in DrainPcs
  BY <1>0, <1>1, AtCopy DEF DrainPcs
<1>3. /\ TypeOK /\ NoStaleEntry /\ Apart /\ DOMAIN th = Threads /\ DOMAIN th[t] = ThreadFields
      /\ \A s \in Segments : items[s] \in Seq(Item) /\ Len(items[s]) \in Nat
  BY DEF IInv, TypeOK
<1>4. th'[t].pc = "copy" /\ DOMAIN th' = Threads /\ th'[t] = [th[t] EXCEPT !.pc = q]
  BY <1>0, <1>1, <1>3 DEF ThreadFields
<1>5. PICK e : dr' = [dr EXCEPT ![t].j = e] /\ e \in Nat \ {0}
  <2>1. CASE Publishing(c) # {}
    <3>1. dr' = [dr EXCEPT ![t].j = @ + 1]
      BY <1>0, <2>1 DEF Relink, Relinked
    <3>2. dr' = [dr EXCEPT ![t].j = d.j + 1] /\ d.j + 1 \in Nat \ {0}
      BY <1>0, <1>2, <3>1
    <3> QED BY <3>2
  <2>2. CASE Publishing(c) = {}
    <3>1. dr' = [dr EXCEPT ![t].j = IF d.kind = "merge" THEN Len(items[z]) + 1 ELSE @ + 1]
      BY <1>0, <2>2 DEF Relink, Relinked
    <3>2. PICK y : y = IF d.kind = "merge" THEN Len(items[z]) + 1 ELSE d.j + 1
      OBVIOUS
    <3>3. y \in Nat \ {0}
      BY <1>2, <1>3, <3>2
    <3>4. dr' = [dr EXCEPT ![t].j = y]
      BY <1>0, <1>2, <3>1, <3>2
    <3> QED BY <3>3, <3>4
  <2> QED BY <2>1, <2>2
<1>6. /\ DOMAIN dr' = Threads /\ \A u \in Threads : u # t => dr'[u] = dr[u]
      /\ DOMAIN dr'[t] = DrainFields /\ dr'[t].seg = z /\ dr'[t].dest = d.dest
      /\ dr'[t].ret = d.ret /\ dr'[t].j = e
  BY <1>0, <1>2, <1>5 DEF DrainFields
<1>7. /\ \A u \in Threads : u # t => th'[u] = th[u]
      /\ \A u \in Threads : th'[u].new = th[u].new
      /\ CallPc(t) \in {"idle", "reserve", "tail"} /\ CallPc(t)' = CallPc(t)
  <2>1. th'[t].pc \in DrainPcs /\ dr'[t].ret = dr[t].ret
    BY <1>0, <1>4, <1>6 DEF DrainPcs
  <2> QED BY <1>1, <1>2, <2>1, DrainMoves
<1>8. DrainOK(t)'
  BY <1>1, <1>2, <1>4, <1>5, <1>6, <1>7 DEF DrainOK, DrainPcs
<1>9. \A b \in Buckets : chain'[b] = t =>
         /\ th'[t].pc \in DrainPcs
         /\ dr'[t].seg # None => b = ttl'[dr'[t].seg]
         /\ dr'[t].seg = None => b = ttl'[dr'[t].dest]
  BY <1>1, <1>2, <1>4, <1>6, SentinelAssumption DEF DrainPcs
<1>10. CASE Publishing(c) = {}
  <2>1. UNCHANGED <<slot, items, live>>
    BY <1>0, <1>10 DEF Relink, Relinked
  <2>2. /\ st' \in [Segments -> SegmentStates] /\ chain' \in [Buckets -> Threads \cup {None}]
        /\ ttl' \in [Segments -> Buckets \cup {None}]
    BY <1>1, <1>3 DEF TypeOK
  <2>3. th' = [th EXCEPT ![t].pc = q] \/ th' = th
    BY <1>1
  <2> QED BY <1>1, <1>6, <1>7, <1>8, <1>9, <2>1, <2>2, <2>3, PassStep
<1>11. CASE Publishing(c) # {}
  <2>0. PICK f, w, x, a : /\ f = d.dest /\ w = Loc(f, Len(items[f]) + 1) /\ x = ItemAt(c)
                          /\ a \in Slots /\ slot[a] = c
    BY <1>11 DEF Publishing
  <2>1. /\ slot' = [i \in Slots |-> IF slot[i] = c THEN w ELSE slot[i]]
        /\ items' = [items EXCEPT ![f] = Append(@, x)]
        /\ live' = [live EXCEPT ![z] = @ - 1, ![f] = @ + 1]
    <3>1. \A i \in Slots : i \in Publishing(c) <=> slot[i] = c
      BY DEF Publishing
    <3>2. /\ slot' = [i \in Slots |-> IF i \in Publishing(c) THEN w ELSE slot[i]]
          /\ items' = [items EXCEPT ![f] = Append(@, x)]
          /\ live' = [live EXCEPT ![z] = @ - 1, ![f] = @ + 1]
      BY <1>0, <1>11, <2>0 DEF Relink, Relinked
    <3> QED BY <3>1, <3>2
  <2>2. /\ c \in Location /\ c # None /\ Resolves(c) /\ c.seg = z /\ c.off = d.j
        /\ \A u \in Threads : th[u].new # c
    BY <1>0, <1>1, CursorKnown
  <2>3. /\ w \in Location /\ w.seg = f /\ w.gen = gen[f] /\ w.off = Len(items[f]) + 1 /\ w # None
        /\ \A i \in Slots : slot[i] # w
        /\ \A u \in Threads : th[u].new # w /\ th[u].old # w
    BY <1>2, <2>0, FreshLoc
  <2>4. f \in Segments /\ f # z /\ st[f] = "Relinking" /\ f = dr[t].dest /\ f # None
    BY <1>0, <1>2, <2>0
  <2>5. c.off <= Len(items[z]) /\ x \in Item
    <3>1. c.off <= Len(items[z])
      BY <1>3, <2>0, <2>2 DEF NoStaleEntry
    <3>2. c.off \in 1..Len(items[z])
      BY <1>2, <1>3, <2>2, <3>1
    <3> QED BY <1>2, <1>3, <2>0, <2>2, <3>1, <3>2 DEF ItemAt
  <2>6. /\ items'[f] = Append(items[f], x) /\ \A s \in Segments : s # f => items'[s] = items[s]
        /\ live'[f] = live[f] + 1 /\ live'[z] = live[z] - 1
        /\ \A s \in Segments : s # f /\ s # z => live'[s] = live[s]
        /\ live' \in [Segments -> Int]
    <3>1. live \in [Segments -> Int] /\ items \in [Segments -> Seq(Item)]
      BY <1>3 DEF TypeOK
    <3>2. /\ items'[f] = Append(items[f], x) /\ \A s \in Segments : s # f => items'[s] = items[s]
      BY <2>1, <2>4, <3>1
    <3>3. live' = [live EXCEPT ![z] = live[z] - 1, ![f] = live[f] + 1]
      BY <1>2, <2>1, <2>4, <3>1
    <3>4. live[z] - 1 \in Int /\ live[f] + 1 \in Int
      BY <1>2, <2>4, <3>1
    <3>5. live' \in [Segments -> Int]
      BY <1>2, <2>4, <3>1, <3>3, <3>4
    <3>6. /\ live'[f] = live[f] + 1 /\ live'[z] = live[z] - 1
          /\ \A s \in Segments : s # f /\ s # z => live'[s] = live[s]
      BY <1>2, <2>4, <3>1, <3>3
    <3> QED BY <3>2, <3>5, <3>6
  <2>7. /\ items'[f] \in Seq(Item) /\ Len(items'[f]) = Len(items[f]) + 1
        /\ \A o \in 1..Len(items[f]) : items'[f][o] = items[f][o]
        /\ items'[f][Len(items[f]) + 1] = x
    BY <1>3, <2>4, <2>5, <2>6
  <2>8. \A i \in Slots : \/ slot'[i] = slot[i] /\ slot[i] # c
                         \/ slot'[i] = w /\ slot[i] = c
    BY <2>1
  <2>9. TypeOK'
    <3>1. slot' \in [Slots -> Location \cup {None}]
      BY <1>3, <2>1, <2>3 DEF TypeOK
    <3>2. items' \in [Segments -> Seq(Item)]
      BY <1>3, <2>1, <2>4, <2>6, <2>7 DEF TypeOK
    <3>3. DOMAIN th'[t] = ThreadFields
      BY <1>3, <1>4
    <3> QED BY <1>1, <1>3, <1>4, <1>6, <1>7, <2>6, <3>1, <3>2, <3>3 DEF TypeOK
  <2>10. \A s \in Segments : SegmentStep(s)
    <3>1. SegmentStep(f)
      BY <1>1, <1>3, <2>4, <2>7 DEF SegmentStep
    <3>2. \A s \in Segments : s # f => SegmentStep(s)
      BY <1>1, <1>3, <2>6 DEF SegmentStep
    <3> QED BY <3>1, <3>2
  <2>11. ASSUME NEW k \in Keys PROVE Bound(k)' \subseteq Bound(k)
    <3> SUFFICES ASSUME NEW i \in Slots, i \in Bound(k)' PROVE i \in Bound(k)
      BY DEF Bound
    <3>1. CASE slot'[i] = w /\ slot[i] = c
      <4>1. ItemAt(w)' = x
        BY <2>3, <2>7 DEF ItemAt
      <4>2. ItemAt(w)'.key = k
        BY <3>1 DEF Bound, ItemAt
      <4>3. ItemAt(slot[i]).key = k
        BY <2>0, <3>1, <4>1, <4>2
      <4>4. slot[i] # None
        BY <2>2, <3>1
      <4> QED BY <1>3, <4>3, <4>4, SlotIssued
    <3>2. CASE slot'[i] = slot[i]
      <4>1. slot[i] # None
        BY <3>2 DEF Bound
      <4>2. slot[i].seg \in Segments
        BY <1>3, <4>1 DEF TypeOK, Location
      <4> QED BY <1>3, <2>9, <2>10, <3>2, <4>1, <4>2, BoundKept
    <3> QED BY <2>8, <3>1, <3>2
  <2>12. \A i \in Slots : \/ slot'[i] \in {slot[i], None}
                          \/ /\ dr[t].dest # None /\ slot'[i].seg = dr[t].dest
                             /\ \A u \in Threads : slot'[i] # th[u].new /\ slot'[i] # th[u].old
    BY <2>3, <2>4, <2>8
  <2>13. SegmentsOK'
    BY <1>1 DEF IInv, SegmentsOK
  <2>14. NoStaleEntry'
    <3> SUFFICES ASSUME NEW i \in Slots, slot'[i] # None
                 PROVE  /\ Resolves(slot[i])'
                        /\ st'[slot'[i].seg] \notin {"Free", "Condemned"}
                        /\ slot'[i].off <= Len(items'[slot'[i].seg])
      BY DEF NoStaleEntry
    <3>1. CASE slot'[i] = w
      BY <1>1, <2>3, <2>4, <2>7, <3>1, <1>3 DEF Resolves
    <3>2. CASE slot'[i] = slot[i]
      <4>1. slot[i].seg \in Segments /\ slot[i].off \in Nat
        BY <1>3, <3>2 DEF TypeOK, Location
      <4>2. /\ Resolves(slot[i]) /\ st[slot[i].seg] \notin {"Free", "Condemned"}
            /\ slot[i].off <= Len(items[slot[i].seg])
        BY <1>3, <3>2 DEF NoStaleEntry
      <4>3. PICK v, s : v = slot[i] /\ s = v.seg
        OBVIOUS
      <4>4. Len(items'[s]) >= Len(items[s]) /\ Len(items[s]) \in Nat /\ Len(items'[s]) \in Nat
        <5>1. s \in Segments /\ Len(items[s]) \in Nat
          BY <1>3, <4>1, <4>3
        <5>2. CASE s = f
          BY <2>7, <5>1, <5>2
        <5>3. CASE s # f
          <6>1. items'[s] = items[s]
            BY <2>6, <5>1, <5>3
          <6> QED BY <5>1, <6>1
        <5> QED BY <5>2, <5>3
      <4>5. v.off <= Len(items'[s]) /\ v.off \in Nat
        <5>1. v.off <= Len(items[s]) /\ v.off \in Nat
          BY <4>1, <4>2, <4>3
        <5> QED BY <4>4, <5>1
      <4> QED BY <1>1, <3>2, <4>2, <4>3, <4>5 DEF Resolves
    <3> QED BY <2>8, <3>1, <3>2
  <2>15. \A u \in Threads : th'[u].old = th[u].old
    BY <1>3, <1>4, <1>7 DEF ThreadFields
  <2>16. LiveOK'
    <3>1. \A y \in Refs' : y \in Refs \/ y = w
      BY <1>7, <2>8, <2>15 DEF Refs
    <3>2. c \in Refs /\ c \notin Refs'
      <4>1. \A u \in Threads : th'[u].new # c /\ th'[u].old # c
        BY <1>3, <1>7, <2>0, <2>2, <2>15 DEF Apart
      <4>2. \A i \in Slots : slot'[i] # c
        BY <2>2, <2>3, <2>4, <2>8
      <4> QED BY <2>0, <2>2, <4>1, <4>2 DEF Refs
    <3>3. ASSUME NEW s \in Segments PROVE live'[s] >= Cardinality(Outstanding(s)')
      <4>1. live[s] >= Cardinality(Outstanding(s))
        BY DEF IInv, LiveOK
      <4>2. CASE s = z
        <5>1. /\ gen'[c.seg] = gen[c.seg] /\ items'[c.seg] = items[c.seg]
              /\ \A y \in Refs' : y.seg = c.seg => y \in Refs /\ y # c
              /\ c.off <= Len(items[c.seg])
          BY <1>1, <1>2, <2>2, <2>3, <2>4, <2>5, <2>6, <3>1, <3>2
        <5>2. c.off \in Outstanding(c.seg) /\ Outstanding(c.seg)' \subseteq Outstanding(c.seg) \ {c.off}
          BY <1>3, <2>2, <2>9, <3>2, <5>1, OneRefLess
        <5>3. PICK o : o = c.off
          OBVIOUS
        <5>4. o \in Outstanding(s) /\ Outstanding(s)' \subseteq Outstanding(s) \ {o}
          BY <2>2, <4>2, <5>2, <5>3
        <5>5. live'[s] = live[s] - 1
          BY <2>6, <4>2
        <5> QED BY <1>3, <2>9, <4>1, <5>4, <5>5, LiveLess
      <4>3. CASE s = f
        <5>1. gen'[s] = gen[s] /\ items'[s] = Append(items[s], x)
          BY <1>1, <2>6, <4>3
        <5>2. \A y \in Refs' : y.seg = s => y \in Refs \/ y.off = Len(items[s]) + 1
          BY <2>3, <3>1, <4>3
        <5>3. Outstanding(s)' \subseteq Outstanding(s) \cup {Len(items[s]) + 1}
          BY <1>3, <2>5, <2>9, <5>1, <5>2, OneRefMore
        <5>4. live'[s] = live[s] + 1
          BY <2>6, <4>3
        <5> QED BY <1>3, <2>9, <4>1, <5>3, <5>4, LiveMore
      <4>4. CASE s # z /\ s # f
        <5>1. gen'[s] = gen[s] /\ items'[s] = items[s] /\ live'[s] = live[s]
          BY <1>1, <2>6, <4>4
        <5>2. \A y \in Refs' : y.seg = s => y \in Refs
          BY <2>3, <3>1, <4>4
        <5>3. Outstanding(s)' \subseteq Outstanding(s)
          BY <1>3, <2>9, <5>1, <5>2, NoNewRef
        <5> QED BY <1>3, <2>9, <4>1, <5>1, <5>3, LiveKept
      <4> QED BY <4>2, <4>3, <4>4
    <3> QED BY <3>3 DEF LiveOK
  <2>17. /\ th'[t] = th[t] \/ \E y : th'[t] = [th[t] EXCEPT !.pc = y]
         /\ \A u \in Threads : u # t => th'[u] = th[u] /\ dr'[u] = dr[u]
    BY <1>4, <1>6, <1>7
  <2>18. /\ \A s \in Segments : st[s] \in {"Live", "Sealed", "Draining"} =>
              gen'[s] = gen[s] /\ st'[s] \in {"Live", "Sealed", "Draining"}
         /\ stripe' = stripe /\ chain' = chain /\ st' = st /\ ttl' = ttl
    BY <1>1
  <2> QED BY <1>7, <1>8, <1>9, <2>9, <2>10, <2>11, <2>12, <2>13, <2>14, <2>16, <2>17, <2>18, DrainStep
<1> QED BY <1>10, <1>11

\* finalize_drained: what is swept is recycled, or condemned to its readers.
LEMMA FinalizeStep ==
  ASSUME IInv, NEW t \in Threads, FinalizeDrained(t)
  PROVE  IInv'
<1>0. PICK d, z, q : d = dr[t] /\ z = d.seg /\ q = IF d.dest = None THEN d.ret ELSE "nextcand"
  OBVIOUS
<1>1. /\ th[t].pc = "sweep" /\ d.j > Len(items[z]) /\ slot' = slot /\ stripe' = stripe
      /\ ttl' = [ttl EXCEPT ![z] = None]
  BY <1>0 DEF FinalizeDrained, AtEnd
<1>2. /\ z \in Segments /\ st[z] = "Draining" /\ ttl[z] \in Buckets
      /\ chain[ttl[z]] = t /\ d.ret \in {"idle", "reserve", "tail"}
      /\ d.j \in Nat \ {0}
      /\ \A u \in Threads : th[u].new # None => th[u].new.seg # z
      /\ d.dest # None =>
           /\ d.dest \in Segments /\ st[d.dest] = "Relinking" /\ ttl[d.dest] \in Buckets
           /\ chain[ttl[d.dest]] = t /\ ttl[d.dest] = ttl[z] /\ d.dest # z
      /\ \A b \in Buckets : chain[b] = t => b = ttl[z]
      /\ DOMAIN d = DrainFields /\ DOMAIN dr = Threads
  BY <1>0, <1>1, AtCopy
<1>3. /\ TypeOK /\ NoStaleEntry /\ DrainOK(t) /\ DOMAIN th = Threads /\ DOMAIN th[t] = ThreadFields
      /\ \A s \in Segments : items[s] \in Seq(Item) /\ Len(items[s]) \in Nat /\ gen[s] \in Nat
  BY DEF IInv, TypeOK, ThreadOK
<1>4. \A i \in Slots : slot[i] # None => slot[i].seg # z
  <2> SUFFICES ASSUME NEW i \in Slots, slot[i] # None, slot[i].seg = z PROVE FALSE
    OBVIOUS
  <2>1. slot[i].off \in Nat /\ slot[i].off <= Len(items[z])
    BY <1>3 DEF TypeOK, Location, NoStaleEntry
  <2>2. slot[i].off >= d.j
    BY <1>0, <1>1, <1>3 DEF DrainOK
  <2> QED BY <1>1, <1>2, <1>3, <2>1, <2>2
<1>5. /\ \A s \in Segments : s # z => /\ st'[s] = st[s] /\ gen'[s] = gen[s] /\ items'[s] = items[s]
                                      /\ live'[s] = live[s] /\ ttl'[s] = ttl[s]
      /\ \/ gen'[z] = gen[z] + 1 /\ st'[z] = "Free" /\ items'[z] = <<>> /\ live'[z] = 0
         \/ /\ gen'[z] = gen[z] /\ st'[z] = "Condemned" /\ items'[z] = items[z]
            /\ live'[z] = live[z]
      /\ st' \in [Segments -> SegmentStates] /\ gen' \in [Segments -> Nat]
      /\ items' \in [Segments -> Seq(Item)] /\ live' \in [Segments -> Int]
      /\ ttl' \in [Segments -> Buckets \cup {None}]
  <2>1. /\ ttl' \in [Segments -> Buckets \cup {None}]
        /\ \A s \in Segments : s # z => ttl'[s] = ttl[s]
    BY <1>1, <1>2, <1>3 DEF TypeOK
  <2>2. CASE Recycle(z)
    <3>1. /\ st' = [st EXCEPT ![z] = "Free"] /\ gen' = [gen EXCEPT ![z] = gen[z] + 1]
          /\ items' = [items EXCEPT ![z] = <<>>] /\ live' = [live EXCEPT ![z] = 0]
      BY <2>2 DEF Recycle
    <3>2. st' \in [Segments -> SegmentStates] /\ gen' \in [Segments -> Nat]
      BY <1>2, <1>3, <3>1 DEF TypeOK, SegmentStates
    <3>3. items' \in [Segments -> Seq(Item)] /\ live' \in [Segments -> Int]
      BY <1>2, <1>3, <3>1 DEF TypeOK
    <3>4. gen'[z] = gen[z] + 1 /\ st'[z] = "Free" /\ items'[z] = <<>> /\ live'[z] = 0
      BY <1>2, <1>3, <3>1 DEF TypeOK
    <3>5. \A s \in Segments : s # z => /\ st'[s] = st[s] /\ gen'[s] = gen[s] /\ items'[s] = items[s]
                                       /\ live'[s] = live[s]
      BY <1>2, <1>3, <3>1 DEF TypeOK
    <3> QED BY <2>1, <3>2, <3>3, <3>4, <3>5
  <2>3. CASE st' = [st EXCEPT ![z] = "Condemned"] /\ UNCHANGED <<gen, items, live>>
    BY <1>2, <1>3, <2>1, <2>3 DEF TypeOK, SegmentStates
  <2> QED BY <1>0, <2>2, <2>3 DEF FinalizeDrained
<1>6. th' = [th EXCEPT ![t].pc = q]
  BY <1>0 DEF FinalizeDrained
<1>7. /\ th'[t].pc = q /\ DOMAIN th' = Threads /\ th'[t] = [th[t] EXCEPT !.pc = q]
      /\ \A u \in Threads : u # t => th'[u] = th[u]
      /\ \A u \in Threads : th'[u].new = th[u].new /\ th'[u].old = th[u].old
  BY <1>3, <1>6 DEF ThreadFields
<1>8. DOMAIN th'[t] = ThreadFields
  BY <1>3, <1>7
<1>9. \/ /\ d.dest = None /\ dr'[t] = NoDrain /\ th'[t].pc = d.ret
         /\ \A b \in Buckets : chain'[b] # t
      \/ /\ d.dest # None /\ dr'[t].seg = None /\ dr'[t].dest = d.dest /\ dr'[t].ret = d.ret
         /\ th'[t].pc = "nextcand" /\ chain' = chain
  <2>1. CASE d.dest = None
    <3>1. dr' = [dr EXCEPT ![t] = NoDrain] /\ chain' = [chain EXCEPT ![ttl[z]] = None]
      BY <1>0, <2>1 DEF FinalizeDrained
    <3>2. \A b \in Buckets : chain'[b] # t
      BY <1>2, <1>3, <3>1, SentinelAssumption DEF TypeOK
    <3> QED BY <1>0, <1>2, <1>7, <2>1, <3>1, <3>2
  <2>2. CASE d.dest # None
    <3>1. dr' = [dr EXCEPT ![t].seg = None] /\ chain' = chain
      BY <1>0, <2>2 DEF FinalizeDrained
    <3>2. dr'[t].seg = None /\ dr'[t].dest = d.dest /\ dr'[t].ret = d.ret
      BY <1>0, <1>2, <3>1 DEF DrainFields
    <3> QED BY <1>0, <1>7, <2>2, <3>1, <3>2
  <2> QED BY <2>1, <2>2
<1>10. /\ DOMAIN dr' = Threads /\ DOMAIN dr'[t] = DrainFields
       /\ \A u \in Threads : u # t => dr'[u] = dr[u]
       /\ chain' \in [Buckets -> Threads \cup {None}]
       /\ \A b \in Buckets, u \in Threads : u # t => (chain'[b] = u <=> chain[b] = u)
  <2>1. CASE d.dest = None
    <3>1. dr' = [dr EXCEPT ![t] = NoDrain] /\ chain' = [chain EXCEPT ![ttl[z]] = None]
      BY <1>0, <2>1 DEF FinalizeDrained
    <3>2. DOMAIN NoDrain = DrainFields
      BY DEF NoDrain, DrainFields
    <3>3. /\ DOMAIN dr' = Threads /\ DOMAIN dr'[t] = DrainFields
          /\ \A u \in Threads : u # t => dr'[u] = dr[u]
      BY <1>2, <3>1, <3>2
    <3>4. /\ chain' \in [Buckets -> Threads \cup {None}]
          /\ \A b \in Buckets, u \in Threads : u # t => (chain'[b] = u <=> chain[b] = u)
      BY <1>2, <1>3, <3>1, SentinelAssumption DEF TypeOK
    <3> QED BY <3>3, <3>4
  <2>2. CASE d.dest # None
    <3>1. dr' = [dr EXCEPT ![t].seg = None] /\ chain' = chain
      BY <1>0, <2>2 DEF FinalizeDrained
    <3> QED BY <1>0, <1>2, <1>3, <3>1 DEF TypeOK, DrainFields
  <2> QED BY <2>1, <2>2
<1>11. TypeOK'
  BY <1>1, <1>3, <1>5, <1>7, <1>8, <1>10 DEF TypeOK
<1>12. \A s \in Segments : SegmentStep(s)
  <2>1. SegmentStep(z)
    BY <1>2, <1>3, <1>5 DEF SegmentStep
  <2>2. \A s \in Segments : s # z => SegmentStep(s)
    BY <1>3, <1>5 DEF SegmentStep
  <2> QED BY <2>1, <2>2
<1>13. ASSUME NEW k \in Keys PROVE Bound(k)' \subseteq Bound(k)
  <2> SUFFICES ASSUME NEW i \in Slots, i \in Bound(k)' PROVE i \in Bound(k)
    BY DEF Bound
  <2>1. slot'[i] = slot[i] /\ slot[i] # None
    BY <1>1 DEF Bound
  <2>2. slot[i].seg \in Segments
    BY <1>3, <2>1 DEF TypeOK, Location
  <2> QED BY <1>3, <1>11, <1>12, <2>1, <2>2, BoundKept
<1>14. CallPc(t) = d.ret /\ CallPc(t)' = d.ret
  BY <1>0, <1>1, <1>2, <1>9 DEF CallPc, DrainPcs
<1>15. DrainOK(t)'
  <2>1. CASE dr'[t] = NoDrain /\ th'[t].pc = d.ret
    BY <1>2, <2>1 DEF DrainOK, DrainPcs, NoDrain
  <2>2. CASE /\ d.dest # None /\ dr'[t].seg = None /\ dr'[t].dest = d.dest /\ dr'[t].ret = d.ret
             /\ th'[t].pc = "nextcand" /\ chain' = chain
    <3>1. /\ st'[d.dest] = "Relinking" /\ ttl'[d.dest] = ttl[d.dest]
      BY <1>2, <1>5, <2>2
    <3> QED BY <1>2, <2>2, <3>1 DEF DrainOK, DrainPcs
  <2> QED BY <1>9, <2>1, <2>2
<1>16. \A b \in Buckets : chain'[b] = t =>
         /\ th'[t].pc \in DrainPcs
         /\ dr'[t].seg # None => b = ttl'[dr'[t].seg]
         /\ dr'[t].seg = None => b = ttl'[dr'[t].dest]
  BY <1>2, <1>5, <1>9 DEF DrainPcs
<1>17. SegmentsOK'
  BY <1>5 DEF IInv, SegmentsOK
<1>18. NoStaleEntry'
  <2> SUFFICES ASSUME NEW i \in Slots, slot[i] # None
               PROVE  /\ slot[i].gen = gen'[slot[i].seg]
                      /\ st'[slot[i].seg] \notin {"Free", "Condemned"}
                      /\ slot[i].off <= Len(items'[slot[i].seg])
    BY <1>1 DEF NoStaleEntry, Resolves
  <2>1. slot[i].seg \in Segments /\ slot[i].seg # z
    BY <1>3, <1>4 DEF TypeOK, Location
  <2> QED BY <1>3, <1>5, <2>1 DEF NoStaleEntry, Resolves
<1>19. LiveOK'
  <2>1. Refs' = Refs
    BY <1>1, <1>7 DEF Refs
  <2>2. ASSUME NEW s \in Segments PROVE live'[s] >= Cardinality(Outstanding(s)')
    <3>1. live[s] >= Cardinality(Outstanding(s))
      BY DEF IInv, LiveOK
    <3>2. CASE items'[s] = <<>> /\ live'[s] = 0
      BY <1>11, <3>2, LiveNone
    <3>3. CASE gen'[s] = gen[s] /\ items'[s] = items[s] /\ live'[s] = live[s]
      <4>1. Outstanding(s)' \subseteq Outstanding(s)
        BY <1>3, <1>11, <2>1, <3>3, NoNewRef
      <4> QED BY <1>3, <1>11, <3>1, <3>3, <4>1, LiveKept
    <3> QED BY <1>5, <3>2, <3>3
  <2> QED BY <2>2 DEF LiveOK
<1>20. /\ CallPc(t) \in {"idle", "reserve", "tail"} /\ CallPc(t)' = CallPc(t)
       /\ th'[t] = th[t] \/ \E y : th'[t] = [th[t] EXCEPT !.pc = y]
       /\ \A u \in Threads : u # t => th'[u] = th[u] /\ dr'[u] = dr[u]
  BY <1>2, <1>7, <1>10, <1>14
<1>21. /\ \A s \in Segments : (\/ st[s] = "Draining" /\ s # dr[t].seg
                               \/ st[s] = "Relinking" /\ s # dr[t].dest)
                              => st'[s] = st[s] /\ ttl'[s] = ttl[s]
       /\ \A s \in Segments : st[s] \in {"Live", "Sealed", "Draining"} =>
            \/ gen'[s] = gen[s] /\ st'[s] \in {"Live", "Sealed", "Draining"}
            \/ \A u \in Threads : u # t /\ th[u].new # None => th[u].new.seg # s
  BY <1>0, <1>2, <1>5
<1>22. \A i \in Slots : slot'[i] \in {slot[i], None}
  BY <1>1
<1> QED BY <1>1, <1>10, <1>11, <1>12, <1>13, <1>15, <1>16, <1>17, <1>18, <1>19, <1>20, <1>21, <1>22, DrainStep

-----------------------------------------------------------------------------
(* The invariant. *)

\* Segcache starts with an empty table, free segments and idle threads.
LEMMA InitInv ==
  ASSUME Init
  PROVE  IInv
<1>1. /\ DOMAIN Idle = ThreadFields /\ Idle.pc = "idle" /\ Idle.new = None /\ Idle.old = None
      /\ Idle.wpin = FALSE /\ Idle.phase = "none" /\ Idle.unk = None /\ Idle.then = "none"
      /\ Idle.rem = None
  BY DEF Idle, ThreadFields
<1>2. DOMAIN NoDrain = DrainFields /\ NoDrain.seg = None /\ NoDrain.dest = None
  BY DEF NoDrain, DrainFields
<1>3. /\ \A i \in Slots : slot[i] = None
      /\ \A s \in Segments : st[s] = "Free" /\ items[s] = <<>> /\ live[s] = 0
      /\ \A k \in Keys : stripe[k] = None
      /\ \A b \in Buckets : chain[b] = None
      /\ \A t \in Threads : th[t] = Idle /\ dr[t] = NoDrain
  BY DEF Init
<1>4. TypeOK
  <2>1. /\ slot \in [Slots -> Location \cup {None}] /\ st \in [Segments -> SegmentStates]
        /\ gen \in [Segments -> Nat] /\ live \in [Segments -> Int]
        /\ stripe \in [Keys -> Threads \cup {None}] /\ ttl \in [Segments -> Buckets \cup {None}]
        /\ chain \in [Buckets -> Threads \cup {None}]
    BY DEF Init, SegmentStates
  <2>2. <<>> \in Seq(Item)
    OBVIOUS
  <2>3. items \in [Segments -> Seq(Item)]
    BY <2>2 DEF Init
  <2>4. DOMAIN th = Threads /\ DOMAIN dr = Threads
    BY DEF Init
  <2> QED BY <1>1, <1>2, <1>3, <2>1, <2>3, <2>4 DEF TypeOK
<1>5. ASSUME NEW t \in Threads PROVE ThreadOK(t)
  <2>1. CallPc(t) = "idle"
    BY <1>1, <1>3 DEF CallPc, DrainPcs
  <2>2. StepOK(th[t], "idle")
    BY <1>1, <1>3 DEF StepOK, Writing, AtPcs
  <2>3. WordsOK(th[t], "idle") /\ NewOK(th[t]) /\ ScanOK(th[t])
    BY <1>1, <1>3 DEF WordsOK, NewOK, ScanOK, WordPcs, MatchPcs
  <2>4. DrainOK(t)
    BY <1>1, <1>2, <1>3 DEF DrainOK, DrainPcs
  <2>5. LockOK(t)
    BY <1>1, <1>3, SentinelAssumption DEF LockOK
  <2> QED BY <2>1, <2>2, <2>3, <2>4, <2>5 DEF ThreadOK, CallOK
<1>6. SegmentsOK /\ NoStaleEntry
  BY <1>3 DEF SegmentsOK, NoStaleEntry
<1>7. OneEntry
  BY <1>3 DEF OneEntry, Bound
<1>8. Apart
  BY <1>1, <1>3 DEF Apart
<1>9. LiveOK
  <2>1. \A s \in Segments : Outstanding(s) = {}
    BY <1>3 DEF Outstanding
  <2>2. ASSUME NEW s \in Segments PROVE live[s] >= Cardinality(Outstanding(s))
    <3>1. Cardinality(Outstanding(s)) = 0 /\ live[s] = 0
      BY <1>3, <2>1, FS_EmptySet
    <3> QED BY <3>1
  <2> QED BY <2>2 DEF LiveOK
<1> QED BY <1>4, <1>5, <1>6, <1>7, <1>8, <1>9 DEF IInv

\* Every step of every thread keeps the invariant.
LEMMA ActInv ==
  ASSUME IInv, NEW t \in Threads, Act(t)
  PROVE  IInv'
<1>1. CASE \/ \E k \in Keys : GetBegin(t, k) \/ DeleteBegin(t, k)
           \/ \E k \in Keys, v \in Values, b \in Buckets : InsertBegin(t, k, v, b)
           \/ \E i \in Slots : Load(t, i) \/ PassTaken(t, i) \/ TryClaimNewSlot(t, i)
  BY <1>1, ScanBegins, InsertBegins, LoadStep, PassTakenStep, ClaimSlotStep
<1>2. CASE \/ ScanOver(t) \/ VerifyFails(t) \/ VerifyMatches(t)
           \/ SlotPublishes(t) \/ FollowRepublished(t) \/ Return(t)
  BY <1>2, ScanOverStep, VerifyFailsStep, VerifyMatchesStep, SlotPublishesStep, FollowStep,
     ReturnStep
<1>3. CASE \/ \E s \in Segments : Reserve(t, s) \/ Expand(t, s)
           \/ NoRoom(t) \/ ReserveFails(t) \/ PinOld(t) \/ SwapOld(t)
  BY <1>3, ReserveStep, ExpandStep, NoRoomStep, ReserveFailsStep, PinOldStep, SwapOldStep
<1>4. CASE \/ TryReplaceExisting(t) \/ LockStripe(t) \/ BucketFull(t)
           \/ PinUnlinked(t) \/ RemoveAt(t) \/ AfterRemove(t) \/ WaitOver(t)
  BY <1>4, ReplaceStep, LockStripeStep, BucketFullStep, PinUnlinkedStep, RemoveStep,
     AfterRemoveStep, WaitOverStep
<1>5. CASE \/ ObserveGen(t) \/ PinForDelete(t) \/ GenerationFence(t)
           \/ UnlinkUnpinned(t) \/ UnlinkPinned(t)
  BY <1>5, DeletePinStep, FenceStep, UnlinkStep
<1>6. CASE \/ \E s \in Segments : ClaimForDrain(t, s)
           \/ Quiesce(t) \/ CopyItem(t) \/ Prune(t) \/ Relink(t) \/ CopyOver(t)
  BY <1>6, ClaimStep, QuiesceStep, CopyItemStep, PruneStep, RelinkStep, CopyOverStep
<1>7. CASE SweepItem(t) \/ FinalizeDrained(t) \/ NextCandidate(t)
  BY <1>7, SweepStep, FinalizeStep, NextCandidateStep
<1> QED BY <1>1, <1>2, <1>3, <1>4, <1>5, <1>6, <1>7 DEF Act

\* A step that changes nothing.
LEMMA StutterInv ==
  ASSUME IInv, UNCHANGED vars
  PROVE  IInv'
<1>1. UNCHANGED <<slot, st, gen, items, live, stripe, ttl, chain, th, dr>>
  BY DEF vars, segs, locks
<1>2. TypeOK' /\ SegmentsOK' /\ NoStaleEntry' /\ Apart'
  BY <1>1 DEF IInv, TypeOK, SegmentsOK, NoStaleEntry, Resolves, Apart
<1>3. \A k : Bound(k)' = Bound(k)
  BY <1>1 DEF Bound, Resolves, ItemAt
<1>4. OneEntry'
  BY <1>3 DEF IInv, OneEntry
<1>5. Refs' = Refs
  BY <1>1 DEF Refs
<1>6. LiveOK'
  BY <1>1, <1>5 DEF IInv, LiveOK, Outstanding, Loc
<1>7. ASSUME NEW t \in Threads PROVE ThreadOK(t)'
  <2>1. ThreadOK(t)
    BY DEF IInv
  <2>2. CallPc(t)' = CallPc(t) /\ th'[t] = th[t]
    BY <1>1 DEF CallPc
  <2>3. CallOK(t)'
    BY <1>1, <1>3, <2>1, <2>2 DEF ThreadOK, CallOK, StepOK, WordsOK, NewOK, ScanOK, Writing, Issued,
       Readable, Resolves, ItemAt
  <2>4. DrainOK(t)' /\ LockOK(t)'
    BY <1>1, <2>1 DEF ThreadOK, DrainOK, LockOK
  <2> QED BY <2>3, <2>4 DEF ThreadOK
<1> QED BY <1>2, <1>4, <1>6, <1>7 DEF IInv

\* The invariant holds of every run of calls and drains.
THEOREM CacheInvariant == Spec => []IInv
<1>1. Init => IInv
  BY InitInv
<1>2. IInv /\ [Next]_vars => IInv'
  BY ActInv, StutterInv DEF Next
<1> QED BY <1>1, <1>2, PTL DEF Spec

-----------------------------------------------------------------------------
(* What it gives. *)

\* triage_unknown_location's argument: no slot names an incarnation that is gone
\* or on its way out.
THEOREM CacheNoStaleEntry == Spec => []NoStaleEntry
<1>1. IInv => NoStaleEntry
  BY DEF IInv
<1> QED BY <1>1, CacheInvariant, PTL

\* A key never has two entries, whatever inserts, deletes and drains race.
THEOREM CacheNoDuplicateKey == Spec => []NoDuplicateKey
<1>1. ASSUME OneEntry PROVE NoDuplicateKey
  <2> SUFFICES ASSUME NEW k \in Keys PROVE Cardinality(Bound(k)) <= 1
    BY DEF NoDuplicateKey
  <2>1. CASE Bound(k) = {}
    BY <2>1, FS_EmptySet
  <2>2. CASE Bound(k) # {}
    <3>1. PICK i : i \in Bound(k)
      BY <2>2
    <3>2. Bound(k) = {i}
      BY <1>1, <3>1 DEF OneEntry
    <3> QED BY <3>2, FS_Singleton
  <2> QED BY <2>1, <2>2
<1>2. IInv => NoDuplicateKey
  BY <1>1 DEF IInv
<1> QED BY <1>2, CacheInvariant, PTL

\* The published items of a segment are among those its live_items counts.
LEMMA PublishedCounted ==
  ASSUME IInv, NEW s \in Segments
  PROVE  live[s] >= Cardinality({i \in Slots : slot[i] # None /\ slot[i].seg = s})
<1>0. PICK P, f : /\ P = {i \in Slots : slot[i] # None /\ slot[i].seg = s}
                  /\ f = [i \in P |-> slot[i].off]
  OBVIOUS
<1>1. TypeOK /\ NoStaleEntry /\ Len(items[s]) \in Nat /\ live[s] \in Int
  BY DEF IInv, TypeOK
<1>2. ASSUME NEW i \in P
      PROVE  i \in Slots /\ slot[i] = Loc(s, slot[i].off) /\ slot[i].off \in Outstanding(s)
  <2>0. PICK w : w = slot[i]
    OBVIOUS
  <2>1. i \in Slots /\ w # None /\ w.seg = s
    BY <1>0, <2>0
  <2>2. w \in Location /\ Resolves(w)
    BY <1>1, <2>0, <2>1, SlotIssued
  <2>3. w = Loc(s, w.off)
    BY <1>1, <2>1, <2>2, CurrentLoc
  <2>4. w.off \in 1..Len(items[s])
    BY <1>1, <2>0, <2>1, <2>2 DEF NoStaleEntry, Location
  <2>5. w \in Refs
    BY <2>0, <2>1, <2>2 DEF Refs
  <2>6. w.off \in Outstanding(s)
    BY <2>3, <2>4, <2>5 DEF Outstanding
  <2> QED BY <2>0, <2>1, <2>3, <2>6
<1>3. f \in [P -> Outstanding(s)]
  BY <1>0, <1>2
<1>4. ASSUME NEW a \in P, NEW b \in P, f[a] = f[b] PROVE a = b
  <2>1. slot[a].off = slot[b].off
    BY <1>0, <1>4
  <2>2. slot[a] = slot[b]
    BY <1>2, <2>1
  <2>3. slot[a] # None /\ a \in Slots /\ b \in Slots
    BY <1>0
  <2> QED BY <2>2, <2>3, SlotsApart
<1>5. f \in Injection(P, Outstanding(s))
  BY <1>3, <1>4, Fun_IsInj
<1>6. IsFiniteSet(Outstanding(s)) /\ Cardinality(Outstanding(s)) \in Nat
  BY <1>1, OutstandingFinite
<1>7. Cardinality(P) <= Cardinality(Outstanding(s)) /\ IsFiniteSet(P)
  BY <1>5, <1>6, FS_Injection
<1>8. Cardinality(P) \in Nat
  BY <1>7, FS_CardinalityType
<1>9. live[s] >= Cardinality(Outstanding(s))
  BY DEF IInv, LiveOK
<1>10. live[s] >= Cardinality(P)
  BY <1>1, <1>6, <1>7, <1>8, <1>9
<1> QED BY <1>0, <1>10

\* live_items never falls below what a segment publishes, so remove_item_at's asserts
\* on it hold and no segment in use is taken for empty.
THEOREM CacheLiveCoversPublished == Spec => []LiveCoversPublished
<1>1. IInv => LiveCoversPublished
  BY PublishedCounted DEF LiveCoversPublished
<1> QED BY <1>1, CacheInvariant, PTL

-----------------------------------------------------------------------------
(* Waiting. *)

\* How far up the order of waits a thread is: the stripe below the pins, the pins
\* below the drains.
Level(t) ==
  CASE th[t].pc \in {"wait", "reserve", "tail"} -> 3
    [] th[t].pc = "quiesce" -> 2
    [] th[t].pc = "lock" -> 1
    [] OTHER -> 0

\* Whoever has a writer or remover pin or the stripe is at most waiting for the stripe.
LEMMA HoldersLevel ==
  ASSUME IInv, NEW u \in Threads
  PROVE  /\ th[u].phase = "relock" => Level(u) = 0
         /\ th[u].wpin \/ th[u].rem # None => Level(u) \in {0, 1}
         /\ th[u].pc \in DrainPcs => Level(u) \in {0, 2}
         /\ th[u].pc \notin DrainPcs => dr[u] = NoDrain
<1>1. StepOK(th[u], CallPc(u)) /\ DrainOK(u)
  BY DEF IInv, ThreadOK, CallOK
<1>2. th[u].pc \notin DrainPcs => dr[u] = NoDrain
  BY <1>1 DEF DrainOK
<1>3. ASSUME th[u].pc \in DrainPcs
      PROVE  th[u].phase # "relock" /\ ~th[u].wpin /\ th[u].rem = None
  <2>1. CallPc(u) \in {"idle", "reserve", "tail"}
    BY <1>3, InDrain
  <2> QED BY <2>1, CallAtRest
<1>4. th[u].phase = "relock" => th[u].pc \in {"scan", "verify", "swap", "claimslot"}
  BY <1>1, <1>3 DEF StepOK, CallPc
<1>5. th[u].wpin => th[u].pc \in {"scan", "verify", "pinold", "swapold", "swap", "lock", "claimslot"}
  BY <1>1, <1>3 DEF StepOK, CallPc, Writing
<1>6. th[u].rem # None => th[u].pc \in {"swapold", "remove", "unlink"}
  BY <1>1, <1>3 DEF StepOK, CallPc
<1>7. th[u].phase = "relock" => Level(u) = 0
  BY <1>4 DEF Level
<1>8. th[u].wpin \/ th[u].rem # None => Level(u) \in {0, 1}
  BY <1>5, <1>6 DEF Level
<1>9. th[u].pc \in DrainPcs => Level(u) \in {0, 2}
  BY DEF Level, DrainPcs
<1> QED BY <1>2, <1>7, <1>8, <1>9

\* A thread waits only for threads below it.
LEMMA WaitsBelow ==
  ASSUME IInv, NEW t \in Threads, NEW u \in Threads, u \in WaitsFor(t)
  PROVE  Level(u) < Level(t)
<1>0. PICK r : r = th[t]
  OBVIOUS
<1>1. CASE r.pc = "quiesce"
  <2>1. u \in PinsWriter(dr[t].seg) \cup PinsRemover(dr[t].seg)
    BY <1>0, <1>1 DEF WaitsFor
  <2>2. dr[t].seg \in Segments
    BY <1>0, <1>1 DEF IInv, ThreadOK, DrainOK, DrainPcs
  <2>3. th[u].wpin \/ th[u].rem # None
    BY <2>1, <2>2, SentinelAssumption DEF PinsWriter, PinsRemover
  <2>4. Level(t) = 2
    BY <1>0, <1>1 DEF Level
  <2> QED BY <2>3, <2>4, HoldersLevel
<1>2. CASE r.pc = "wait"
  <2>1. r.unk.seg \in {dr[u].seg, dr[u].dest}
    BY <1>0, <1>2 DEF WaitsFor
  <2>2. r.unk \in Location /\ r.unk.seg # None
    <3>1. StepOK(r, "wait")
      BY <1>0, <1>2 DEF IInv, ThreadOK, CallOK, CallPc, DrainPcs
    <3>2. r.unk \in Location
      BY <3>1 DEF StepOK
    <3> QED BY <3>2, SentinelAssumption DEF Location
  <2>3. th[u].pc \in DrainPcs
    BY <2>1, <2>2, HoldersLevel DEF NoDrain
  <2>4. Level(t) = 3
    BY <1>0, <1>2 DEF Level
  <2> QED BY <2>3, <2>4, HoldersLevel
<1>3. CASE r.pc = "lock"
  <2>1. u = stripe[r.key]
    BY <1>0, <1>3 DEF WaitsFor
  <2>2. r.key \in Keys
    <3>1. StepOK(r, "lock")
      BY <1>0, <1>3 DEF IInv, ThreadOK, CallOK, CallPc, DrainPcs
    <3> QED BY <3>1 DEF StepOK, Writing
  <2>3. th[u].phase = "relock"
    BY <2>1, <2>2 DEF IInv, ThreadOK, LockOK
  <2>4. Level(t) = 1
    BY <1>0, <1>3 DEF Level
  <2> QED BY <2>3, <2>4, HoldersLevel
<1>4. CASE r.pc \in {"reserve", "tail"}
  <2>1. PICK b \in Buckets : u = chain[b]
    BY <1>0, <1>4 DEF WaitsFor
  <2>2. th[u].pc \in DrainPcs
    BY <2>1 DEF IInv, ThreadOK, LockOK
  <2>3. Level(t) = 3
    BY <1>0, <1>4 DEF Level
  <2> QED BY <2>2, <2>3, HoldersLevel
<1>5. CASE r.pc \notin {"quiesce", "wait", "lock", "reserve", "tail"}
  <2>1. WaitsFor(t) = {}
    BY <1>0, <1>5 DEF WaitsFor
  <2> QED BY <2>1
<1> QED BY <1>1, <1>2, <1>3, <1>4, <1>5

\* So among any threads one waits for none of the others.
LEMMA SomeoneMoves ==
  ASSUME IInv, NEW S \in SUBSET Threads, S # {}
  PROVE  \E t \in S : WaitsFor(t) \cap S = {}
<1>1. \A t \in S : Level(t) \in 0..3
  BY DEF Level
<1>2. \A t \in S, u \in S : u \in WaitsFor(t) => Level(u) < Level(t)
  BY WaitsBelow
<1>3. PICK t \in S : \A u \in S : ~(Level(u) < Level(t))
  <2>1. CASE \E t \in S : Level(t) = 0
    BY <1>1, <2>1
  <2>2. CASE (\A t \in S : Level(t) # 0) /\ (\E t \in S : Level(t) = 1)
    BY <1>1, <2>2
  <2>3. CASE (\A t \in S : Level(t) \notin {0, 1}) /\ (\E t \in S : Level(t) = 2)
    BY <1>1, <2>3
  <2>4. CASE \A t \in S : Level(t) \notin {0, 1, 2}
    BY <1>1, <2>4
  <2> QED BY <2>1, <2>2, <2>3, <2>4
<1>4. WaitsFor(t) \cap S = {}
  BY <1>2, <1>3
<1> QED BY <1>4

\* "never hold a WriterPin across a chain_lock acquisition", and the rest of the order
\* of waits: no threads wait for one another in a circle.
THEOREM CacheNoWaitCycle == Spec => []NoWaitCycle
<1>1. IInv => NoWaitCycle
  BY SomeoneMoves DEF NoWaitCycle
<1> QED BY <1>1, CacheInvariant, PTL
=============================================================================
