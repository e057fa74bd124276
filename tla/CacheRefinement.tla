-------------------------- MODULE CacheRefinement --------------------------
(***************************************************************************)
(* CacheOps implements AtomicCache, for any number of threads, keys, slots *)
(* and segments.                                                           *)
(***************************************************************************)
EXTENDS CacheProofs

Phases(op) == CASE op = "get" -> {"get", "cold"}
                [] op = "insert" -> WritePhases
                [] op = "delete" -> {"delete", "recheck"}

\* What the call asks for and what it has answered, by its step.
KindOK(r, p) ==
  /\ p = "idle" <=> r.key = None
  /\ p = "idle" => r.op = "none" /\ r.val = None
  /\ p # "idle" => r.key \in Keys /\ r.op \in {"get", "insert", "delete"}
  /\ p \in {"scan", "verify"} => r.phase \in Phases(r.op)
  /\ r.phase = "recheck" => p \in {"scan", "verify"} /\ r.unlinked
  /\ p \in {"publishes", "acquire"} => r.op = "get"
  /\ p = "publishes" => r.pin # None
  /\ p \in {"reserve", "noroom", "pinold", "swapold", "swap", "lock", "claimslot", "undo", "wait"} =>
       r.op = "insert"
  /\ p \in {"delgen", "delpin", "delfence", "unlinkfree", "unlink"} => r.op = "delete"
  /\ p \in {"undo", "remove", "tail"} =>
       \/ r.op = "insert" /\ r.then \in {"ok", "err", "wait"}
       \/ r.op = "delete" /\ r.then = "deleted"
  /\ r.op = "insert" => r.val \in Values
  /\ r.op # "insert" => r.val = None
  /\ r.res # None <=> p = "done"
  /\ r.pin # None => r.op = "get"

\* The steps of a get or a delete that has verified the location it read.
FoundPcs == {"publishes", "acquire", "delgen", "delpin", "delfence", "unlinkfree", "unlink"}

\* No slot a get's scan is done with has the key.
ScanClear(r) ==
  /\ \A i \in Bound(r.key) : i \in r.left \/ (r.pc = "verify" /\ i = r.at)
  /\ r.pc = "verify" /\ r.at \in Bound(r.key) /\ Readable(r.word) => ItemAt(r.word).key = r.key

\* What the locations of a call say of its key; W is what has been true of it.
FoundOK(r, p, W) ==
  /\ p \in FoundPcs /\ Resolves(r.word) => ItemAt(r.word).key = r.key
  /\ r.new # None => ItemAt(r.new).val = r.val
  /\ r.pin # None => /\ Issued(r.pin) /\ Resolves(r.pin)
                     /\ ItemAt(r.pin).key = r.key /\ ItemAt(r.pin).val \in W
  /\ r.op = "get" /\ p \in {"verify", "acquire"} /\ Resolves(r.word) /\ ItemAt(r.word).key = r.key =>
       ItemAt(r.word).val \in W
  /\ r.op = "get" /\ p \in {"scan", "verify"} /\ r.unk = None => Absent \in W \/ ScanClear(r)
  /\ r.unlinked \/ r.then = "deleted" => Absent \in W

WindowOK(r, W) ==
  /\ r.key = None => W = {}
  /\ r.key # None => Current(r.key) \subseteq W

TraceOK(t) ==
  /\ KindOK(th[t], CallPc(t))
  /\ FoundOK(th[t], CallPc(t), window[t])
  /\ WindowOK(th[t], window[t])

RInv == /\ window \in [Threads -> SUBSET (Values \cup {Absent})]
        /\ \A t \in Threads : TraceOK(t)

-----------------------------------------------------------------------------
(* What the table answers. *)

\* A key without an entry is absent; a key with one has its value, and no other.
LEMMA MapCurrent == OneEntry => \A k \in Keys : Current(k) = {AbstractMap[k]}
<1> SUFFICES ASSUME OneEntry, NEW k \in Keys PROVE Current(k) = {AbstractMap[k]}
  OBVIOUS
<1>1. PICK x : Current(k) = {x}
  <2>1. CASE Bound(k) = {}
    BY <2>1 DEF Current
  <2>2. CASE Bound(k) # {}
    <3>1. PICK i : i \in Bound(k)
      BY <2>2
    <3>2. Bound(k) = {i}
      BY <3>1 DEF OneEntry
    <3>3. Current(k) = {ItemAt(slot[i]).val}
      BY <3>2 DEF Current
    <3> QED BY <3>3
  <2> QED BY <2>1, <2>2
<1> QED BY <1>1 DEF AbstractMap

\* The same after the step.
LEMMA MapNext == OneEntry' => (\A k \in Keys : Current(k) = {AbstractMap[k]})'
  BY MapCurrent, PTL

\* An item that is published is a value's.
LEMMA CurrentType == TypeOK /\ NoStaleEntry => \A k : Current(k) \subseteq Values \cup {Absent}
<1> SUFFICES ASSUME TypeOK, NoStaleEntry, NEW k PROVE Current(k) \subseteq Values \cup {Absent}
  OBVIOUS
<1>1. ASSUME NEW i \in Bound(k) PROVE ItemAt(slot[i]).val \in Values
  <2>1. i \in Slots /\ slot[i] # None
    BY DEF Bound
  <2>2. slot[i] \in Location /\ slot[i].off <= Len(items[slot[i].seg])
    BY <2>1 DEF TypeOK, NoStaleEntry
  <2>3. slot[i].seg \in Segments /\ slot[i].off \in Nat \ {0} /\ items[slot[i].seg] \in Seq(Item)
    BY <2>2 DEF Location, TypeOK
  <2>4. slot[i].off \in 1..Len(items[slot[i].seg])
    BY <2>2, <2>3
  <2>5. ItemAt(slot[i]) \in Item
    BY <2>3, <2>4 DEF ItemAt
  <2> QED BY <2>5 DEF Item
<1> QED BY <1>1 DEF Current

\* The same after the step.
LEMMA CurrentTypeNext ==
  TypeOK' /\ NoStaleEntry' => (\A k : Current(k) \subseteq Values \cup {Absent})'
  BY CurrentType, PTL

\* Slot i is empty as before, or publishes the item it did.
EntrySame(i) ==
  /\ slot'[i] = None <=> slot[i] = None
  /\ slot[i] # None => ItemAt(slot[i])' = ItemAt(slot[i])

\* A slot that is left alone publishes the item it did.
LEMMA EntryKept ==
  ASSUME TypeOK, TypeOK', NoStaleEntry, NoStaleEntry', \A s \in Segments : SegmentStep(s),
         NEW i \in Slots, slot'[i] = slot[i]
  PROVE  EntrySame(i)
<1> SUFFICES ASSUME slot[i] # None PROVE ItemAt(slot[i])' = ItemAt(slot[i])
  BY DEF EntrySame
<1>1. PICK w : w = slot[i]
  OBVIOUS
<1>2. w \in Location /\ Issued(w)
  BY <1>1, SlotIssued
<1>3. slot'[i] = w /\ Resolves(w)'
  BY <1>1 DEF NoStaleEntry, Resolves
<1>4. SegmentStep(w.seg)
  BY <1>2 DEF Location
<1>5. ItemAt(w)' = ItemAt(w)
  BY <1>2, <1>3, <1>4, ItemKept
<1> QED BY <1>1, <1>3, <1>5 DEF ItemAt

\* A key whose entry is left alone is bound as before.
LEMMA BoundSame ==
  ASSUME NoStaleEntry, NoStaleEntry', NEW k,
         \A i \in Slots : EntrySame(i) \/ (i \notin Bound(k) /\ i \notin Bound(k)')
  PROVE  Bound(k)' = Bound(k) /\ Current(k)' = Current(k)
<1>1. ASSUME NEW i \in Slots PROVE i \in Bound(k)' <=> i \in Bound(k)
  BY DEF Bound, EntrySame, NoStaleEntry
<1>2. \A i : i \in Bound(k)' => i \in Slots
  BY DEF Bound
<1>3. \A i : i \in Bound(k) => i \in Slots
  BY DEF Bound
<1>4. Bound(k)' = Bound(k)
  BY <1>1, <1>2, <1>3
<1>5. ASSUME NEW i \in Bound(k) PROVE ItemAt(slot[i])' = ItemAt(slot[i])
  BY <1>3, <1>4 DEF EntrySame, Bound
<1>6. CASE Bound(k) = {}
  BY <1>4, <1>6 DEF Current
<1>7. CASE Bound(k) # {}
  <2>1. Current(k) = {ItemAt(slot[i]).val : i \in Bound(k)}
    BY <1>7 DEF Current
  <2>2. Current(k)' = {ItemAt(slot[i])'.val : i \in Bound(k)}
    BY <1>4, <1>7 DEF Current
  <2> QED BY <1>4, <1>5, <2>1, <2>2
<1> QED BY <1>4, <1>6, <1>7

\* The map is as before if every key's answer is.
LEMMA MapSame ==
  ASSUME OneEntry, OneEntry', \A k \in Keys : Current(k)' = Current(k)
  PROVE  AbstractMap' = AbstractMap
<1>1. \A k \in Keys : Current(k) = {AbstractMap[k]} /\ Current(k)' = {AbstractMap'[k]}
  BY MapCurrent, MapNext
<1>2. \A k \in Keys : AbstractMap'[k] = AbstractMap[k]
  BY <1>1
<1>3. /\ AbstractMap = [k \in Keys |-> AbstractMap[k]]
      /\ AbstractMap' = [k \in Keys |-> AbstractMap'[k]]
  BY DEF AbstractMap
<1> QED BY <1>2, <1>3

\* A step that leaves the slots alone changes no answer.
LEMMA TableKept ==
  ASSUME IInv, IInv', slot' = slot, \A s \in Segments : SegmentStep(s)
  PROVE  /\ AbstractMap' = AbstractMap
         /\ \A k : Bound(k)' = Bound(k) /\ Current(k)' = Current(k)
<1>1. TypeOK /\ TypeOK' /\ NoStaleEntry /\ NoStaleEntry' /\ OneEntry /\ OneEntry'
  BY DEF IInv
<1>2. \A i \in Slots : EntrySame(i)
  BY <1>1, EntryKept
<1>3. \A k : Bound(k)' = Bound(k) /\ Current(k)' = Current(k)
  BY <1>1, <1>2, BoundSame
<1> QED BY <1>1, <1>3, MapSame

-----------------------------------------------------------------------------
(* The history variable. *)

\* What has been true of a call's key: at least what is true now, and what had been.
LEMMA WindowNext ==
  ASSUME IInv, IInv', RInv, Record, \A u \in Threads : th'[u].key \in Keys \cup {None}
  PROVE  /\ window' \in [Threads -> SUBSET (Values \cup {Absent})]
         /\ \A u \in Threads : WindowOK(th[u], window[u])'
         /\ \A u \in Threads : th'[u].key = th[u].key => window[u] \subseteq window'[u]
<1>1. ASSUME NEW k \in Keys
      PROVE  /\ Truth[k] = Current(k) /\ Truth'[k] = Current(k)'
             /\ Current(k) \subseteq Values \cup {Absent}
             /\ Current(k)' \subseteq Values \cup {Absent}
  BY CurrentType, CurrentTypeNext DEF Truth, IInv
<1>2. ASSUME NEW u \in Threads
      PROVE  /\ th'[u].key = None => window'[u] = {}
             /\ th'[u].key # None =>
                  window'[u] = window[u] \cup Truth'[th'[u].key]
                                 \cup (IF th[u].key = None THEN Truth[th'[u].key] ELSE {})
  BY DEF Record
<1>3. \A u \in Threads : window[u] \subseteq Values \cup {Absent} /\ WindowOK(th[u], window[u])
  BY DEF RInv, TraceOK
<1>4. ASSUME NEW u \in Threads
      PROVE  /\ window'[u] \subseteq Values \cup {Absent}
             /\ WindowOK(th[u], window[u])'
             /\ th'[u].key = th[u].key => window[u] \subseteq window'[u]
  <2>1. CASE th'[u].key = None
    BY <1>2, <1>3, <2>1 DEF WindowOK
  <2>2. CASE th'[u].key # None
    <3>1. PICK k \in Keys : th'[u].key = k
      BY <2>2
    <3>2. window'[u] = window[u] \cup Current(k)' \cup (IF th[u].key = None THEN Current(k) ELSE {})
      BY <1>1, <1>2, <2>2, <3>1
    <3>3. Current(th[u].key)' \subseteq window'[u]
      BY <3>1, <3>2
    <3>4. window'[u] \subseteq Values \cup {Absent} /\ window[u] \subseteq window'[u]
      BY <1>1, <1>3, <3>2
    <3> QED BY <2>2, <3>3, <3>4 DEF WindowOK
  <2> QED BY <2>1, <2>2
<1>5. window' \in [Threads -> SUBSET (Values \cup {Absent})]
  <2>1. window' = [u \in Threads |-> window'[u]]
    BY DEF Record
  <2> QED BY <1>4, <2>1
<1> QED BY <1>4, <1>5

\* A call's record tells whether there is one.
LEMMA CallNone ==
  ASSUME NEW r, NEW p, KindOK(r, p)
  PROVE  CallOf(r) = Atomic!NoCall <=> r.key = None
  BY DEF KindOK, CallOf, Atomic!NoCall

\* The history variable is what the abstract cache has seen.
LEMMA WatchStep ==
  ASSUME IInv, IInv', RInv, RInv', Record
  PROVE  Atomic!Watch
<1>1. ASSUME NEW u \in Threads
      PROVE  /\ AbstractCall[u] = Atomic!NoCall <=> th[u].key = None
             /\ AbstractCall'[u] = Atomic!NoCall <=> th'[u].key = None
             /\ th'[u].key # None => th'[u].key \in Keys
             /\ AbstractCall'[u].key = th'[u].key
  <2>1. KindOK(th[u], CallPc(u)) /\ KindOK(th[u], CallPc(u))'
    BY DEF RInv, TraceOK
  <2>2. PICK r, p, n, q : r = th[u] /\ p = CallPc(u) /\ n = th'[u] /\ q = CallPc(u)'
    OBVIOUS
  <2>3. KindOK(r, p) /\ KindOK(n, q)
    BY <2>1, <2>2 DEF KindOK, Phases
  <2>4. AbstractCall[u] = CallOf(r) /\ AbstractCall'[u] = CallOf(n)
    BY <2>2 DEF AbstractCall, CallOf
  <2>5. (CallOf(r) = Atomic!NoCall <=> r.key = None) /\ (CallOf(n) = Atomic!NoCall <=> n.key = None)
    BY <2>3, CallNone
  <2>6. CallOf(n).key = n.key /\ (n.key # None => n.key \in Keys)
    BY <2>3 DEF CallOf, KindOK
  <2> QED BY <2>2, <2>4, <2>5, <2>6
<1>2. ASSUME NEW k \in Keys
      PROVE  Truth[k] = {AbstractMap[k]} /\ Truth'[k] = {AbstractMap'[k]}
  BY MapCurrent, MapNext DEF Truth, IInv
<1> DEFINE S(u) == IF AbstractCall'[u] = Atomic!NoCall THEN {}
                   ELSE window[u] \cup {AbstractMap'[AbstractCall'[u].key]}
                     \cup (IF AbstractCall[u] = Atomic!NoCall THEN {AbstractMap[AbstractCall'[u].key]} ELSE {})
<1>3. ASSUME NEW u \in Threads PROVE window'[u] = S(u)
  <2>1. CASE th'[u].key = None
    BY <1>1, <2>1 DEF Record
  <2>2. CASE th'[u].key # None
    BY <1>1, <1>2, <2>2 DEF Record
  <2> QED BY <2>1, <2>2
<1>4. window' = [u \in Threads |-> window'[u]]
  BY DEF Record
<1>5. window' = [u \in Threads |-> S(u)]
  BY <1>3, <1>4
<1> QED BY <1>5 DEF Atomic!Watch

\* No step of the map, and no answer: the abstract cache stutters.
LEMMA Stutters ==
  ASSUME IInv, IInv', RInv, RInv', Record, AbstractMap' = AbstractMap,
         \A u \in Threads : CallOf(th[u])' = CallOf(th[u])
  PROVE  UNCHANGED Atomic!vars
<1>1. AbstractCall' = AbstractCall
  BY DEF AbstractCall
<1>2. ASSUME NEW u \in Threads PROVE window'[u] = window[u]
  <2>1. th'[u].key = th[u].key
    BY DEF CallOf
  <2>2. WindowOK(th[u], window[u])
    BY DEF RInv, TraceOK
  <2>3. CASE th[u].key = None
    BY <2>1, <2>2, <2>3 DEF Record, WindowOK
  <2>4. CASE th[u].key # None
    <3>1. PICK k \in Keys : th[u].key = k
      BY <2>4 DEF RInv, TraceOK, KindOK
    <3>2. Current(k) = {AbstractMap[k]} /\ Truth'[k] = {AbstractMap'[k]}
      BY MapCurrent, MapNext DEF Truth, IInv
    <3>3. Current(k) \subseteq window[u]
      BY <2>2, <2>4, <3>1 DEF WindowOK
    <3>4. window'[u] = window[u] \cup Truth'[k]
      BY <2>1, <2>4, <3>1 DEF Record
    <3> QED BY <3>2, <3>3, <3>4
  <2> QED BY <2>3, <2>4
<1>3. window = [u \in Threads |-> window[u]] /\ window' = [u \in Threads |-> window'[u]]
  BY DEF Record, RInv
<1>4. window' = window
  BY <1>2, <1>3
<1> QED BY <1>1, <1>4 DEF Atomic!vars

-----------------------------------------------------------------------------
(* What a step leaves of what the calls know. *)

\* A step of thread t: what the other calls rely on.
Steady(t) ==
  /\ \A u \in Threads : u # t => th'[u] = th[u] /\ dr'[u] = dr[u]
  /\ \A s \in Segments : SegmentStep(s)
  /\ \A s \in Segments : gen'[s] # gen[s] =>
       \A u \in Threads : u # t /\ th[u].pin # None => th[u].pin.seg # s
  /\ \A k \in Keys : Bound(k)' \subseteq Bound(k) \/ Bound(k) = {}
  /\ Record

\* What a call has found stays found: its locations resolve to the same items or to
\* none, its pin keeps its segment's incarnation, and no key it has not met appears
\* without having been absent.
LEMMA FoundKept ==
  ASSUME TypeOK, TypeOK', \A s \in Segments : SegmentStep(s),
         NEW r, NEW p, NEW W, NEW V, W \subseteq V, FoundOK(r, p, W),
         p \in FoundPcs \cup {"verify"} => Issued(r.word),
         r.new # None => Issued(r.new) /\ Resolves(r.new)',
         r.pin # None => gen'[r.pin.seg] = gen[r.pin.seg],
         p \in {"scan", "verify"} => r.pc = p /\ (Bound(r.key)' \subseteq Bound(r.key) \/ Absent \in V)
  PROVE  FoundOK(r, p, V)'
<1>1. ASSUME NEW w, Issued(w), Resolves(w)' PROVE Resolves(w) /\ ItemAt(w)' = ItemAt(w)
  <2>1. w \in Location /\ w.seg \in Segments
    BY <1>1 DEF Issued, Location
  <2> QED BY <1>1, <2>1, ItemKept
<1>2. ASSUME NEW w, Issued(w) PROVE Issued(w)'
  <2>1. w \in Location /\ w.seg \in Segments
    BY <1>2 DEF Issued, Location
  <2> QED BY <1>2, <2>1, IssuedKept
<1>3. ASSUME NEW w, Issued(w), Readable(w)' PROVE Readable(w)
  <2>1. w \in Location /\ w.seg \in Segments
    BY <1>3 DEF Issued, Location
  <2> QED BY <1>3, <2>1, UnreadableKept
<1>4. PICK word, new, pin, at, left, k :
        /\ word = r.word /\ new = r.new /\ pin = r.pin /\ at = r.at /\ left = r.left /\ k = r.key
  OBVIOUS
<1>5. ASSUME p \in FoundPcs, Resolves(word)' PROVE ItemAt(word)'.key = k
  <2>1. Issued(word)
    BY <1>4, <1>5
  <2>2. Resolves(word) /\ ItemAt(word)' = ItemAt(word)
    BY <1>1, <1>5, <2>1
  <2> QED BY <1>4, <1>5, <2>2 DEF FoundOK
<1>6. ASSUME new # None PROVE ItemAt(new)'.val = r.val
  <2>1. ItemAt(new)' = ItemAt(new)
    BY <1>1, <1>4, <1>6
  <2> QED BY <1>4, <1>6, <2>1 DEF FoundOK
<1>7. ASSUME pin # None
      PROVE  /\ Issued(pin)' /\ Resolves(pin)'
             /\ ItemAt(pin)'.key = k /\ ItemAt(pin)'.val \in V
  <2>1. Issued(pin) /\ Resolves(pin) /\ ItemAt(pin).key = k /\ ItemAt(pin).val \in V
    BY <1>4, <1>7 DEF FoundOK
  <2>2. Resolves(pin)'
    BY <1>4, <1>7, <2>1 DEF Resolves
  <2>3. ItemAt(pin)' = ItemAt(pin)
    BY <1>1, <2>1, <2>2
  <2> QED BY <1>2, <2>1, <2>2, <2>3
<1>8. ASSUME r.op = "get", p \in {"verify", "acquire"}, Resolves(word)', ItemAt(word)'.key = k
      PROVE  ItemAt(word)'.val \in V
  <2>1. Issued(word)
    BY <1>4, <1>8 DEF FoundPcs
  <2>2. Resolves(word) /\ ItemAt(word)' = ItemAt(word)
    BY <1>1, <1>8, <2>1
  <2> QED BY <1>4, <1>8, <2>2 DEF FoundOK
<1>9. ASSUME r.op = "get", p \in {"scan", "verify"}, r.unk = None
      PROVE  Absent \in V \/ ScanClear(r)'
  <2> SUFFICES ASSUME Absent \notin V PROVE ScanClear(r)'
    OBVIOUS
  <2>1. ScanClear(r) /\ Bound(k)' \subseteq Bound(k)
    BY <1>4, <1>9 DEF FoundOK
  <2>2. \A i \in Bound(k)' : i \in left \/ (r.pc = "verify" /\ i = at)
    BY <1>4, <2>1 DEF ScanClear
  <2>3. ASSUME r.pc = "verify", at \in Bound(k)', Readable(word)' PROVE ItemAt(word)'.key = k
    <3>1. Issued(word)
      BY <1>4, <1>9, <2>3
    <3>2. Readable(word) /\ at \in Bound(k)
      BY <1>3, <2>1, <2>3, <3>1
    <3>3. ItemAt(word).key = k
      BY <1>4, <2>1, <2>3, <3>2 DEF ScanClear
    <3>4. Resolves(word)'
      BY <2>3 DEF Readable
    <3>5. ItemAt(word)' = ItemAt(word)
      BY <1>1, <3>1, <3>4
    <3> QED BY <3>3, <3>5
  <2> QED BY <1>4, <2>2, <2>3 DEF ScanClear
<1>10. r.unlinked \/ r.then = "deleted" => Absent \in V
  BY DEF FoundOK
<1> QED BY <1>4, <1>5, <1>6, <1>7, <1>8, <1>9, <1>10 DEF FoundOK

\* The item a call has reserved is issued.
LEMMA NewIssued ==
  ASSUME TypeOK, NEW r, NewOK(r), r.new # None
  PROVE  Issued(r.new) /\ Resolves(r.new)
<1>1. PICK w : w = r.new
  OBVIOUS
<1>2. /\ w \in Location /\ Resolves(w) /\ w.off <= Len(items[w.seg])
      /\ st[w.seg] \in {"Live", "Sealed", "Draining"}
  BY <1>1 DEF NewOK
<1>3. w.seg \in Segments /\ w.gen \in Nat /\ gen[w.seg] \in Nat
  BY <1>2 DEF Location, TypeOK
<1> QED BY <1>1, <1>2, <1>3 DEF Issued, Resolves

\* The calls of the other threads.
LEMMA OtherCalls ==
  ASSUME IInv, IInv', RInv, NEW t \in Threads, Steady(t), NEW u \in Threads, u # t,
         window[u] \subseteq window'[u]
  PROVE  KindOK(th[u], CallPc(u))' /\ FoundOK(th[u], CallPc(u), window[u])'
<1>1. PICK r, p, W, V : r = th[u] /\ p = CallPc(u) /\ W = window[u] /\ V = window'[u]
  OBVIOUS
<1>2. th'[u] = r /\ CallPc(u)' = p
  BY <1>1 DEF Steady, CallPc
<1>3. KindOK(r, p) /\ FoundOK(r, p, W) /\ WindowOK(r, W) /\ W \subseteq V
  BY <1>1 DEF RInv, TraceOK
<1>4. KindOK(th[u], CallPc(u))'
  BY <1>2, <1>3 DEF KindOK
<1>5. TypeOK /\ TypeOK' /\ StepOK(r, p) /\ WordsOK(r, p) /\ NewOK(r)
  BY <1>1 DEF IInv, ThreadOK, CallOK
<1>6. p \in FoundPcs \cup {"verify"} => Issued(r.word)
  BY <1>5 DEF WordsOK, WordPcs, FoundPcs
<1>7. r.new # None => Issued(r.new) /\ Resolves(r.new)'
  <2>1. NewOK(th[u])'
    BY DEF IInv, ThreadOK, CallOK
  <2>2. r.new # None => Resolves(r.new)'
    BY <1>2, <2>1 DEF NewOK, Resolves
  <2> QED BY <1>5, <2>2, NewIssued
<1>8. r.pin # None => gen'[r.pin.seg] = gen[r.pin.seg]
  <2>1. r.pin # None => r.pin.seg \in Segments
    BY <1>3 DEF FoundOK, Issued, Location
  <2> QED BY <1>1, <2>1 DEF Steady
<1>9. p \in {"scan", "verify"} => r.pc = p
  <2>1. th[u].pc \in DrainPcs => dr[u].ret \in {"idle", "reserve", "tail"}
    BY DEF IInv, ThreadOK, DrainOK
  <2> QED BY <1>1, <2>1 DEF CallPc
<1>10. p \in {"scan", "verify"} => Bound(r.key)' \subseteq Bound(r.key) \/ Absent \in V
  <2> SUFFICES ASSUME p \in {"scan", "verify"} PROVE Bound(r.key)' \subseteq Bound(r.key) \/ Absent \in V
    OBVIOUS
  <2>1. PICK k \in Keys : k = r.key
    BY <1>3 DEF KindOK
  <2>2. k # None
    BY SentinelAssumption
  <2>3. Current(k) \subseteq V
    BY <1>3, <2>1, <2>2 DEF WindowOK
  <2>4. Bound(k) = {} => Absent \in V
    BY <2>3 DEF Current
  <2>5. Bound(k)' \subseteq Bound(k) \/ Bound(k) = {}
    BY DEF Steady
  <2> QED BY <2>1, <2>4, <2>5
<1>11. \A s \in Segments : SegmentStep(s)
  BY DEF Steady
<1>12. FoundOK(r, p, V)'
  BY <1>3, <1>5, <1>6, <1>7, <1>8, <1>9, <1>10, <1>11, FoundKept
<1>13. FoundOK(th[u], CallPc(u), window[u])'
  BY <1>1, <1>2, <1>12 DEF FoundOK
<1> QED BY <1>4, <1>13

\* The invariant after a step of t: what t itself has to show.
LEMMA TraceStep ==
  ASSUME IInv, IInv', RInv, NEW t \in Threads, Steady(t), NEW n, th'[t] = n,
         NEW q, CallPc(t)' = q, KindOK(n, q), NEW V, V = window'[t],
         /\ n.key = th[t].key => window[t] \subseteq V
         /\ n.key # None => Current(n.key)' \subseteq V
         => FoundOK(n, q, V)'
  PROVE  RInv'
<1>1. \A u \in Threads : th'[u].key \in Keys \cup {None}
  <2>1. n.key \in Keys \cup {None}
    BY DEF KindOK
  <2>2. \A u \in Threads : u # t => th'[u].key \in Keys \cup {None}
    BY DEF Steady, RInv, TraceOK, KindOK
  <2> QED BY <2>1, <2>2
<1>2. /\ window' \in [Threads -> SUBSET (Values \cup {Absent})]
      /\ \A u \in Threads : WindowOK(th[u], window[u])'
      /\ \A u \in Threads : th'[u].key = th[u].key => window[u] \subseteq window'[u]
  BY <1>1, WindowNext DEF Steady
<1>3. ASSUME NEW u \in Threads, u # t PROVE TraceOK(u)'
  <2>1. window[u] \subseteq window'[u]
    BY <1>2, <1>3 DEF Steady
  <2>2. KindOK(th[u], CallPc(u))' /\ FoundOK(th[u], CallPc(u), window[u])'
    BY <1>3, <2>1, OtherCalls
  <2> QED BY <1>2, <2>2 DEF TraceOK
<1>4. TraceOK(t)'
  <2>1. KindOK(th[t], CallPc(t))'
    BY DEF KindOK
  <2>2. n.key = th[t].key => window[t] \subseteq V
    BY <1>2
  <2>3. n.key # None => Current(n.key)' \subseteq V
    <3>1. WindowOK(th[t], window[t])'
      BY <1>2
    <3> QED BY <3>1 DEF WindowOK
  <2>4. FoundOK(n, q, V)'
    BY <2>2, <2>3
  <2>5. FoundOK(th[t], CallPc(t), window[t])'
    BY <2>4 DEF FoundOK
  <2> QED BY <1>2, <2>1, <2>5 DEF TraceOK
<1> QED BY <1>2, <1>3, <1>4 DEF RInv

-----------------------------------------------------------------------------
(* Steps of the abstract cache. *)

AtomicStep == Atomic!Next \/ UNCHANGED Atomic!vars

\* The answers a call may give when W has been true of its key.
Allowed(r, res, W) ==
  \/ r.op = "get" /\ res \in W \cup {"spent"}
  \/ r.op = "insert" /\ res = IF r.then = "ok" THEN "ok" ELSE "err"
  \/ r.op = "delete" /\ res = "missing"
  \/ r.op = "delete" /\ res = "deleted" /\ Absent \in W

\* From r to n a call goes on, or gives an answer that is allowed to it.
Proceeds(r, n, W) ==
  /\ n.op = r.op /\ n.key = r.key /\ n.val = r.val
  /\ r.op = "insert" => ("ok" \in {n.then, n.res} <=> "ok" \in {r.then, r.res})
  /\ n.res # r.res => r.res = None /\ Allowed(r, n.res, W)

\* Only t's call changes, and so does the abstract one.
LEMMA CallChange ==
  ASSUME NEW t \in Threads, \A u \in Threads : u # t => th'[u] = th[u], NEW c, CallOf(th[t])' = c
  PROVE  AbstractCall' = [AbstractCall EXCEPT ![t] = c]
<1>1. ASSUME NEW u \in Threads, u # t PROVE CallOf(th[u])' = CallOf(th[u])
  BY <1>1 DEF CallOf
<1> QED BY <1>1 DEF AbstractCall

\* A call goes on, or answers.
LEMMA ProceedStep ==
  ASSUME IInv, IInv', RInv, RInv', Record, AbstractMap' = AbstractMap, NEW t \in Threads,
         \A u \in Threads : u # t => th'[u] = th[u],
         NEW n, th'[t] = n, Proceeds(th[t], n, window[t])
  PROVE  AtomicStep
<1>1. PICK r, W : r = th[t] /\ W = window[t]
  OBVIOUS
<1>2. Proceeds(r, n, W)
  BY <1>1
<1>3. CallOf(th[t]) = CallOf(r) /\ CallOf(th[t])' = CallOf(n)
  BY <1>1 DEF CallOf
<1>4. CASE n.res = r.res
  <2>1. CallOf(n) = CallOf(r)
    BY <1>2, <1>4 DEF Proceeds, Allowed, CallOf
  <2>2. ASSUME NEW u \in Threads PROVE CallOf(th[u])' = CallOf(th[u])
    <3>1. CASE u = t
      BY <1>3, <2>1, <3>1
    <3>2. CASE u # t
      BY <3>2 DEF CallOf
    <3> QED BY <3>1, <3>2
  <2> QED BY <2>2, Stutters DEF AtomicStep
<1>5. CASE n.res # r.res
  <2>1. PICK c : c = CallOf(r)
    OBVIOUS
  <2>2. PICK res : res = n.res
    OBVIOUS
  <2>3. CallOf(n) = [c EXCEPT !.res = res]
    BY <1>2, <2>1, <2>2 DEF Proceeds, Allowed, CallOf
  <2>4. /\ c.op = r.op /\ c.res = None /\ c.key = r.key
        /\ c.bound = (r.op = "insert" /\ r.then = "ok")
    BY <1>2, <1>5, <2>1, AnswerAssumption DEF Proceeds, Allowed, CallOf
  <2>5. AbstractCall[t] = c
    BY <1>3, <2>1 DEF AbstractCall
  <2>6. AbstractCall' = [AbstractCall EXCEPT ![t] = [c EXCEPT !.res = res]]
    BY <1>3, <2>3, CallChange
  <2>7. AbstractCall' = [AbstractCall EXCEPT ![t].res = res]
    BY <2>5, <2>6
  <2>8. c # Atomic!NoCall
    BY <1>2, <1>5, <2>4 DEF Proceeds, Allowed, Atomic!NoCall
  <2>9. res \in Atomic!Answers(t)
    <3>1. CASE r.op = "get"
      BY <1>1, <1>2, <1>5, <2>2, <2>4, <2>5, <3>1 DEF Proceeds, Allowed, Atomic!Answers
    <3>2. CASE r.op = "insert"
      BY <1>1, <1>2, <1>5, <2>2, <2>4, <2>5, <3>2 DEF Proceeds, Allowed, Atomic!Answers
    <3>3. CASE r.op = "delete"
      BY <1>1, <1>2, <1>5, <2>2, <2>4, <2>5, <3>3 DEF Proceeds, Allowed, Atomic!Answers
    <3> QED BY <1>2, <1>5, <3>1, <3>2, <3>3 DEF Proceeds, Allowed
  <2>10. Atomic!Watch
    BY WatchStep
  <2>11. Atomic!Answer(t)
    BY <2>4, <2>5, <2>7, <2>8, <2>9, <2>10 DEF Atomic!Answer
  <2> QED BY <2>11 DEF AtomicStep, Atomic!Next
<1> QED BY <1>4, <1>5

-----------------------------------------------------------------------------
(* Steps of a call that leave the table alone. *)

\* A call that goes on, or answers, while no entry changes.
LEMMA GoesOn ==
  ASSUME IInv, IInv', RInv, NEW t \in Threads, NEW n, Set(t, n), UNCHANGED <<slot, dr>>, Record,
         \A s \in Segments : SegmentStep(s),
         \A s \in Segments : gen'[s] # gen[s] =>
           \A u \in Threads : u # t /\ th[u].pin # None => th[u].pin.seg # s,
         n.pc \notin DrainPcs,
         KindOK(n, n.pc), FoundOK(n, n.pc, window[t]), Proceeds(th[t], n, window[t]),
         n.pc \in FoundPcs \cup {"verify"} => Issued(n.word),
         n.new # None => Issued(n.new),
         n.pin # None => gen'[n.pin.seg] = gen[n.pin.seg]
  PROVE  RInv' /\ AtomicStep
<1>1. TypeOK /\ TypeOK' /\ DOMAIN th = Threads
  BY DEF IInv, TypeOK
<1>2. th'[t] = n /\ \A u \in Threads : u # t => th'[u] = th[u]
  BY <1>1 DEF Set
<1>3. CallPc(t)' = n.pc
  BY <1>2 DEF CallPc
<1>4. AbstractMap' = AbstractMap /\ \A k : Bound(k)' = Bound(k) /\ Current(k)' = Current(k)
  BY TableKept
<1>5. Steady(t)
  BY <1>2, <1>4 DEF Steady
<1>6. n.new # None => Resolves(n.new)'
  <2>1. NewOK(th[t])'
    BY DEF IInv, ThreadOK, CallOK
  <2> QED BY <1>2, <2>1 DEF NewOK, Resolves
<1>7. PICK V : V = window'[t]
  OBVIOUS
<1>8. PICK q : q = n.pc
  OBVIOUS
<1>9. ASSUME window[t] \subseteq V PROVE FoundOK(n, q, V)'
  <2>1. PICK W : W = window[t]
    OBVIOUS
  <2>2. FoundOK(n, q, W) /\ W \subseteq V
    BY <1>8, <1>9, <2>1
  <2>3. Bound(n.key)' \subseteq Bound(n.key)
    BY <1>4
  <2>4. q \in FoundPcs \cup {"verify"} => Issued(n.word)
    BY <1>8
  <2> QED BY <1>1, <1>6, <1>8, <2>2, <2>3, <2>4, FoundKept
<1>10. n.key = th[t].key
  BY DEF Proceeds
<1>11. KindOK(n, q) /\ CallPc(t)' = q
  BY <1>3, <1>8
<1>12. RInv'
  BY <1>2, <1>5, <1>7, <1>9, <1>10, <1>11, TraceStep
<1>13. AtomicStep
  BY <1>2, <1>4, <1>12, ProceedStep
<1> QED BY <1>12, <1>13

\* The same when no segment changes its state either.
LEMMA CallTrace ==
  ASSUME IInv, IInv', RInv, NEW t \in Threads, NEW n, Set(t, n),
         UNCHANGED <<slot, st, gen, items, dr>>, Record,
         n.pc \notin DrainPcs, KindOK(n, n.pc), FoundOK(n, n.pc, window[t]),
         Proceeds(th[t], n, window[t])
  PROVE  RInv' /\ AtomicStep
<1>1. TypeOK /\ DOMAIN th = Threads
  BY DEF IInv, TypeOK
<1>2. th'[t] = n
  BY <1>1 DEF Set
<1>3. CallPc(t)' = n.pc
  BY <1>2 DEF CallPc
<1>4. \A s \in Segments : SegmentStep(s)
  BY <1>1 DEF TypeOK, SegmentStep
<1>5. WordsOK(th[t], CallPc(t))' /\ NewOK(th[t])'
  BY DEF IInv, ThreadOK, CallOK
<1>6. \A w : Issued(w)' <=> Issued(w)
  BY DEF Issued, Resolves
<1>7. n.pc \in FoundPcs \cup {"verify"} => Issued(n.word)
  <2>1. n.pc \in WordPcs => Issued(n.word)'
    BY <1>2, <1>3, <1>5 DEF WordsOK, Issued, Resolves
  <2> QED BY <1>6, <2>1 DEF FoundPcs, WordPcs
<1>8. n.new # None => Issued(n.new)
  <2>1. NewOK(n)
    BY <1>2, <1>5 DEF NewOK, Resolves, ItemAt
  <2> QED BY <1>1, <2>1, NewIssued
<1> QED BY <1>4, <1>7, <1>8, GoesOn

\* What is known of a call that is not in a drain.
LEMMA AtCall ==
  ASSUME IInv, RInv, NEW t \in Threads, th[t].pc \notin DrainPcs
  PROVE  /\ DOMAIN th[t] = ThreadFields
         /\ StepOK(th[t], th[t].pc) /\ WordsOK(th[t], th[t].pc) /\ NewOK(th[t])
         /\ KindOK(th[t], th[t].pc) /\ FoundOK(th[t], th[t].pc, window[t])
         /\ WindowOK(th[t], window[t])
  BY AtStep DEF RInv, TraceOK, CallPc

\* The Acquire load of one slot.
LEMMA LoadTrace ==
  ASSUME IInv, IInv', RInv, NEW t \in Threads, NEW i \in Slots, Load(t, i)
  PROVE  RInv' /\ AtomicStep
<1>0. PICK r, W : r = th[t] /\ W = window[t]
  OBVIOUS
<1>1. r.pc = "scan" /\ i \in r.left /\ UNCHANGED <<slot, st, gen, items, dr>> /\ Record
  BY <1>0 DEF Load, segs
<1>2. /\ DOMAIN r = ThreadFields /\ StepOK(r, "scan") /\ KindOK(r, "scan")
      /\ FoundOK(r, "scan", W) /\ WindowOK(r, W)
  BY <1>0, <1>1, AtCall DEF DrainPcs
<1>3. CASE slot[i] = None
  <2>1. PICK n : n = [r EXCEPT !.left = @ \ {i}]
    OBVIOUS
  <2>2. Set(t, n)
    BY <1>0, <1>3, <2>1 DEF Load
  <2>3. n.pc = "scan" /\ n.left = r.left \ {i}
    BY <1>1, <1>2, <2>1 DEF ThreadFields
  <2>4. /\ n.op = r.op /\ n.key = r.key /\ n.val = r.val /\ n.phase = r.phase /\ n.then = r.then
        /\ n.res = r.res /\ n.pin = r.pin /\ n.new = r.new /\ n.word = r.word /\ n.unk = r.unk
        /\ n.unlinked = r.unlinked
    BY <1>2, <2>1 DEF ThreadFields
  <2>5. KindOK(n, "scan")
    BY <1>2, <2>4 DEF KindOK
  <2>6. Proceeds(r, n, W)
    BY <2>4 DEF Proceeds
  <2>7. ScanClear(r) => ScanClear(n)
    BY <1>1, <1>3, <2>3, <2>4 DEF ScanClear, Bound
  <2>8. FoundOK(n, "scan", W)
    BY <1>2, <2>4, <2>7 DEF FoundOK
  <2> QED BY <1>0, <1>1, <2>2, <2>3, <2>5, <2>6, <2>8, CallTrace DEF DrainPcs
<1>4. CASE slot[i] # None
  <2>1. PICK n : n = [r EXCEPT !.pc = "verify", !.left = @ \ {i}, !.at = i, !.word = slot[i]]
    OBVIOUS
  <2>2. Set(t, n)
    BY <1>0, <1>4, <2>1 DEF Load
  <2>3. n.pc = "verify" /\ n.left = r.left \ {i} /\ n.at = i /\ n.word = slot[i]
    BY <1>1, <1>2, <2>1 DEF ThreadFields
  <2>4. /\ n.op = r.op /\ n.key = r.key /\ n.val = r.val /\ n.phase = r.phase /\ n.then = r.then
        /\ n.res = r.res /\ n.pin = r.pin /\ n.new = r.new /\ n.unk = r.unk
        /\ n.unlinked = r.unlinked
    BY <1>2, <2>1 DEF ThreadFields
  <2>5. KindOK(n, "verify")
    BY <1>2, <2>4 DEF KindOK
  <2>6. Proceeds(r, n, W)
    BY <2>4 DEF Proceeds
  <2>7. \A k : i \in Bound(k) <=> ItemAt(slot[i]).key = k
    BY <1>4, SlotIssued DEF IInv
  <2>8. ScanClear(r) => ScanClear(n)
    BY <1>1, <2>3, <2>4, <2>7 DEF ScanClear
  <2>9. ItemAt(slot[i]).key = r.key => ItemAt(slot[i]).val \in W
    <3>1. r.key # None
      BY <1>2 DEF KindOK
    <3>2. i \in Bound(r.key) => ItemAt(slot[i]).val \in Current(r.key)
      BY DEF Current
    <3> QED BY <1>2, <2>7, <3>1, <3>2 DEF WindowOK
  <2>10. FoundOK(n, "verify", W)
    BY <1>2, <2>3, <2>4, <2>8, <2>9 DEF FoundOK, FoundPcs
  <2> QED BY <1>0, <1>1, <2>2, <2>3, <2>5, <2>6, <2>10, CallTrace DEF DrainPcs
<1> QED BY <1>3, <1>4

\* A call that answers.
LEMMA AnswerShape ==
  ASSUME NEW r, NEW p, NEW W \in SUBSET (Values \cup {Absent}), NEW res, NEW n,
         n = Answering(r, res), KindOK(r, p), FoundOK(r, p, W), p \notin {"idle", "done"},
         Allowed(r, res, W)
  PROVE  /\ n.pc = "done" /\ n.new = None /\ n.pin = r.pin
         /\ KindOK(n, n.pc) /\ FoundOK(n, n.pc, W) /\ Proceeds(r, n, W)
<1>1. /\ n.pc = "done" /\ n.op = r.op /\ n.key = r.key /\ n.val = r.val /\ n.res = res
      /\ n.pin = r.pin /\ n.new = None /\ n.then = "none" /\ n.phase = "none" /\ n.unlinked = FALSE
  BY DEF Answering, Idle
<1>2. res # None /\ r.res = None
  BY AnswerAssumption DEF Allowed, KindOK
<1>3. KindOK(n, "done")
  BY <1>1, <1>2 DEF KindOK
<1>4. FoundOK(n, "done", W)
  BY <1>1 DEF FoundOK, FoundPcs
<1>5. Proceeds(r, n, W)
  BY <1>1, <1>2, AnswerAssumption DEF Proceeds, Allowed
<1> QED BY <1>1, <1>3, <1>4, <1>5

\* A call that scans the bucket once more.
LEMMA ScanShape ==
  ASSUME NEW r, NEW p, NEW W, NEW phase, NEW n, n = Scanning(r, phase), DOMAIN r = ThreadFields,
         KindOK(r, p), FoundOK(r, p, W), p \notin {"idle", "done"},
         phase \in Phases(r.op), phase = "recheck" => r.unlinked
  PROVE  /\ n.pc = "scan" /\ n.new = r.new /\ n.pin = r.pin
         /\ KindOK(n, n.pc) /\ FoundOK(n, n.pc, W) /\ Proceeds(r, n, W)
<1>1. /\ n.pc = "scan" /\ n.op = r.op /\ n.key = r.key /\ n.val = r.val /\ n.res = r.res
      /\ n.pin = r.pin /\ n.new = r.new /\ n.then = r.then /\ n.phase = phase
      /\ n.unlinked = r.unlinked /\ n.left = Slots
  BY DEF Scanning, ThreadFields
<1>2. KindOK(n, "scan")
  BY <1>1 DEF KindOK
<1>3. ScanClear(n)
  BY <1>1 DEF ScanClear, Bound
<1>4. FoundOK(n, "scan", W)
  BY <1>1, <1>3 DEF FoundOK, FoundPcs
<1>5. Proceeds(r, n, W)
  BY <1>1 DEF Proceeds
<1> QED BY <1>1, <1>2, <1>4, <1>5

\* An insert that gives its reservation up.
LEMMA RollShape ==
  ASSUME NEW r, NEW p, NEW W, NEW w, NEW then \in {"wait", "err"}, NEW n,
         n = RollingBack(r, w, then), DOMAIN r = ThreadFields,
         KindOK(r, p), FoundOK(r, p, W), p # "done", r.op = "insert", r.then = "none"
  PROVE  /\ n.pc = "undo" /\ n.new = None /\ n.pin = r.pin
         /\ KindOK(n, n.pc) /\ FoundOK(n, n.pc, W) /\ Proceeds(r, n, W)
<1>1. /\ n.pc = "undo" /\ n.op = r.op /\ n.key = r.key /\ n.val = r.val /\ n.res = r.res
      /\ n.pin = r.pin /\ n.new = None /\ n.then = then /\ n.phase = "none"
      /\ n.unlinked = r.unlinked
  BY DEF RollingBack, ThreadFields
<1>2. p # "idle"
  BY DEF KindOK
<1>3. KindOK(n, "undo")
  BY <1>1, <1>2 DEF KindOK
<1>4. FoundOK(n, "undo", W)
  BY <1>1 DEF FoundOK, FoundPcs
<1>5. Proceeds(r, n, W)
  BY <1>1, <1>2, AnswerAssumption DEF Proceeds, KindOK
<1> QED BY <1>1, <1>3, <1>4, <1>5

\* A get without its pin.
LEMMA Unpinned ==
  ASSUME NEW r, NEW p, NEW W, DOMAIN r = ThreadFields, KindOK(r, p), FoundOK(r, p, W),
         r.pc = p, p \in {"scan", "verify"}, NEW n, n = [r EXCEPT !.pin = None]
  PROVE  /\ DOMAIN n = ThreadFields /\ n.pin = None /\ n.new = r.new /\ n.pc = p
         /\ n.op = r.op /\ n.key = r.key /\ n.val = r.val /\ n.then = r.then /\ n.res = r.res
         /\ KindOK(n, p) /\ FoundOK(n, p, W)
<1>1. /\ DOMAIN n = ThreadFields /\ n.op = r.op /\ n.key = r.key /\ n.val = r.val /\ n.res = r.res
      /\ n.pin = None /\ n.new = r.new /\ n.then = r.then /\ n.phase = r.phase /\ n.pc = r.pc
      /\ n.unlinked = r.unlinked /\ n.left = r.left /\ n.at = r.at /\ n.word = r.word /\ n.unk = r.unk
  BY DEF ThreadFields
<1>2. KindOK(n, p)
  BY <1>1 DEF KindOK
<1>3. ScanClear(n) <=> ScanClear(r)
  BY <1>1 DEF ScanClear
<1>4. FoundOK(n, p, W)
  BY <1>1, <1>3 DEF FoundOK
<1> QED BY <1>1, <1>2, <1>4

\* What a dropped pin leaves of the segments.
LEMMA DropSteady ==
  ASSUME IInv, NEW t \in Threads, DropReader(t)
  PROVE  /\ \A s \in Segments : SegmentStep(s)
         /\ \A s \in Segments : gen'[s] # gen[s] =>
              \A u \in Threads : u # t /\ th[u].pin # None => th[u].pin.seg # s
<1>1. TypeOK
  BY DEF IInv
<1>2. CASE UNCHANGED segs
  BY <1>1, <1>2 DEF TypeOK, SegmentStep, segs
<1>3. CASE ~ UNCHANGED segs
  <2>1. PICK x : x = th[t].pin.seg
    OBVIOUS
  <2>2. PinsReader(x) = {t} /\ Recycle(x)
    BY <1>3, <2>1 DEF DropReader
  <2>3. \A u \in Threads : u # t /\ th[u].pin # None => th[u].pin.seg # x
    BY <2>2 DEF PinsReader
  <2>4. ASSUME NEW s \in Segments, s # x PROVE gen'[s] = gen[s] /\ SegmentStep(s)
    BY <1>1, <2>2, <2>4 DEF TypeOK, Recycle, SegmentStep
  <2>5. x \in Segments => SegmentStep(x)
    BY <1>1, <2>2 DEF TypeOK, Recycle, SegmentStep
  <2> QED BY <2>3, <2>4, <2>5
<1> QED BY <1>2, <1>3

\* A call that goes on, or answers, and drops its pin.
LEMMA DropTrace ==
  ASSUME IInv, IInv', RInv, NEW t \in Threads, NEW n, Set(t, n), UNCHANGED <<slot, dr>>, Record,
         DropReader(t), n.pc \notin DrainPcs,
         KindOK(n, n.pc), FoundOK(n, n.pc, window[t]), Proceeds(th[t], n, window[t]),
         n.pc \in FoundPcs \cup {"verify"} => Issued(n.word), n.new = None, n.pin = None
  PROVE  RInv' /\ AtomicStep
  BY DropSteady, GoesOn

\* A scan's phase tells the operation.
LEMMA PhaseOp ==
  ASSUME NEW r, NEW p \in {"scan", "verify"}, KindOK(r, p)
  PROVE  /\ r.op \in {"get", "insert", "delete"} /\ r.phase \in Phases(r.op)
         /\ r.phase \in {"get", "cold"} <=> r.op = "get"
         /\ r.phase \in WritePhases <=> r.op = "insert"
         /\ r.phase \in {"delete", "recheck"} <=> r.op = "delete"
<1>1. r.op \in {"get", "insert", "delete"} /\ r.phase \in Phases(r.op)
  BY DEF KindOK
<1>2. CASE r.op = "get"
  BY <1>1, <1>2 DEF Phases, WritePhases
<1>3. CASE r.op = "insert"
  BY <1>1, <1>3 DEF Phases, WritePhases
<1>4. CASE r.op = "delete"
  BY <1>1, <1>4 DEF Phases, WritePhases
<1> QED BY <1>1, <1>2, <1>3, <1>4

\* A call's answer, with the pin it keeps.
LEMMA AnswerTrace ==
  ASSUME IInv, IInv', RInv, NEW t \in Threads, NEW res, Set(t, Answering(th[t], res)),
         UNCHANGED <<slot, st, gen, items, dr>>, Record,
         th[t].pc \notin DrainPcs \cup {"idle", "done"}, Allowed(th[t], res, window[t])
  PROVE  RInv' /\ AtomicStep
<1>1. PICK r, W, p, n : r = th[t] /\ W = window[t] /\ p = r.pc /\ n = Answering(r, res)
  OBVIOUS
<1>2. KindOK(r, p) /\ FoundOK(r, p, W) /\ W \in SUBSET (Values \cup {Absent})
  BY <1>1, AtCall DEF RInv
<1>3. n.pc = "done" /\ KindOK(n, n.pc) /\ FoundOK(n, n.pc, W) /\ Proceeds(r, n, W)
  BY <1>1, <1>2, AnswerShape
<1>4. Set(t, n)
  BY <1>1
<1> QED BY <1>1, <1>3, <1>4, CallTrace DEF DrainPcs

\* A scan begun again.
LEMMA ScanTrace ==
  ASSUME IInv, IInv', RInv, NEW t \in Threads, NEW phase, Set(t, Scanning(th[t], phase)),
         UNCHANGED <<slot, st, gen, items, dr>>, Record,
         th[t].pc \notin DrainPcs \cup {"idle", "done"}, phase \in Phases(th[t].op), phase # "recheck"
  PROVE  RInv' /\ AtomicStep
<1>1. PICK r, W, p, n : r = th[t] /\ W = window[t] /\ p = r.pc /\ n = Scanning(r, phase)
  OBVIOUS
<1>2. KindOK(r, p) /\ FoundOK(r, p, W) /\ DOMAIN r = ThreadFields
  BY <1>1, AtCall
<1>3. n.pc = "scan" /\ KindOK(n, n.pc) /\ FoundOK(n, n.pc, W) /\ Proceeds(r, n, W)
  BY <1>1, <1>2, ScanShape
<1>4. Set(t, n)
  BY <1>1
<1> QED BY <1>1, <1>3, <1>4, CallTrace DEF DrainPcs

\* A reservation rolled back.
LEMMA RollTrace ==
  ASSUME IInv, IInv', RInv, NEW t \in Threads, NEW w, NEW then \in {"wait", "err"},
         Set(t, RollingBack(th[t], w, then)),
         UNCHANGED <<slot, st, gen, items, dr>>, Record,
         th[t].pc \notin DrainPcs \cup {"done", "undo", "remove", "tail"}, th[t].op = "insert"
  PROVE  RInv' /\ AtomicStep
<1>1. PICK r, W, p, n : r = th[t] /\ W = window[t] /\ p = r.pc /\ n = RollingBack(r, w, then)
  OBVIOUS
<1>2. KindOK(r, p) /\ FoundOK(r, p, W) /\ DOMAIN r = ThreadFields /\ StepOK(r, p)
  BY <1>1, AtCall
<1>3. r.then = "none" /\ p # "done" /\ r.op = "insert"
  BY <1>1, <1>2 DEF StepOK
<1>4. n.pc = "undo" /\ KindOK(n, n.pc) /\ FoundOK(n, n.pc, W) /\ Proceeds(r, n, W)
  BY <1>1, <1>2, <1>3, RollShape
<1>5. Set(t, n)
  BY <1>1
<1> QED BY <1>1, <1>4, <1>5, CallTrace DEF DrainPcs

\* A get drops its pin, and scans again or answers.
LEMMA UnpinTrace ==
  ASSUME IInv, IInv', RInv, NEW t \in Threads, NEW u,
         NEW res, Set(t, Scanning(u, "get")) \/ (Set(t, Answering(u, res)) /\ Allowed(th[t], res, window[t])),
         UNCHANGED <<slot, dr>>, Record, DropReader(t),
         th[t].pc \in {"scan", "verify"}, th[t].op = "get"
  PROVE  u = [th[t] EXCEPT !.pin = None] => RInv' /\ AtomicStep
<1>0. SUFFICES ASSUME u = [th[t] EXCEPT !.pin = None] PROVE RInv' /\ AtomicStep
  OBVIOUS
<1>1. PICK r, W, p : r = th[t] /\ W = window[t] /\ p = r.pc
  OBVIOUS
<1>2. /\ KindOK(r, p) /\ FoundOK(r, p, W) /\ DOMAIN r = ThreadFields /\ StepOK(r, p)
      /\ W \in SUBSET (Values \cup {Absent})
  BY <1>1, AtCall DEF DrainPcs, RInv
<1>3. /\ KindOK(u, p) /\ FoundOK(u, p, W) /\ DOMAIN u = ThreadFields /\ u.pin = None
      /\ u.op = r.op /\ u.key = r.key /\ u.val = r.val /\ u.then = r.then /\ u.res = r.res
      /\ u.new = r.new
  BY <1>0, <1>1, <1>2, Unpinned
<1>4. r.new = None
  <2>1. r.phase \in {"get", "cold"}
    BY <1>1, <1>2, PhaseOp
  <2> QED BY <1>1, <1>2, <2>1 DEF StepOK, Writing, WritePhases
<1>5. ASSUME NEW n, Proceeds(u, n, W) PROVE Proceeds(r, n, W)
  BY <1>3, <1>5 DEF Proceeds, Allowed
<1>6. CASE Set(t, Scanning(u, "get"))
  <2>1. PICK n : n = Scanning(u, "get")
    OBVIOUS
  <2>2. PICK phase : phase = "get"
    OBVIOUS
  <2>3. phase \in Phases(u.op) /\ phase # "recheck" /\ n = Scanning(u, phase)
    BY <1>1, <1>3, <2>1, <2>2 DEF Phases
  <2>4. /\ n.pc = "scan" /\ KindOK(n, n.pc) /\ FoundOK(n, n.pc, W) /\ Proceeds(u, n, W)
        /\ n.pin = u.pin /\ n.new = u.new
    <3>1. p \notin {"idle", "done"}
      BY <1>1
    <3>2. KindOK(u, p) /\ FoundOK(u, p, W) /\ DOMAIN u = ThreadFields
      BY <1>3
    <3>3. phase \in Phases(u.op) /\ phase # "recheck"
      BY <2>3
    <3>4. n = Scanning(u, phase)
      BY <2>3
    <3> QED BY <3>1, <3>2, <3>3, <3>4, ScanShape
  <2>5. Set(t, n) /\ Proceeds(th[t], n, window[t]) /\ n.pc \notin FoundPcs \cup DrainPcs \cup {"verify"}
    BY <1>1, <1>5, <1>6, <2>1, <2>4 DEF FoundPcs, DrainPcs
  <2>6. n.new = None /\ n.pin = None
    BY <1>3, <1>4, <2>4
  <2> QED BY <1>1, <2>4, <2>5, <2>6, DropTrace
<1>7. CASE Set(t, Answering(u, res)) /\ Allowed(r, res, W)
  <2>1. PICK n : n = Answering(u, res)
    OBVIOUS
  <2>2. Allowed(u, res, W)
    BY <1>3, <1>7 DEF Allowed
  <2>3. /\ n.pc = "done" /\ KindOK(n, n.pc) /\ FoundOK(n, n.pc, W) /\ Proceeds(u, n, W)
        /\ n.pin = u.pin /\ n.new = None
    <3>1. p \notin {"idle", "done"} /\ W \in SUBSET (Values \cup {Absent})
      BY <1>1, <1>2
    <3>2. KindOK(u, p) /\ FoundOK(u, p, W)
      BY <1>3
    <3> QED BY <2>1, <2>2, <3>1, <3>2, AnswerShape
  <2>4. Set(t, n) /\ Proceeds(th[t], n, window[t]) /\ n.pc \notin FoundPcs \cup DrainPcs \cup {"verify"}
    BY <1>1, <1>5, <1>7, <2>1, <2>3 DEF FoundPcs, DrainPcs
  <2>5. n.new = None /\ n.pin = None
    BY <1>3, <2>3
  <2> QED BY <1>1, <2>3, <2>4, <2>5, DropTrace
<1> QED BY <1>1, <1>6, <1>7

\* A get's scan that met every slot and nothing unreadable missed no entry.
LEMMA GetAbsent ==
  ASSUME NEW r, NEW W, FoundOK(r, "scan", W), WindowOK(r, W), KindOK(r, "scan"),
         r.pc = "scan", r.op = "get", r.left = {}, r.unk = None
  PROVE  Absent \in W
<1>1. Absent \in W \/ ScanClear(r)
  BY DEF FoundOK
<1>2. ScanClear(r) => Bound(r.key) = {}
  BY DEF ScanClear
<1>3. r.key # None
  BY DEF KindOK
<1>4. Bound(r.key) = {} => Absent \in Current(r.key)
  BY DEF Current
<1> QED BY <1>1, <1>2, <1>3, <1>4 DEF WindowOK

\* The scan is out of slots.
LEMMA ScanOverTrace ==
  ASSUME IInv, IInv', RInv, NEW t \in Threads, ScanOver(t)
  PROVE  RInv' /\ AtomicStep
<1>0. PICK r, W : r = th[t] /\ W = window[t]
  OBVIOUS
<1>1. r.pc = "scan" /\ r.left = {} /\ UNCHANGED <<slot, dr>> /\ Record
  BY <1>0 DEF ScanOver
<1>2. /\ DOMAIN r = ThreadFields /\ StepOK(r, "scan") /\ KindOK(r, "scan")
      /\ FoundOK(r, "scan", W) /\ WindowOK(r, W)
      /\ th[t].pc \notin DrainPcs \cup {"idle", "done", "undo", "remove", "tail"}
  BY <1>0, <1>1, AtCall DEF DrainPcs
<1>3. /\ r.op \in {"get", "insert", "delete"} /\ r.phase \in Phases(r.op)
      /\ r.phase \in {"get", "cold"} <=> r.op = "get"
      /\ r.phase \in WritePhases <=> r.op = "insert"
      /\ r.phase \in {"delete", "recheck"} <=> r.op = "delete"
  BY <1>2, PhaseOp
<1>4. UNCHANGED segs => UNCHANGED <<slot, st, gen, items, dr>>
  BY <1>1 DEF segs
<1>5. CASE r.phase = "get"
  <2>1. UNCHANGED segs /\ r.op = "get"
    BY <1>0, <1>3, <1>5 DEF ScanOver
  <2>2. CASE r.unk = None /\ Set(t, Answering(th[t], Absent))
    <3>1. Allowed(th[t], Absent, window[t])
      BY <1>0, <1>1, <1>2, <2>1, <2>2, GetAbsent DEF Allowed
    <3> QED BY <1>1, <1>2, <1>4, <2>1, <2>2, <3>1, AnswerTrace
  <2>3. CASE Set(t, Scanning(th[t], "get"))
    <3>1. PICK phase : phase = "get"
      OBVIOUS
    <3>2. phase \in Phases(th[t].op) /\ phase # "recheck" /\ Set(t, Scanning(th[t], phase))
      BY <1>0, <2>1, <2>3, <3>1 DEF Phases
    <3> QED BY <1>1, <1>2, <1>4, <2>1, <3>2, ScanTrace
  <2>4. CASE Set(t, Answering(th[t], "spent"))
    <3>1. PICK res : res = "spent"
      OBVIOUS
    <3>2. Allowed(th[t], res, window[t]) /\ Set(t, Answering(th[t], res))
      BY <1>0, <2>1, <2>4, <3>1 DEF Allowed
    <3> QED BY <1>1, <1>2, <1>4, <2>1, <3>2, AnswerTrace
  <2> QED BY <1>0, <1>5, <2>2, <2>3, <2>4 DEF ScanOver
<1>6. CASE r.phase = "cold"
  <2>1. DropReader(t) /\ r.op = "get"
    BY <1>0, <1>3, <1>6 DEF ScanOver
  <2>2. PICK u : u = [th[t] EXCEPT !.pin = None]
    OBVIOUS
  <2>3. CASE r.unk = None /\ Set(t, Answering(u, Absent))
    <3>1. Allowed(th[t], Absent, window[t])
      BY <1>0, <1>1, <1>2, <2>1, <2>3, GetAbsent DEF Allowed
    <3> QED BY <1>0, <1>1, <2>1, <2>2, <2>3, <3>1, UnpinTrace
  <2>4. CASE Set(t, Scanning(u, "get"))
    BY <1>0, <1>1, <2>1, <2>2, <2>4, UnpinTrace
  <2>5. CASE Set(t, Answering(u, "spent"))
    <3>1. PICK res : res = "spent"
      OBVIOUS
    <3>2. Allowed(th[t], res, window[t]) /\ Set(t, Answering(u, res))
      BY <1>0, <2>1, <2>5, <3>1 DEF Allowed
    <3> QED BY <1>0, <1>1, <2>1, <2>2, <3>2, UnpinTrace
  <2> QED BY <1>0, <1>6, <2>2, <2>3, <2>4, <2>5 DEF ScanOver
<1>7. CASE r.phase \in WritePhases /\ r.unk # None
  <2>1. UNCHANGED segs /\ r.op = "insert"
    BY <1>0, <1>3, <1>7 DEF ScanOver, WritePhases
  <2>2. PICK then \in {"wait", "err"} : then = "wait"
    OBVIOUS
  <2>3. PICK w : w = th[t].unk
    OBVIOUS
  <2>4. Set(t, RollingBack(th[t], w, then))
    BY <1>0, <1>7, <2>2, <2>3 DEF ScanOver, WritePhases
  <2> QED BY <1>0, <1>1, <1>2, <1>4, <2>1, <2>4, RollTrace
<1>8. CASE r.phase = "lookup" /\ r.unk = None
  <2>1. UNCHANGED segs /\ r.op = "insert"
    BY <1>0, <1>3, <1>8 DEF ScanOver, WritePhases
  <2>2. PICK phase : phase = "replace"
    OBVIOUS
  <2>3. phase \in Phases(th[t].op) /\ phase # "recheck" /\ Set(t, Scanning(th[t], phase))
    BY <1>0, <1>8, <2>1, <2>2 DEF ScanOver, Phases, WritePhases
  <2> QED BY <1>1, <1>2, <1>4, <2>1, <2>3, ScanTrace
<1>9. CASE r.phase \in {"replace", "relock"} /\ r.unk = None
  <2>1. UNCHANGED segs /\ r.op = "insert"
    BY <1>0, <1>3, <1>9 DEF ScanOver, WritePhases
  <2>2. PICK q : q = IF r.phase = "replace" THEN "lock" ELSE "claimslot"
    OBVIOUS
  <2>3. PICK n : n = [r EXCEPT !.pc = q]
    OBVIOUS
  <2>4. Set(t, n)
    BY <1>0, <1>9, <2>2, <2>3 DEF ScanOver
  <2>5. /\ n.pc = q /\ n.op = r.op /\ n.key = r.key /\ n.val = r.val /\ n.phase = r.phase
        /\ n.then = r.then /\ n.res = r.res /\ n.pin = r.pin /\ n.new = r.new /\ n.unlinked = r.unlinked
    BY <1>2, <2>3 DEF ThreadFields
  <2>6. q \in {"lock", "claimslot"}
    BY <2>2
  <2>7. KindOK(n, q)
    BY <1>2, <1>9, <2>1, <2>5, <2>6 DEF KindOK
  <2>8. FoundOK(n, q, W)
    BY <1>2, <2>1, <2>5, <2>6 DEF FoundOK, FoundPcs
  <2>9. Proceeds(r, n, W)
    BY <2>5 DEF Proceeds
  <2> QED BY <1>0, <1>1, <1>4, <2>1, <2>4, <2>5, <2>6, <2>7, <2>8, <2>9, CallTrace DEF DrainPcs
<1>10. CASE r.phase \in {"delete", "recheck"} /\ r.unk = None
  <2>1. UNCHANGED segs /\ r.op = "delete"
    BY <1>0, <1>3, <1>10 DEF ScanOver
  <2>2. PICK res : res = IF r.phase = "recheck" THEN "deleted" ELSE Ack(r.unlinked)
    OBVIOUS
  <2>3. Set(t, Answering(th[t], res))
    BY <1>0, <1>10, <2>2 DEF ScanOver
  <2>4. r.unlinked => Absent \in W
    BY <1>2 DEF FoundOK
  <2>5. r.phase = "recheck" => r.unlinked
    BY <1>2 DEF KindOK
  <2>6. Allowed(th[t], res, window[t])
    BY <1>0, <2>1, <2>2, <2>4, <2>5 DEF Allowed, Ack
  <2> QED BY <1>1, <1>2, <1>4, <2>1, <2>3, <2>6, AnswerTrace
<1>11. CASE r.phase \in {"delete", "recheck"} /\ r.unk # None
  <2>1. UNCHANGED segs /\ r.op = "delete"
    BY <1>0, <1>3, <1>11 DEF ScanOver
  <2>2. PICK phase : phase = "delete"
    OBVIOUS
  <2>3. phase \in Phases(th[t].op) /\ phase # "recheck" /\ Set(t, Scanning(th[t], phase))
    BY <1>0, <1>11, <2>1, <2>2 DEF ScanOver, Phases
  <2> QED BY <1>1, <1>2, <1>4, <2>1, <2>3, ScanTrace
<1> QED BY <1>3, <1>5, <1>6, <1>7, <1>8, <1>9, <1>10, <1>11 DEF WritePhases

\* A location that cannot be read, or another key's.
LEMMA VerifyFailsTrace ==
  ASSUME IInv, IInv', RInv, NEW t \in Threads, VerifyFails(t)
  PROVE  RInv' /\ AtomicStep
<1>0. PICK r, W : r = th[t] /\ W = window[t]
  OBVIOUS
<1>1. r.pc = "verify" /\ UNCHANGED <<slot, st, gen, items, dr>> /\ Record
  BY <1>0 DEF VerifyFails, segs
<1>2. /\ DOMAIN r = ThreadFields /\ KindOK(r, "verify") /\ FoundOK(r, "verify", W)
      /\ WordsOK(r, "verify")
  BY <1>0, <1>1, AtCall DEF DrainPcs
<1>3. PICK unk : unk = IF Readable(r.word) THEN r.unk ELSE FirstUnknown(r.unk, r.word)
  OBVIOUS
<1>4. PICK n : n = [r EXCEPT !.pc = "scan", !.at = None, !.word = None, !.unk = unk]
  OBVIOUS
<1>5. /\ n.pc = "scan" /\ n.op = r.op /\ n.key = r.key /\ n.val = r.val /\ n.phase = r.phase
      /\ n.then = r.then /\ n.res = r.res /\ n.pin = r.pin /\ n.new = r.new /\ n.unlinked = r.unlinked
      /\ n.left = r.left /\ n.unk = unk
  BY <1>2, <1>4 DEF ThreadFields
<1>6. Set(t, n)
  <2>1. CASE Readable(r.word)
    <3>1. n = [r EXCEPT !.pc = "scan", !.at = None, !.word = None]
      BY <1>2, <1>3, <1>4, <2>1 DEF ThreadFields
    <3> QED BY <1>0, <2>1, <3>1 DEF VerifyFails
  <2>2. CASE ~Readable(r.word)
    BY <1>0, <1>3, <1>4, <2>2 DEF VerifyFails
  <2> QED BY <2>1, <2>2
<1>7. KindOK(n, "scan")
  BY <1>2, <1>5 DEF KindOK
<1>8. unk = None => Readable(r.word) /\ r.unk = None
  <2>1. r.word # None
    BY <1>2, LocationAssumption DEF WordsOK, WordPcs, Issued
  <2> QED BY <1>3, <2>1 DEF FirstUnknown
<1>9. unk = None /\ ScanClear(r) => ScanClear(n)
  <2>1. Readable(r.word) => ItemAt(r.word).key # r.key
    BY <1>0 DEF VerifyFails
  <2> QED BY <1>1, <1>5, <1>8, <2>1 DEF ScanClear
<1>10. FoundOK(n, "scan", W)
  BY <1>2, <1>5, <1>8, <1>9 DEF FoundOK, FoundPcs
<1>11. Proceeds(r, n, W)
  BY <1>5 DEF Proceeds
<1> QED BY <1>0, <1>1, <1>5, <1>6, <1>7, <1>10, <1>11, CallTrace DEF DrainPcs

\* The key matched.
LEMMA VerifyMatchesTrace ==
  ASSUME IInv, IInv', RInv, NEW t \in Threads, VerifyMatches(t)
  PROVE  RInv' /\ AtomicStep
<1>0. PICK r, W : r = th[t] /\ W = window[t]
  OBVIOUS
<1>1. /\ r.pc = "verify" /\ Readable(r.word) /\ ItemAt(r.word).key = r.key
      /\ UNCHANGED <<slot, dr>> /\ Record
  BY <1>0 DEF VerifyMatches
<1>2. /\ DOMAIN r = ThreadFields /\ KindOK(r, "verify") /\ FoundOK(r, "verify", W)
      /\ WordsOK(r, "verify") /\ StepOK(r, "verify")
      /\ th[t].pc \notin DrainPcs \cup {"idle", "done", "undo", "remove", "tail"}
  BY <1>0, <1>1, AtCall DEF DrainPcs
<1>3. /\ r.op \in {"get", "insert", "delete"} /\ r.phase \in Phases(r.op)
      /\ r.phase \in {"get", "cold"} <=> r.op = "get"
      /\ r.phase \in WritePhases <=> r.op = "insert"
      /\ r.phase \in {"delete", "recheck"} <=> r.op = "delete"
  BY <1>2, PhaseOp
<1>4. UNCHANGED segs => UNCHANGED <<slot, st, gen, items, dr>>
  BY <1>1 DEF segs
<1>5. Issued(r.word) /\ Resolves(r.word) /\ r.word # None
  BY <1>1, <1>2, LocationAssumption DEF WordsOK, WordPcs, Issued, Readable
<1>6. r.op = "get" => ItemAt(r.word).val \in W
  BY <1>1, <1>2, <1>5 DEF FoundOK
<1>7. PICK found : found = [r EXCEPT !.left = {}, !.unk = None]
  OBVIOUS
<1>8. /\ DOMAIN found = ThreadFields
      /\ found.op = r.op /\ found.key = r.key /\ found.val = r.val /\ found.phase = r.phase
      /\ found.then = r.then /\ found.res = r.res /\ found.pin = r.pin /\ found.new = r.new
      /\ found.unlinked = r.unlinked /\ found.word = r.word
  BY <1>2, <1>7 DEF ThreadFields
<1>9. CASE r.phase = "get"
  <2>1. UNCHANGED segs /\ r.op = "get"
    BY <1>0, <1>3, <1>9 DEF VerifyMatches
  <2>2. PICK n : n = [found EXCEPT !.pc = "publishes", !.pin = r.word]
    OBVIOUS
  <2>3. Set(t, n)
    BY <1>0, <1>7, <1>9, <2>2 DEF VerifyMatches
  <2>4. /\ n.pc = "publishes" /\ n.op = r.op /\ n.key = r.key /\ n.val = r.val /\ n.phase = r.phase
        /\ n.then = r.then /\ n.res = r.res /\ n.pin = r.word /\ n.new = r.new
        /\ n.unlinked = r.unlinked /\ n.word = r.word
    BY <1>8, <2>2 DEF ThreadFields
  <2>5. KindOK(n, "publishes")
    BY <1>2, <1>5, <1>9, <2>1, <2>4 DEF KindOK
  <2>6. FoundOK(n, "publishes", W)
    BY <1>1, <1>2, <1>5, <1>6, <2>1, <2>4 DEF FoundOK
  <2>7. Proceeds(r, n, W)
    BY <2>4 DEF Proceeds
  <2> QED BY <1>0, <1>1, <1>4, <2>1, <2>3, <2>4, <2>5, <2>6, <2>7, CallTrace DEF DrainPcs
<1>10. CASE r.phase = "cold"
  <2>1. r.op = "get"
    BY <1>3, <1>10
  <2>2. CASE r.word = r.pin
    <3>1. UNCHANGED segs
      BY <1>0, <1>10, <2>2 DEF VerifyMatches
    <3>2. PICK res : res = ItemAt(r.word).val
      OBVIOUS
    <3>3. Set(t, Answering(th[t], res)) /\ Allowed(th[t], res, window[t])
      BY <1>0, <1>6, <1>10, <2>1, <2>2, <3>2 DEF VerifyMatches, Allowed
    <3> QED BY <1>1, <1>2, <1>4, <3>1, <3>3, AnswerTrace
  <2>3. CASE r.word # r.pin
    <3>1. DropReader(t)
      BY <1>0, <1>10, <2>3 DEF VerifyMatches
    <3>2. PICK u, res : u = [th[t] EXCEPT !.pin = None] /\ res = "spent"
      OBVIOUS
    <3>3. CASE Set(t, Answering(u, res))
      <4>1. Allowed(th[t], res, window[t])
        BY <1>0, <2>1, <3>2 DEF Allowed
      <4> QED BY <1>0, <1>1, <2>1, <3>1, <3>2, <3>3, <4>1, UnpinTrace
    <3>4. PICK n : n = [found EXCEPT !.pc = "acquire", !.pin = None]
      OBVIOUS
    <3>5. CASE Set(t, n)
      <4>1. /\ n.pc = "acquire" /\ n.op = r.op /\ n.key = r.key /\ n.val = r.val /\ n.phase = r.phase
            /\ n.then = r.then /\ n.res = r.res /\ n.pin = None /\ n.new = r.new
            /\ n.unlinked = r.unlinked /\ n.word = r.word
        BY <1>8, <3>4 DEF ThreadFields
      <4>2. KindOK(n, "acquire")
        BY <1>2, <1>10, <2>1, <4>1 DEF KindOK
      <4>3. FoundOK(n, "acquire", W)
        BY <1>1, <1>2, <1>5, <1>6, <2>1, <4>1 DEF FoundOK
      <4>4. Proceeds(r, n, W)
        BY <4>1 DEF Proceeds
      <4>5. n.new = None
        BY <1>2, <1>10, <4>1 DEF StepOK, Writing, WritePhases
      <4>6. Issued(n.word) /\ n.pc \notin DrainPcs /\ n.pin = None
        BY <1>5, <4>1 DEF DrainPcs
      <4>7. KindOK(n, n.pc) /\ FoundOK(n, n.pc, window[t]) /\ Proceeds(th[t], n, window[t])
        BY <1>0, <4>1, <4>2, <4>3, <4>4
      <4> QED BY <1>1, <3>1, <3>5, <4>5, <4>6, <4>7, DropTrace
    <3> QED BY <1>0, <1>7, <1>10, <2>3, <3>2, <3>3, <3>4, <3>5 DEF VerifyMatches
  <2> QED BY <2>2, <2>3
<1>11. CASE r.phase \in {"lookup", "delete"}
  <2>1. PICK q : q = IF r.phase = "lookup" THEN "pinold" ELSE "delgen"
    OBVIOUS
  <2>2. PICK n : n = [found EXCEPT !.pc = q]
    OBVIOUS
  <2>3. Set(t, n) /\ UNCHANGED segs
    BY <1>0, <1>7, <1>11, <2>1, <2>2 DEF VerifyMatches
  <2>4. /\ n.pc = q /\ n.op = r.op /\ n.key = r.key /\ n.val = r.val /\ n.phase = r.phase
        /\ n.then = r.then /\ n.res = r.res /\ n.pin = r.pin /\ n.new = r.new
        /\ n.unlinked = r.unlinked /\ n.word = r.word
    BY <1>8, <2>2 DEF ThreadFields
  <2>5. \/ q = "pinold" /\ r.op = "insert"
        \/ q = "delgen" /\ r.op = "delete"
    BY <1>3, <1>11, <2>1 DEF WritePhases
  <2>6. KindOK(n, q)
    BY <1>2, <1>11, <2>4, <2>5 DEF KindOK
  <2>7. FoundOK(n, q, W)
    BY <1>1, <1>2, <2>4, <2>5 DEF FoundOK
  <2>8. Proceeds(r, n, W)
    BY <2>4 DEF Proceeds
  <2> QED BY <1>0, <1>1, <1>4, <2>3, <2>4, <2>5, <2>6, <2>7, <2>8, CallTrace DEF DrainPcs
<1>12. CASE r.phase \in {"replace", "relock"}
  <2>1. PICK n : n = [r EXCEPT !.pc = "swap"]
    OBVIOUS
  <2>2. Set(t, n) /\ UNCHANGED segs /\ r.op = "insert"
    BY <1>0, <1>3, <1>12, <2>1 DEF VerifyMatches, WritePhases
  <2>3. /\ n.pc = "swap" /\ n.op = r.op /\ n.key = r.key /\ n.val = r.val /\ n.phase = r.phase
        /\ n.then = r.then /\ n.res = r.res /\ n.pin = r.pin /\ n.new = r.new
        /\ n.unlinked = r.unlinked
    BY <1>2, <2>1 DEF ThreadFields
  <2>4. KindOK(n, "swap")
    BY <1>2, <1>12, <2>2, <2>3 DEF KindOK
  <2>5. FoundOK(n, "swap", W)
    BY <1>2, <2>2, <2>3 DEF FoundOK, FoundPcs
  <2>6. Proceeds(r, n, W)
    BY <2>3 DEF Proceeds
  <2> QED BY <1>0, <1>1, <1>4, <2>2, <2>3, <2>4, <2>5, <2>6, CallTrace DEF DrainPcs
<1>13. CASE r.phase = "recheck"
  <2>1. PICK phase : phase = "delete"
    OBVIOUS
  <2>2. UNCHANGED segs /\ r.op = "delete"
    BY <1>0, <1>3, <1>13 DEF VerifyMatches
  <2>3. phase \in Phases(th[t].op) /\ phase # "recheck" /\ Set(t, Scanning(th[t], phase))
    BY <1>0, <1>13, <2>1, <2>2 DEF VerifyMatches, Phases
  <2> QED BY <1>1, <1>2, <1>4, <2>2, <2>3, ScanTrace
<1> QED BY <1>3, <1>9, <1>10, <1>11, <1>12, <1>13 DEF WritePhases

\* A call that takes a step and keeps what it has.
LEMMA MoveTrace ==
  ASSUME IInv, IInv', RInv, NEW t \in Threads, NEW r, r = th[t], NEW n, Set(t, n),
         UNCHANGED <<slot, st, gen, items, dr>>, Record,
         r.pc \notin DrainPcs \cup {"idle", "done", "scan", "verify"},
         NEW q, q = n.pc,
         /\ n.op = r.op /\ n.key = r.key /\ n.val = r.val /\ n.phase = r.phase
         /\ n.then = r.then /\ n.res = r.res /\ n.pin = r.pin /\ n.new = r.new
         /\ n.unlinked = r.unlinked /\ n.word = r.word,
         \/ q \in {"reserve", "noroom", "swapold", "swap", "lock", "claimslot", "wait"} /\ r.op = "insert"
         \/ q \in {"delpin", "delfence", "unlinkfree", "unlink"} /\ r.op = "delete" /\ r.pc \in FoundPcs
         \/ q \in {"remove", "tail"} /\ r.pc \in {"undo", "remove"}
  PROVE  RInv' /\ AtomicStep
<1>1. PICK p, W : p = r.pc /\ W = window[t]
  OBVIOUS
<1>2. KindOK(r, p) /\ FoundOK(r, p, W)
  BY <1>1, AtCall
<1>3. p \notin {"idle", "done", "scan", "verify"}
  BY <1>1
<1>4. KindOK(n, q)
  BY <1>1, <1>2, <1>3 DEF KindOK
<1>5. FoundOK(n, q, W)
  <2>1. r.op # "get" \/ q \notin {"scan", "verify", "acquire"}
    OBVIOUS
  <2>2. q \in FoundPcs => p \in FoundPcs
    BY <1>1 DEF FoundPcs
  <2> QED BY <1>2, <2>1, <2>2 DEF FoundOK
<1>6. Proceeds(r, n, W)
  BY DEF Proceeds
<1>7. n.pc \notin DrainPcs /\ KindOK(n, n.pc) /\ FoundOK(n, n.pc, window[t]) /\ Proceeds(th[t], n, window[t])
  BY <1>1, <1>4, <1>5, <1>6 DEF DrainPcs
<1> QED BY <1>7, CallTrace

\* slot_publishes.
LEMMA SlotPublishesTrace ==
  ASSUME IInv, IInv', RInv, NEW t \in Threads, SlotPublishes(t)
  PROVE  RInv' /\ AtomicStep
<1>0. PICK r, W : r = th[t] /\ W = window[t]
  OBVIOUS
<1>1. r.pc = "publishes" /\ UNCHANGED <<slot, st, gen, items, dr>> /\ Record
  BY <1>0 DEF SlotPublishes, segs
<1>2. /\ KindOK(r, "publishes") /\ FoundOK(r, "publishes", W)
      /\ th[t].pc \notin DrainPcs \cup {"idle", "done"}
  BY <1>0, <1>1, AtCall DEF DrainPcs
<1>3. r.op = "get" /\ r.pin # None
  BY <1>2 DEF KindOK
<1>4. CASE slot[r.at] = r.pin
  <2>1. PICK res : res = ItemAt(r.pin).val
    OBVIOUS
  <2>2. Set(t, Answering(th[t], res))
    BY <1>0, <1>4, <2>1 DEF SlotPublishes
  <2>3. Allowed(th[t], res, window[t])
    BY <1>0, <1>2, <1>3, <2>1 DEF Allowed, FoundOK
  <2> QED BY <1>1, <1>2, <2>2, <2>3, AnswerTrace
<1>5. CASE slot[r.at] # r.pin
  <2>1. PICK phase : phase = "cold"
    OBVIOUS
  <2>2. phase \in Phases(th[t].op) /\ phase # "recheck" /\ Set(t, Scanning(th[t], phase))
    BY <1>0, <1>3, <1>5, <2>1 DEF SlotPublishes, Phases
  <2> QED BY <1>1, <1>2, <2>2, ScanTrace
<1> QED BY <1>4, <1>5

\* acquire_item_at on the location the revalidation handed back.
LEMMA FollowTrace ==
  ASSUME IInv, IInv', RInv, NEW t \in Threads, FollowRepublished(t)
  PROVE  RInv' /\ AtomicStep
<1>0. PICK r, W : r = th[t] /\ W = window[t]
  OBVIOUS
<1>1. r.pc = "acquire" /\ UNCHANGED <<slot, st, gen, items, dr>> /\ Record
  BY <1>0 DEF FollowRepublished, segs
<1>2. /\ KindOK(r, "acquire") /\ FoundOK(r, "acquire", W) /\ WordsOK(r, "acquire")
      /\ DOMAIN r = ThreadFields /\ th[t].pc \notin DrainPcs \cup {"idle", "done"}
  BY <1>0, <1>1, AtCall DEF DrainPcs
<1>3. r.op = "get"
  BY <1>2 DEF KindOK
<1>4. PICK u, phase, get, res :
        u = [r EXCEPT !.pin = r.word] /\ phase = "cold" /\ get = "get" /\ res = "spent"
  OBVIOUS
<1>5. CASE Readable(r.word) /\ Set(t, Scanning(u, phase))
  <2>1. /\ DOMAIN u = ThreadFields /\ u.op = r.op /\ u.key = r.key /\ u.val = r.val
        /\ u.phase = r.phase /\ u.then = r.then /\ u.res = r.res /\ u.pin = r.word /\ u.new = r.new
        /\ u.unlinked = r.unlinked /\ u.word = r.word
    BY <1>2, <1>4 DEF ThreadFields
  <2>2. PICK p : p = "acquire"
    OBVIOUS
  <2>3. KindOK(u, p)
    BY <1>2, <1>3, <2>1, <2>2 DEF KindOK
  <2>4. Issued(r.word) /\ Resolves(r.word)
    BY <1>2, <1>5 DEF WordsOK, WordPcs, Readable
  <2>5. ItemAt(r.word).key = r.key
    BY <1>2, <2>4 DEF FoundOK, FoundPcs
  <2>6. ItemAt(r.word).val \in W
    BY <1>2, <1>3, <2>4, <2>5 DEF FoundOK
  <2>7. FoundOK(u, p, W)
    BY <1>2, <2>1, <2>2, <2>4, <2>5, <2>6 DEF FoundOK
  <2>8. PICK n : n = Scanning(u, phase)
    OBVIOUS
  <2>9. phase \in Phases(u.op) /\ phase # "recheck" /\ p \notin {"idle", "done"}
    BY <1>3, <1>4, <2>1, <2>2 DEF Phases
  <2>10. n.pc = "scan" /\ KindOK(n, n.pc) /\ FoundOK(n, n.pc, W) /\ Proceeds(u, n, W)
    BY <2>1, <2>3, <2>7, <2>8, <2>9, ScanShape
  <2>11. Proceeds(r, n, W)
    BY <2>1, <2>10 DEF Proceeds, Allowed
  <2> QED BY <1>0, <1>1, <1>5, <2>8, <2>10, <2>11, CallTrace DEF DrainPcs
<1>6. CASE Set(t, Scanning(th[t], get))
  <2>1. get \in Phases(th[t].op) /\ get # "recheck"
    BY <1>0, <1>3, <1>4 DEF Phases
  <2> QED BY <1>1, <1>2, <1>6, <2>1, ScanTrace
<1>7. CASE Set(t, Answering(th[t], res))
  <2>1. Allowed(th[t], res, window[t])
    BY <1>0, <1>3, <1>4 DEF Allowed
  <2> QED BY <1>1, <1>2, <1>7, <2>1, AnswerTrace
<1> QED BY <1>0, <1>4, <1>5, <1>6, <1>7 DEF FollowRepublished

\* The last look for room.
LEMMA NoRoomTrace ==
  ASSUME IInv, IInv', RInv, NEW t \in Threads, NoRoom(t)
  PROVE  RInv' /\ AtomicStep
<1>0. PICK r : r = th[t]
  OBVIOUS
<1>n. PICK n : n = [r EXCEPT !.pc = "noroom"]
  OBVIOUS
<1>1. r.pc = "reserve" /\ UNCHANGED <<slot, st, gen, items, dr>> /\ Record /\ Set(t, n)
  BY <1>0, <1>n DEF NoRoom, segs
<1>2. /\ DOMAIN r = ThreadFields /\ KindOK(r, "reserve")
      /\ r.pc \notin DrainPcs \cup {"idle", "done", "scan", "verify"}
  BY <1>0, <1>1, AtCall DEF DrainPcs
<1>3. /\ n.pc = "noroom" /\ n.op = r.op /\ n.key = r.key /\ n.val = r.val /\ n.phase = r.phase
      /\ n.then = r.then /\ n.res = r.res /\ n.pin = r.pin /\ n.new = r.new
      /\ n.unlinked = r.unlinked /\ n.word = r.word
  BY <1>n, <1>2 DEF ThreadFields
<1>4. r.op = "insert"
  BY <1>2 DEF KindOK
<1> QED BY <1>0, <1>1, <1>2, <1>3, <1>4, MoveTrace

\* NoFreeSegments.
LEMMA ReserveFailsTrace ==
  ASSUME IInv, IInv', RInv, NEW t \in Threads, ReserveFails(t)
  PROVE  RInv' /\ AtomicStep
<1>0. PICK r, W : r = th[t] /\ W = window[t]
  OBVIOUS
<1>1. r.pc = "noroom" /\ UNCHANGED <<slot, st, gen, items, dr>> /\ Record
  BY <1>0 DEF ReserveFails, segs
<1>2. KindOK(r, "noroom") /\ StepOK(r, "noroom") /\ th[t].pc \notin DrainPcs \cup {"idle", "done"}
  BY <1>0, <1>1, AtCall DEF DrainPcs
<1>3. PICK res : res = "err"
  OBVIOUS
<1>4. r.op = "insert" /\ r.then = "none"
  BY <1>2 DEF KindOK, StepOK
<1>5. Set(t, Answering(th[t], res)) /\ Allowed(th[t], res, window[t])
  BY <1>0, <1>3, <1>4 DEF ReserveFails, Allowed
<1> QED BY <1>1, <1>2, <1>5, AnswerTrace

\* try_pin_remover on the old entry's segment.
LEMMA PinOldTrace ==
  ASSUME IInv, IInv', RInv, NEW t \in Threads, PinOld(t)
  PROVE  RInv' /\ AtomicStep
<1>0. PICK r, W : r = th[t] /\ W = window[t]
  OBVIOUS
<1>1. r.pc = "pinold" /\ UNCHANGED <<slot, st, gen, items, dr>> /\ Record
  BY <1>0 DEF PinOld, segs
<1>2. /\ KindOK(r, "pinold") /\ DOMAIN r = ThreadFields
      /\ th[t].pc \notin DrainPcs \cup {"idle", "done", "scan", "verify", "undo", "remove", "tail"}
  BY <1>0, <1>1, AtCall DEF DrainPcs
<1>3. r.op = "insert"
  BY <1>2 DEF KindOK
<1>4. PICK n, w, then, phase :
        /\ n = [r EXCEPT !.pc = "swapold", !.rem = r.word.seg]
        /\ w = r.word /\ then = "wait" /\ phase = "lookup"
  OBVIOUS
<1>5. CASE Set(t, n)
  <2>1. /\ n.pc = "swapold" /\ n.op = r.op /\ n.key = r.key /\ n.val = r.val /\ n.phase = r.phase
        /\ n.then = r.then /\ n.res = r.res /\ n.pin = r.pin /\ n.new = r.new
        /\ n.unlinked = r.unlinked /\ n.word = r.word
    BY <1>2, <1>4 DEF ThreadFields
  <2> QED BY <1>0, <1>1, <1>2, <1>3, <1>5, <2>1, MoveTrace
<1>6. CASE Set(t, RollingBack(th[t], w, then))
  <2>1. then \in {"wait", "err"}
    BY <1>4
  <2> QED BY <1>0, <1>1, <1>2, <1>3, <1>6, <2>1, RollTrace
<1>7. CASE Set(t, Scanning(th[t], phase))
  <2>1. phase \in Phases(th[t].op) /\ phase # "recheck"
    BY <1>0, <1>3, <1>4 DEF Phases, WritePhases
  <2> QED BY <1>1, <1>2, <1>7, <2>1, ScanTrace
<1> QED BY <1>0, <1>4, <1>5, <1>6, <1>7 DEF PinOld

\* The insert stripe.
LEMMA LockStripeTrace ==
  ASSUME IInv, IInv', RInv, NEW t \in Threads, LockStripe(t)
  PROVE  RInv' /\ AtomicStep
<1>1. th[t].pc = "lock" /\ UNCHANGED <<slot, st, gen, items, dr>> /\ Record
  BY DEF LockStripe, segs
<1>2. th[t].op = "insert" /\ th[t].pc \notin DrainPcs \cup {"idle", "done"}
  BY <1>1, AtCall DEF DrainPcs, KindOK
<1>3. PICK phase : phase = "relock"
  OBVIOUS
<1>4. phase \in Phases(th[t].op) /\ phase # "recheck" /\ Set(t, Scanning(th[t], phase))
  BY <1>2, <1>3 DEF LockStripe, Phases, WritePhases
<1> QED BY <1>1, <1>2, <1>4, ScanTrace

\* try_claim_new_slot passes by a slot that is taken.
LEMMA PassTakenTrace ==
  ASSUME IInv, IInv', RInv, NEW t \in Threads, NEW i \in Slots, PassTaken(t, i)
  PROVE  RInv' /\ AtomicStep
<1>0. PICK r : r = th[t]
  OBVIOUS
<1>n. PICK n : n = [r EXCEPT !.taken = @ \cup {i}]
  OBVIOUS
<1>1. r.pc = "claimslot" /\ UNCHANGED <<slot, st, gen, items, dr>> /\ Record /\ Set(t, n)
  BY <1>0, <1>n DEF PassTaken, segs
<1>2. /\ DOMAIN r = ThreadFields /\ KindOK(r, "claimslot")
      /\ r.pc \notin DrainPcs \cup {"idle", "done", "scan", "verify"}
  BY <1>0, <1>1, AtCall DEF DrainPcs
<1>3. /\ n.pc = "claimslot" /\ n.op = r.op /\ n.key = r.key /\ n.val = r.val /\ n.phase = r.phase
      /\ n.then = r.then /\ n.res = r.res /\ n.pin = r.pin /\ n.new = r.new
      /\ n.unlinked = r.unlinked /\ n.word = r.word
  BY <1>n, <1>1, <1>2 DEF ThreadFields
<1>4. r.op = "insert"
  BY <1>2 DEF KindOK
<1> QED BY <1>0, <1>1, <1>2, <1>3, <1>4, MoveTrace

\* HashTableInsertEx.
LEMMA BucketFullTrace ==
  ASSUME IInv, IInv', RInv, NEW t \in Threads, BucketFull(t)
  PROVE  RInv' /\ AtomicStep
<1>1. th[t].pc = "claimslot" /\ UNCHANGED <<slot, st, gen, items, dr>> /\ Record
  BY DEF BucketFull, segs
<1>2. /\ th[t].op = "insert"
      /\ th[t].pc \notin DrainPcs \cup {"done", "undo", "remove", "tail"}
  BY <1>1, AtCall DEF DrainPcs, KindOK
<1>3. PICK then \in {"wait", "err"} : then = "err"
  OBVIOUS
<1>4. PICK w : w = None
  OBVIOUS
<1>5. Set(t, RollingBack(th[t], w, then))
  BY <1>3, <1>4 DEF BucketFull
<1> QED BY <1>1, <1>2, <1>5, RollTrace

\* rollback_reservation's and the raced-old arm's pin.
LEMMA PinUnlinkedTrace ==
  ASSUME IInv, IInv', RInv, NEW t \in Threads, PinUnlinked(t)
  PROVE  RInv' /\ AtomicStep
<1>0. PICK r : r = th[t]
  OBVIOUS
<1>1. r.pc = "undo" /\ UNCHANGED <<slot, st, gen, items, dr>> /\ Record
  BY <1>0 DEF PinUnlinked, segs
<1>2. DOMAIN r = ThreadFields /\ r.pc \notin DrainPcs \cup {"idle", "done", "scan", "verify"}
  BY <1>0, <1>1, AtCall DEF DrainPcs
<1>3. PICK n : n = IF Removable(r.old.seg) THEN [r EXCEPT !.pc = "remove", !.rem = r.old.seg]
                                           ELSE [r EXCEPT !.pc = "tail", !.old = None]
  OBVIOUS
<1>4. /\ n.pc \in {"remove", "tail"} /\ n.op = r.op /\ n.key = r.key /\ n.val = r.val
      /\ n.phase = r.phase /\ n.then = r.then /\ n.res = r.res /\ n.pin = r.pin /\ n.new = r.new
      /\ n.unlinked = r.unlinked /\ n.word = r.word
  <2>1. CASE Removable(r.old.seg)
    BY <1>2, <1>3, <2>1 DEF ThreadFields
  <2>2. CASE ~Removable(r.old.seg)
    BY <1>2, <1>3, <2>2 DEF ThreadFields
  <2> QED BY <2>1, <2>2
<1>5. Set(t, n)
  BY <1>0, <1>3 DEF PinUnlinked
<1> QED BY <1>0, <1>1, <1>2, <1>4, <1>5, MoveTrace

\* remove_at.
LEMMA RemoveTrace ==
  ASSUME IInv, IInv', RInv, NEW t \in Threads, RemoveAt(t)
  PROVE  RInv' /\ AtomicStep
<1>0. PICK r : r = th[t]
  OBVIOUS
<1>1. r.pc = "remove" /\ UNCHANGED <<slot, st, gen, items, dr>> /\ Record
  BY <1>0 DEF RemoveAt
<1>2. DOMAIN r = ThreadFields /\ r.pc \notin DrainPcs \cup {"idle", "done", "scan", "verify"}
  BY <1>0, <1>1, AtCall DEF DrainPcs
<1>3. PICK n : n = [r EXCEPT !.pc = "tail", !.old = None, !.rem = None]
  OBVIOUS
<1>4. /\ n.pc = "tail" /\ n.op = r.op /\ n.key = r.key /\ n.val = r.val
      /\ n.phase = r.phase /\ n.then = r.then /\ n.res = r.res /\ n.pin = r.pin /\ n.new = r.new
      /\ n.unlinked = r.unlinked /\ n.word = r.word
  BY <1>2, <1>3 DEF ThreadFields
<1>5. Set(t, n)
  BY <1>0, <1>3 DEF RemoveAt
<1> QED BY <1>0, <1>1, <1>2, <1>4, <1>5, MoveTrace

\* What a call does after its remove_at.
LEMMA AfterRemoveTrace ==
  ASSUME IInv, IInv', RInv, NEW t \in Threads, AfterRemove(t)
  PROVE  RInv' /\ AtomicStep
<1>0. PICK r, W : r = th[t] /\ W = window[t]
  OBVIOUS
<1>1. r.pc = "tail" /\ UNCHANGED <<slot, st, gen, items, dr>> /\ Record
  BY <1>0 DEF AfterRemove, segs
<1>2. /\ DOMAIN r = ThreadFields /\ KindOK(r, "tail") /\ FoundOK(r, "tail", W)
      /\ th[t].pc \notin DrainPcs \cup {"idle", "done"}
  BY <1>0, <1>1, AtCall DEF DrainPcs
<1>3. \/ r.op = "insert" /\ r.then \in {"ok", "err", "wait"}
      \/ r.op = "delete" /\ r.then = "deleted"
  BY <1>2 DEF KindOK
<1>4. CASE r.then = "wait"
  <2>1. PICK n : n = [r EXCEPT !.pc = "wait", !.then = "none"]
    OBVIOUS
  <2>2. Set(t, n)
    BY <1>0, <1>4, <2>1 DEF AfterRemove
  <2>3. /\ n.pc = "wait" /\ n.op = r.op /\ n.key = r.key /\ n.val = r.val /\ n.phase = r.phase
        /\ n.then = "none" /\ n.res = r.res /\ n.pin = r.pin /\ n.new = r.new
        /\ n.unlinked = r.unlinked
    BY <1>2, <2>1 DEF ThreadFields
  <2>4. KindOK(n, "wait")
    BY <1>2, <1>3, <1>4, <2>3 DEF KindOK
  <2>5. FoundOK(n, "wait", W)
    BY <1>2, <2>3 DEF FoundOK, FoundPcs
  <2>6. Proceeds(r, n, W)
    BY <1>4, <2>3 DEF Proceeds
  <2> QED BY <1>0, <1>1, <2>2, <2>3, <2>4, <2>5, <2>6, CallTrace DEF DrainPcs
<1>5. CASE r.then # "wait"
  <2>1. PICK res : res = r.then
    OBVIOUS
  <2>2. Set(t, Answering(th[t], res))
    BY <1>0, <1>5, <2>1 DEF AfterRemove
  <2>3. Allowed(th[t], res, window[t])
    BY <1>0, <1>2, <1>3, <1>5, <2>1 DEF Allowed, FoundOK
  <2> QED BY <1>1, <1>2, <2>2, <2>3, AnswerTrace
<1> QED BY <1>4, <1>5

\* The insert starts over.
LEMMA WaitOverTrace ==
  ASSUME IInv, IInv', RInv, NEW t \in Threads, WaitOver(t)
  PROVE  RInv' /\ AtomicStep
<1>0. PICK r, W : r = th[t] /\ W = window[t]
  OBVIOUS
<1>1. r.pc = "wait" /\ UNCHANGED <<slot, st, gen, items, dr>> /\ Record
  BY <1>0 DEF WaitOver, segs
<1>2. KindOK(r, "wait") /\ StepOK(r, "wait")
  BY <1>0, <1>1, AtCall DEF DrainPcs
<1>3. PICK n : n = [Idle EXCEPT !.pc = "reserve", !.op = r.op, !.key = r.key, !.val = r.val, !.ttl = r.ttl]
  OBVIOUS
<1>4. Set(t, n)
  BY <1>0, <1>3 DEF WaitOver
<1>5. /\ n.pc = "reserve" /\ n.op = r.op /\ n.key = r.key /\ n.val = r.val /\ n.phase = "none"
      /\ n.then = "none" /\ n.res = None /\ n.pin = None /\ n.new = None /\ n.unlinked = FALSE
  BY <1>3 DEF Idle
<1>6. r.then = "none" /\ r.op = "insert" /\ r.res = None
  BY <1>2 DEF StepOK, KindOK
<1>7. KindOK(n, "reserve")
  BY <1>2, <1>5, <1>6 DEF KindOK
<1>8. FoundOK(n, "reserve", W)
  BY <1>5 DEF FoundOK, FoundPcs
<1>9. Proceeds(r, n, W)
  BY <1>5, <1>6 DEF Proceeds
<1> QED BY <1>0, <1>1, <1>4, <1>5, <1>7, <1>8, <1>9, CallTrace DEF DrainPcs

\* delete's steps before its unlink.
LEMMA DeleteTrace ==
  ASSUME IInv, IInv', RInv, NEW t \in Threads,
         ObserveGen(t) \/ PinForDelete(t) \/ GenerationFence(t)
  PROVE  RInv' /\ AtomicStep
<1>0. PICK r : r = th[t]
  OBVIOUS
<1>1. r.pc \in {"delgen", "delpin", "delfence"} /\ UNCHANGED <<slot, st, gen, items, dr>> /\ Record
  BY <1>0 DEF ObserveGen, PinForDelete, GenerationFence, segs
<1>2. /\ DOMAIN r = ThreadFields /\ KindOK(r, r.pc)
      /\ r.pc \notin DrainPcs \cup {"idle", "done", "scan", "verify"}
  BY <1>0, <1>1, AtCall DEF DrainPcs
<1>3. r.op = "delete" /\ r.pc \in FoundPcs
  BY <1>1, <1>2 DEF KindOK, FoundPcs
<1>4. ASSUME NEW n, Set(t, n), n.pc \in {"delpin", "delfence", "unlinkfree", "unlink"},
             NEW x, NEW y, n = [r EXCEPT !.pc = n.pc, !.rem = x, !.obs = y]
      PROVE  RInv' /\ AtomicStep
  <2>1. /\ n.op = r.op /\ n.key = r.key /\ n.val = r.val
        /\ n.phase = r.phase /\ n.then = r.then /\ n.res = r.res /\ n.pin = r.pin /\ n.new = r.new
        /\ n.unlinked = r.unlinked /\ n.word = r.word
    BY <1>2, <1>4 DEF ThreadFields
  <2> QED BY <1>0, <1>1, <1>2, <1>3, <1>4, <2>1, MoveTrace
<1>5. CASE ObserveGen(t)
  <2>1. PICK n, y : y = gen[r.word.seg] /\ n = [r EXCEPT !.pc = "delpin", !.obs = y]
    OBVIOUS
  <2>2. Set(t, n)
    BY <1>0, <1>5, <2>1 DEF ObserveGen
  <2>3. n.pc = "delpin" /\ n = [r EXCEPT !.pc = n.pc, !.rem = r.rem, !.obs = y]
    BY <1>2, <2>1 DEF ThreadFields
  <2> QED BY <1>4, <2>2, <2>3
<1>6. CASE PinForDelete(t)
  <2>1. CASE Removable(r.word.seg)
    <3>1. PICK n, x : x = r.word.seg /\ n = [r EXCEPT !.pc = "unlink", !.rem = x, !.obs = None]
      OBVIOUS
    <3>2. Set(t, n)
      BY <1>0, <1>6, <2>1, <3>1 DEF PinForDelete
    <3>3. n.pc = "unlink" /\ n = [r EXCEPT !.pc = n.pc, !.rem = x, !.obs = None]
      BY <1>2, <3>1 DEF ThreadFields
    <3> QED BY <1>4, <3>2, <3>3
  <2>2. CASE ~Removable(r.word.seg)
    <3>1. PICK n : n = [r EXCEPT !.pc = "delfence"]
      OBVIOUS
    <3>2. Set(t, n)
      BY <1>0, <1>6, <2>2, <3>1 DEF PinForDelete
    <3>3. n.pc = "delfence" /\ n = [r EXCEPT !.pc = n.pc, !.rem = r.rem, !.obs = r.obs]
      BY <1>2, <3>1 DEF ThreadFields
    <3> QED BY <1>4, <3>2, <3>3
  <2> QED BY <2>1, <2>2
<1>7. CASE GenerationFence(t)
  <2>1. CASE gen[r.word.seg] = r.obs
    <3>1. PICK n : n = [r EXCEPT !.pc = "unlinkfree", !.obs = None]
      OBVIOUS
    <3>2. Set(t, n)
      BY <1>0, <1>7, <2>1, <3>1 DEF GenerationFence
    <3>3. n.pc = "unlinkfree" /\ n = [r EXCEPT !.pc = n.pc, !.rem = r.rem, !.obs = None]
      BY <1>2, <3>1 DEF ThreadFields
    <3> QED BY <1>4, <3>2, <3>3
  <2>2. CASE gen[r.word.seg] # r.obs
    <3>1. PICK u, n, phase : u = [r EXCEPT !.obs = None] /\ phase = "delete" /\ n = Scanning(u, phase)
      OBVIOUS
    <3>2. Set(t, n)
      BY <1>0, <1>7, <2>2, <3>1 DEF GenerationFence
    <3>3. /\ DOMAIN u = ThreadFields /\ u.op = r.op /\ u.key = r.key /\ u.val = r.val
          /\ u.phase = r.phase /\ u.then = r.then /\ u.res = r.res /\ u.pin = r.pin /\ u.new = r.new
          /\ u.unlinked = r.unlinked /\ u.word = r.word
      BY <1>2, <3>1 DEF ThreadFields
    <3>4. PICK p, W : p = r.pc /\ W = window[t]
      OBVIOUS
    <3>5. KindOK(u, p) /\ FoundOK(u, p, W)
      <4>1. KindOK(r, p) /\ FoundOK(r, p, W) /\ p = "delfence"
        BY <1>0, <1>2, <1>7, <3>4, AtCall DEF GenerationFence
      <4>2. KindOK(u, p)
        BY <3>3, <4>1 DEF KindOK
      <4>3. FoundOK(u, p, W)
        BY <3>3, <4>1 DEF FoundOK, FoundPcs
      <4> QED BY <4>2, <4>3
    <3>6. phase \in Phases(u.op) /\ phase # "recheck" /\ p \notin {"idle", "done"} /\ n = Scanning(u, phase)
      BY <1>1, <1>3, <3>1, <3>3, <3>4 DEF Phases
    <3>7. n.pc = "scan" /\ KindOK(n, n.pc) /\ FoundOK(n, n.pc, W) /\ Proceeds(u, n, W)
      BY <3>3, <3>5, <3>6, ScanShape
    <3>8. Proceeds(r, n, W)
      BY <3>3, <3>7 DEF Proceeds, Allowed
    <3> QED BY <1>0, <1>1, <3>2, <3>4, <3>7, <3>8, CallTrace DEF DrainPcs
  <2> QED BY <2>1, <2>2
<1> QED BY <1>5, <1>6, <1>7

\* Two calls of the abstract cache with the same fields.
LEMMA CallEqual ==
  ASSUME NEW c, NEW d, c = [x \in {"op", "key", "val", "res", "bound"} |-> c[x]],
         d = [x \in {"op", "key", "val", "res", "bound"} |-> d[x]],
         c.op = d.op, c.key = d.key, c.val = d.val, c.res = d.res, c.bound = d.bound
  PROVE  c = d
<1>1. \A x \in {"op", "key", "val", "res", "bound"} : c[x] = d[x]
  OBVIOUS
<1> QED BY <1>1

\* A call begins.
LEMMA BeginTrace ==
  ASSUME IInv, IInv', RInv, NEW t \in Threads, NEW n, Set(t, n),
         UNCHANGED <<slot, st, gen, items, dr>>, Record, th[t].pc = "idle",
         n.key \in Keys, n.res = None, n.then = "none", n.new = None, n.pin = None, n.unlinked = FALSE,
         \/ n.op \in {"get", "delete"} /\ n.val = None /\ n.pc = "scan" /\ n.phase = n.op /\ n.left = Slots
         \/ n.op = "insert" /\ n.val \in Values /\ n.pc = "reserve" /\ n.phase = "none"
  PROVE  RInv' /\ AtomicStep
<1>1. TypeOK /\ DOMAIN th = Threads
  BY DEF IInv, TypeOK
<1>2. th'[t] = n /\ \A u \in Threads : u # t => th'[u] = th[u]
  BY <1>1 DEF Set
<1>3. \A s \in Segments : SegmentStep(s)
  BY <1>1 DEF TypeOK, SegmentStep
<1>4. AbstractMap' = AbstractMap /\ \A k : Bound(k)' = Bound(k)
  BY <1>3, TableKept
<1>5. Steady(t)
  BY <1>2, <1>3, <1>4 DEF Steady
<1>6. PICK q, V : q = n.pc /\ V = window'[t]
  OBVIOUS
<1>7. n.key # None
  BY SentinelAssumption
<1>8. KindOK(n, q)
  <2>1. CASE n.op = "insert"
    BY <1>6, <1>7, <2>1 DEF KindOK
  <2>2. CASE n.op \in {"get", "delete"}
    BY <1>6, <1>7, <2>2 DEF KindOK, Phases
  <2> QED BY <2>1, <2>2
<1>9. FoundOK(n, q, V)'
  <2>1. q = "scan" => ScanClear(n)'
    BY <1>6 DEF ScanClear, Bound
  <2> QED BY <1>6, <2>1 DEF FoundOK, FoundPcs
<1>10. CallPc(t)' = q
  BY <1>2, <1>6 DEF CallPc, DrainPcs
<1>11. RInv'
  BY <1>2, <1>5, <1>6, <1>8, <1>9, <1>10, TraceStep
<1>12. Atomic!Watch
  BY <1>11, WatchStep DEF Steady
<1>13. AbstractCall[t] = Atomic!NoCall
  <2>1. KindOK(th[t], "idle")
    BY AtCall DEF DrainPcs
  <2>2. PICK r, p : r = th[t] /\ p = "idle"
    OBVIOUS
  <2>3. KindOK(r, p) /\ r.key = None
    BY <2>1, <2>2 DEF KindOK
  <2>4. CallOf(r) = Atomic!NoCall
    BY <2>3, CallNone
  <2> QED BY <2>2, <2>4 DEF AbstractCall
<1>14. PICK c : c = CallOf(n)
  OBVIOUS
<1>15. AbstractCall' = [AbstractCall EXCEPT ![t] = c]
  <2>1. CallOf(th[t])' = c
    BY <1>2, <1>14 DEF CallOf
  <2> QED BY <1>2, <2>1, CallChange
<1>16. PICK z : z = Atomic!NoCall
  OBVIOUS
<1>17. /\ DOMAIN z = {"op", "key", "val", "res", "bound"} /\ z.val = None
       /\ c = [x \in {"op", "key", "val", "res", "bound"} |-> c[x]]
       /\ c.op = n.op /\ c.key = n.key /\ c.val = n.val /\ c.res = z.res /\ c.bound = z.bound
  BY <1>14, <1>16, AnswerAssumption DEF Atomic!NoCall, CallOf
<1>18. \/ \E op \in {"get", "delete"} : c = [Atomic!NoCall EXCEPT !.op = op, !.key = n.key]
       \/ \E v \in Values : c = [Atomic!NoCall EXCEPT !.op = "insert", !.key = n.key, !.val = v]
  <2>1. CASE n.op = "insert"
    <3>1. c = [z EXCEPT !.op = "insert", !.key = n.key, !.val = n.val]
      <4>1. PICK d : d = [z EXCEPT !.op = "insert", !.key = n.key, !.val = n.val]
        OBVIOUS
      <4>2. d = [x \in {"op", "key", "val", "res", "bound"} |-> d[x]]
        BY <1>17, <4>1
      <4>3. d.op = n.op /\ d.key = n.key /\ d.val = n.val /\ d.res = z.res /\ d.bound = z.bound
        BY <1>17, <2>1, <4>1
      <4>4. c = d
        BY <1>17, <4>2, <4>3, CallEqual
      <4> QED BY <4>1, <4>4
    <3> QED BY <1>16, <2>1, <3>1
  <2>2. CASE n.op \in {"get", "delete"}
    <3>1. c = [z EXCEPT !.op = n.op, !.key = n.key]
      <4>1. PICK d : d = [z EXCEPT !.op = n.op, !.key = n.key]
        OBVIOUS
      <4>2. d = [x \in {"op", "key", "val", "res", "bound"} |-> d[x]]
        BY <1>17, <4>1
      <4>3. d.op = n.op /\ d.key = n.key /\ d.val = n.val /\ d.res = z.res /\ d.bound = z.bound
        BY <1>17, <2>2, <4>1
      <4>4. c = d
        BY <1>17, <4>2, <4>3, CallEqual
      <4> QED BY <4>1, <4>4
    <3> QED BY <1>16, <2>2, <3>1
  <2> QED BY <2>1, <2>2
<1>19. Atomic!Begin(t)
  BY <1>4, <1>12, <1>13, <1>15, <1>18 DEF Atomic!Begin
<1> QED BY <1>11, <1>19 DEF AtomicStep, Atomic!Next

\* get_pinned, insert and delete are called.
LEMMA BeginsTrace ==
  ASSUME IInv, IInv', RInv, NEW t \in Threads, NEW k \in Keys,
         \/ GetBegin(t, k) \/ DeleteBegin(t, k)
         \/ \E v \in Values, b \in Buckets : InsertBegin(t, k, v, b)
  PROVE  RInv' /\ AtomicStep
<1>1. th[t].pc = "idle" /\ UNCHANGED <<slot, st, gen, items, dr>> /\ Record
  BY DEF GetBegin, DeleteBegin, InsertBegin, segs
<1>2. ASSUME NEW op \in {"get", "delete"}, Set(t, Scanning([Idle EXCEPT !.op = op, !.key = k], op))
      PROVE  RInv' /\ AtomicStep
  <2>1. PICK n : n = Scanning([Idle EXCEPT !.op = op, !.key = k], op)
    OBVIOUS
  <2>2. /\ n.pc = "scan" /\ n.op = op /\ n.key = k /\ n.val = None /\ n.phase = op /\ n.left = Slots
        /\ n.res = None /\ n.then = "none" /\ n.new = None /\ n.pin = None /\ n.unlinked = FALSE
    BY <2>1 DEF Scanning, Idle
  <2> QED BY <1>1, <1>2, <2>1, <2>2, BeginTrace
<1>3. ASSUME NEW v \in Values, NEW b \in Buckets, InsertBegin(t, k, v, b) PROVE RInv' /\ AtomicStep
  <2>1. PICK n : n = [Idle EXCEPT !.pc = "reserve", !.op = "insert", !.key = k, !.val = v, !.ttl = b]
    OBVIOUS
  <2>2. /\ n.pc = "reserve" /\ n.op = "insert" /\ n.key = k /\ n.val = v /\ n.phase = "none"
        /\ n.res = None /\ n.then = "none" /\ n.new = None /\ n.pin = None /\ n.unlinked = FALSE
    BY <2>1 DEF Idle
  <2>3. Set(t, n)
    BY <1>3, <2>1 DEF InsertBegin
  <2> QED BY <1>1, <2>2, <2>3, BeginTrace
<1> QED BY <1>2, <1>3 DEF GetBegin, DeleteBegin

\* A call returns.
LEMMA ReturnTrace ==
  ASSUME IInv, IInv', RInv, NEW t \in Threads, Return(t)
  PROVE  RInv' /\ AtomicStep
<1>1. TypeOK /\ DOMAIN th = Threads
  BY DEF IInv, TypeOK
<1>2. th[t].pc = "done" /\ Set(t, Idle) /\ DropReader(t) /\ UNCHANGED <<slot, dr>> /\ Record
  BY DEF Return
<1>3. PICK n : n = Idle
  OBVIOUS
<1>4. th'[t] = n /\ \A u \in Threads : u # t => th'[u] = th[u]
  BY <1>1, <1>2, <1>3 DEF Set
<1>5. /\ \A s \in Segments : SegmentStep(s)
      /\ \A s \in Segments : gen'[s] # gen[s] =>
           \A u \in Threads : u # t /\ th[u].pin # None => th[u].pin.seg # s
  BY <1>2, DropSteady
<1>6. AbstractMap' = AbstractMap /\ \A k : Bound(k)' = Bound(k)
  BY <1>2, <1>5, TableKept
<1>7. Steady(t)
  BY <1>2, <1>4, <1>5, <1>6 DEF Steady
<1>8. /\ n.pc = "idle" /\ n.op = "none" /\ n.key = None /\ n.val = None /\ n.phase = "none"
      /\ n.res = None /\ n.then = "none" /\ n.new = None /\ n.pin = None /\ n.unlinked = FALSE
  BY <1>3 DEF Idle
<1>9. PICK q, V : q = "idle" /\ V = window'[t]
  OBVIOUS
<1>10. KindOK(n, q) /\ CallPc(t)' = q
  BY <1>4, <1>8, <1>9 DEF KindOK, CallPc, DrainPcs
<1>11. FoundOK(n, q, V)'
  BY <1>8, <1>9 DEF FoundOK, FoundPcs
<1>12. RInv'
  BY <1>4, <1>7, <1>9, <1>10, <1>11, TraceStep
<1>13. CallOf(th[t])' = Atomic!NoCall
  BY <1>4, <1>8 DEF CallOf, Atomic!NoCall
<1>14. PICK c : c = Atomic!NoCall
  OBVIOUS
<1>15. AbstractCall' = [AbstractCall EXCEPT ![t] = c]
  BY <1>4, <1>13, <1>14, CallChange
<1>16. AbstractCall[t].res # None
  <2>1. th[t].res # None
    BY <1>2, AtCall DEF KindOK, DrainPcs
  <2> QED BY <2>1 DEF AbstractCall, CallOf
<1>17. Atomic!Watch
  BY <1>2, <1>12, WatchStep
<1>18. Atomic!Return(t)
  BY <1>6, <1>14, <1>15, <1>16, <1>17 DEF Atomic!Return
<1> QED BY <1>12, <1>18 DEF AtomicStep, Atomic!Next

-----------------------------------------------------------------------------
(* Steps that publish an item. *)

\* The insert's item goes into slot i, which was empty or the key's: the key is bound to it.
LEMMA BindTrace ==
  ASSUME IInv, IInv', RInv, NEW t \in Threads, NEW r, r = th[t], NEW n, Set(t, n), NEW i \in Slots,
         slot' = [slot EXCEPT ![i] = r.new], UNCHANGED <<st, gen, items, dr>>, Record,
         r.pc \in {"swapold", "swap", "claimslot"},
         slot[i] = None \/ (slot[i] = r.word /\ r.pc \in MatchPcs),
         n.op = r.op, n.key = r.key, n.val = r.val, n.new = None, n.phase = "none",
         \/ n.pc \in {"remove", "undo"} /\ n.then = "ok" /\ n.res = None /\ n.pin = r.pin /\ n.unlinked = r.unlinked
         \/ n.pc = "done" /\ n.res = "ok" /\ n.then = "none" /\ n.pin = r.pin /\ n.unlinked = FALSE
  PROVE  RInv' /\ AtomicStep
<1>0. PICK p, W, q, V : p = r.pc /\ W = window[t] /\ q = n.pc /\ V = window'[t]
  OBVIOUS
<1>1. TypeOK /\ TypeOK' /\ DOMAIN th = Threads /\ NoStaleEntry /\ NoStaleEntry' /\ OneEntry /\ OneEntry'
  BY DEF IInv, TypeOK
<1>2. /\ StepOK(r, p) /\ WordsOK(r, p) /\ NewOK(r) /\ KindOK(r, p) /\ FoundOK(r, p, W)
  BY <1>0, AtCall DEF DrainPcs
<1>3. th'[t] = n /\ \A u \in Threads : u # t => th'[u] = th[u]
  BY <1>1 DEF Set
<1>4. \A s \in Segments : SegmentStep(s)
  BY <1>1 DEF TypeOK, SegmentStep
<1>5. r.op = "insert" /\ r.key \in Keys /\ r.val \in Values /\ r.res = None /\ r.pin = None /\ r.then = "none"
  BY <1>0, <1>2 DEF KindOK, StepOK
<1>6. PICK k \in Keys : k = r.key
  BY <1>5
<1>7. PICK w : w = r.new
  OBVIOUS
<1>8. w # None /\ Issued(w) /\ Resolves(w) /\ ItemAt(w).key = k /\ ItemAt(w).val = r.val
  <2>1. r.new # None
    BY <1>0, <1>2 DEF StepOK, Writing
  <2> QED BY <1>1, <1>2, <1>6, <1>7, <2>1, NewIssued DEF NewOK, FoundOK
<1>9. slot'[i] = w /\ \A j \in Slots : j # i => slot'[j] = slot[j]
  BY <1>1, <1>7 DEF TypeOK
<1>10. i \in Bound(k)' /\ (\A x \in Keys : x # k => i \notin Bound(x)') /\ ItemAt(slot[i])' = ItemAt(w)
  <2>1. ItemAt(slot[i])' = ItemAt(w)
    BY <1>9 DEF ItemAt
  <2>2. slot'[i] # None /\ Resolves(slot[i])' /\ slot'[i].off <= Len(items'[slot'[i].seg])
    BY <1>1, <1>8, <1>9 DEF NoStaleEntry
  <2> QED BY <1>8, <2>1, <2>2 DEF Bound
<1>11. \A x \in Keys : x # k => i \notin Bound(x)
  <2>1. CASE slot[i] = None
    BY <2>1 DEF Bound
  <2>2. CASE slot[i] # None
    <3>1. Resolves(slot[i])
      BY <1>1, <2>2 DEF NoStaleEntry
    <3>2. ItemAt(slot[i]).key = k
      BY <1>0, <1>2, <1>6, <2>2, <3>1 DEF WordsOK
    <3> QED BY <3>2 DEF Bound
  <2> QED BY <2>1, <2>2
<1>12. ASSUME NEW j \in Slots, j # i PROVE EntrySame(j)
  BY <1>1, <1>4, <1>9, <1>12, EntryKept
<1>13. ASSUME NEW x \in Keys, x # k PROVE Bound(x)' = Bound(x) /\ Current(x)' = Current(x)
  BY <1>1, <1>10, <1>11, <1>12, <1>13, BoundSame
<1>14. Bound(k)' = {i}
  BY <1>1, <1>10 DEF OneEntry
<1>15. Current(k)' = {r.val}
  <2>1. ItemAt(slot[i])'.val = r.val
    BY <1>8, <1>10
  <2> QED BY <1>14, <2>1 DEF Current
<1>16. Bound(k)' \subseteq Bound(k) \/ Bound(k) = {}
  <2>1. ASSUME NEW j \in Bound(k), j # i PROVE FALSE
    <3>1. j \in Slots /\ slot[j] # None /\ ItemAt(slot[j]).key = k
      BY DEF Bound
    <3>2. slot'[j] # None /\ ItemAt(slot[j])'.key = k
      BY <1>12, <2>1, <3>1 DEF EntrySame
    <3>3. j \in Bound(k)'
      BY <1>1, <3>1, <3>2 DEF Bound, NoStaleEntry
    <3> QED BY <1>14, <2>1, <3>3
  <2> QED BY <1>14, <2>1
<1>17. Steady(t)
  BY <1>3, <1>4, <1>13, <1>16 DEF Steady
<1>18. KindOK(n, q)
  BY <1>0, <1>2, <1>5, AnswerAssumption DEF KindOK
<1>19. ASSUME n.key = th[t].key => W \subseteq V PROVE FoundOK(n, q, V)'
  <2>1. n.unlinked => Absent \in V
    BY <1>2, <1>19 DEF FoundOK
  <2> QED BY <1>0, <1>5, <2>1 DEF FoundOK, FoundPcs
<1>20. CallPc(t)' = q
  BY <1>0, <1>3 DEF CallPc, DrainPcs
<1>21. RInv'
  BY <1>0, <1>3, <1>17, <1>18, <1>19, <1>20, TraceStep
<1>22. Atomic!Watch
  BY <1>21, WatchStep
<1>23. AbstractMap' = [AbstractMap EXCEPT ![k] = r.val]
  <2>1. \A x \in Keys : Current(x) = {AbstractMap[x]} /\ Current(x)' = {AbstractMap'[x]}
    BY <1>1, MapCurrent, MapNext
  <2>2. AbstractMap'[k] = r.val /\ \A x \in Keys : x # k => AbstractMap'[x] = AbstractMap[x]
    BY <1>13, <1>15, <2>1
  <2>3. /\ AbstractMap = [x \in Keys |-> AbstractMap[x]]
        /\ AbstractMap' = [x \in Keys |-> AbstractMap'[x]]
    BY DEF AbstractMap
  <2> QED BY <2>2, <2>3
<1>24. PICK c, res : c = CallOf(r) /\ res = n.res
  OBVIOUS
<1>25. CallOf(n) = [c EXCEPT !.bound = TRUE, !.res = res]
  <2>1. PICK d, e : d = CallOf(n) /\ e = [c EXCEPT !.bound = TRUE, !.res = res]
    OBVIOUS
  <2>2. DOMAIN c = {"op", "key", "val", "res", "bound"} /\ c.op = r.op /\ c.key = r.key /\ c.val = r.val
    BY <1>24 DEF CallOf
  <2>3. /\ e = [x \in {"op", "key", "val", "res", "bound"} |-> e[x]]
        /\ e.op = r.op /\ e.key = r.key /\ e.val = r.val /\ e.res = res /\ e.bound = TRUE
    BY <2>1, <2>2
  <2>4. /\ d = [x \in {"op", "key", "val", "res", "bound"} |-> d[x]]
        /\ d.op = r.op /\ d.key = r.key /\ d.val = r.val /\ d.res = res /\ d.bound = TRUE
    BY <1>5, <1>24, <2>1 DEF CallOf
  <2>5. d = e
    <3>1. d.bound = e.bound
      BY <2>3, <2>4, Zenon
    <3> QED BY <2>3, <2>4, <3>1, CallEqual
  <2> QED BY <2>1, <2>5
<1>26. AbstractCall' = [AbstractCall EXCEPT ![t] = [c EXCEPT !.bound = TRUE, !.res = res]]
  <2>1. CallOf(th[t])' = CallOf(n)
    BY <1>3 DEF CallOf
  <2> QED BY <1>3, <1>25, <2>1, CallChange
<1>27. AbstractCall[t] = c
  BY <1>24 DEF AbstractCall
<1>28. c.op = "insert" /\ c.res = None /\ ~c.bound /\ c.key = k /\ c.val = r.val
  BY <1>5, <1>6, <1>24, AnswerAssumption DEF CallOf
<1>29. res \in {None, "ok"}
  BY <1>24
<1>30. AbstractCall' = [AbstractCall EXCEPT ![t].bound = TRUE, ![t].res = res]
  BY <1>26, <1>27
<1>31. Atomic!Bind(t)
  BY <1>22, <1>23, <1>27, <1>28, <1>29, <1>30 DEF Atomic!Bind
<1> QED BY <1>21, <1>31 DEF AtomicStep, Atomic!Next

\* A scan begun again with other pins dropped.
LEMMA RescanTrace ==
  ASSUME IInv, IInv', RInv, NEW t \in Threads, NEW r, r = th[t], NEW u, NEW phase,
         Set(t, Scanning(u, phase)), UNCHANGED <<slot, st, gen, items, dr>>, Record,
         r.pc \notin DrainPcs \cup FoundPcs \cup {"idle", "done", "scan", "verify"},
         DOMAIN u = ThreadFields,
         /\ u.op = r.op /\ u.key = r.key /\ u.val = r.val
         /\ u.phase = r.phase /\ u.then = r.then /\ u.res = r.res /\ u.pin = r.pin /\ u.new = r.new
         /\ u.unlinked = r.unlinked,
         phase \in Phases(r.op), phase # "recheck"
  PROVE  RInv' /\ AtomicStep
<1>1. PICK p, W, n : p = r.pc /\ W = window[t] /\ n = Scanning(u, phase)
  OBVIOUS
<1>2. KindOK(r, p) /\ FoundOK(r, p, W)
  BY <1>1, AtCall
<1>3. p \notin FoundPcs \cup {"idle", "done", "scan", "verify"}
  BY <1>1
<1>4. KindOK(u, p)
  BY <1>2 DEF KindOK
<1>5. FoundOK(u, p, W)
  BY <1>2, <1>3 DEF FoundOK, FoundPcs
<1>6. phase \in Phases(u.op) /\ phase # "recheck" /\ p \notin {"idle", "done"} /\ n = Scanning(u, phase)
  BY <1>1, <1>3
<1>7. n.pc = "scan" /\ KindOK(n, n.pc) /\ FoundOK(n, n.pc, W) /\ Proceeds(u, n, W)
  BY <1>4, <1>5, <1>6, ScanShape
<1>8. Proceeds(r, n, W)
  BY <1>7 DEF Proceeds, Allowed
<1> QED BY <1>1, <1>7, <1>8, CallTrace DEF DrainPcs

\* cas_location_at.
LEMMA SwapOldTrace ==
  ASSUME IInv, IInv', RInv, NEW t \in Threads, SwapOld(t)
  PROVE  RInv' /\ AtomicStep
<1>0. PICK r : r = th[t]
  OBVIOUS
<1>1. r.pc = "swapold" /\ UNCHANGED <<st, gen, items, dr>> /\ Record
  BY <1>0 DEF SwapOld, segs
<1>2. DOMAIN r = ThreadFields /\ KindOK(r, "swapold") /\ StepOK(r, "swapold")
  BY <1>0, <1>1, AtCall DEF DrainPcs
<1>3. r.op = "insert" /\ r.at \in Slots /\ r.res = None
  BY <1>2 DEF KindOK, StepOK, AtPcs
<1>4. CASE slot[r.at] = r.word
  <2>1. PICK n : n = [r EXCEPT !.pc = "remove", !.phase = "none", !.at = None, !.word = None,
                               !.wpin = FALSE, !.new = None, !.old = r.word, !.then = "ok"]
    OBVIOUS
  <2>2. Set(t, n) /\ slot' = [slot EXCEPT ![r.at] = r.new]
    BY <1>0, <1>4, <2>1 DEF SwapOld
  <2>3. /\ n.pc = "remove" /\ n.op = r.op /\ n.key = r.key /\ n.val = r.val /\ n.phase = "none"
        /\ n.then = "ok" /\ n.res = None /\ n.pin = r.pin /\ n.new = None /\ n.unlinked = r.unlinked
    BY <1>2, <1>3, <2>1 DEF ThreadFields
  <2> QED BY <1>0, <1>1, <1>3, <1>4, <2>2, <2>3, BindTrace DEF MatchPcs
<1>5. CASE slot[r.at] # r.word
  <2>1. PICK u, phase : u = [r EXCEPT !.rem = None] /\ phase = "lookup"
    OBVIOUS
  <2>2. Set(t, Scanning(u, phase)) /\ slot' = slot
    BY <1>0, <1>5, <2>1 DEF SwapOld
  <2>3. /\ DOMAIN u = ThreadFields /\ u.op = r.op /\ u.key = r.key /\ u.val = r.val
        /\ u.phase = r.phase /\ u.then = r.then /\ u.res = r.res /\ u.pin = r.pin /\ u.new = r.new
        /\ u.unlinked = r.unlinked
    BY <1>2, <2>1 DEF ThreadFields
  <2>4. phase \in Phases(r.op) /\ phase # "recheck"
    BY <1>3, <2>1 DEF Phases, WritePhases
  <2>5. r.pc \notin DrainPcs \cup FoundPcs \cup {"idle", "done", "scan", "verify"}
    BY <1>1 DEF DrainPcs, FoundPcs
  <2>6. UNCHANGED <<slot, st, gen, items, dr>>
    BY <1>1, <2>2
  <2> QED BY <1>0, <1>1, <2>2, <2>3, <2>4, <2>5, <2>6, RescanTrace
<1> QED BY <1>4, <1>5

\* try_replace_existing's CAS.
LEMMA ReplaceTrace ==
  ASSUME IInv, IInv', RInv, NEW t \in Threads, TryReplaceExisting(t)
  PROVE  RInv' /\ AtomicStep
<1>0. PICK r, W : r = th[t] /\ W = window[t]
  OBVIOUS
<1>1. r.pc = "swap" /\ UNCHANGED <<st, gen, items, dr>> /\ Record
  BY <1>0 DEF TryReplaceExisting, segs
<1>2. DOMAIN r = ThreadFields /\ KindOK(r, "swap") /\ StepOK(r, "swap") /\ FoundOK(r, "swap", W)
  BY <1>0, <1>1, AtCall DEF DrainPcs
<1>3. r.op = "insert" /\ r.at \in Slots /\ r.res = None /\ r.phase \in {"replace", "relock"}
  BY <1>2 DEF KindOK, StepOK, AtPcs
<1>4. CASE slot[r.at] = r.word
  <2>1. PICK n : n = [r EXCEPT !.pc = "undo", !.phase = "none", !.left = {}, !.at = None,
                               !.word = None, !.unk = None, !.wpin = FALSE, !.new = None,
                               !.old = r.word, !.then = "ok"]
    OBVIOUS
  <2>2. Set(t, n) /\ slot' = [slot EXCEPT ![r.at] = r.new]
    BY <1>0, <1>4, <2>1 DEF TryReplaceExisting
  <2>3. /\ n.pc = "undo" /\ n.op = r.op /\ n.key = r.key /\ n.val = r.val /\ n.phase = "none"
        /\ n.then = "ok" /\ n.res = None /\ n.pin = r.pin /\ n.new = None /\ n.unlinked = r.unlinked
    BY <1>2, <1>3, <2>1 DEF ThreadFields
  <2> QED BY <1>0, <1>1, <1>3, <1>4, <2>2, <2>3, BindTrace DEF MatchPcs
<1>5. CASE slot[r.at] # r.word
  <2>1. PICK n : n = [r EXCEPT !.pc = "scan", !.left = @ \cup {r.at}, !.at = None, !.word = None]
    OBVIOUS
  <2>2. Set(t, n) /\ slot' = slot
    BY <1>0, <1>5, <2>1 DEF TryReplaceExisting
  <2>3. /\ n.pc = "scan" /\ n.op = r.op /\ n.key = r.key /\ n.val = r.val /\ n.phase = r.phase
        /\ n.then = r.then /\ n.res = r.res /\ n.pin = r.pin /\ n.new = r.new /\ n.unlinked = r.unlinked
    BY <1>2, <2>1 DEF ThreadFields
  <2>4. r.phase \in Phases(r.op)
    BY <1>3 DEF Phases, WritePhases
  <2>5. KindOK(n, "scan")
    BY <1>2, <1>3, <2>3, <2>4 DEF KindOK
  <2>6. FoundOK(n, "scan", W)
    BY <1>2, <1>3, <2>3 DEF FoundOK, FoundPcs
  <2>7. Proceeds(r, n, W)
    BY <2>3 DEF Proceeds
  <2>8. UNCHANGED <<slot, st, gen, items, dr>>
    BY <1>1, <2>2
  <2> QED BY <1>0, <1>1, <2>2, <2>3, <2>5, <2>6, <2>7, <2>8, CallTrace DEF DrainPcs
<1> QED BY <1>4, <1>5

\* try_claim_new_slot.
LEMMA ClaimSlotTrace ==
  ASSUME IInv, IInv', RInv, NEW t \in Threads, NEW i \in Slots, TryClaimNewSlot(t, i)
  PROVE  RInv' /\ AtomicStep
<1>0. PICK r : r = th[t]
  OBVIOUS
<1>1. /\ r.pc = "claimslot" /\ slot[i] = None /\ slot' = [slot EXCEPT ![i] = r.new]
      /\ UNCHANGED <<st, gen, items, dr>> /\ Record
  BY <1>0 DEF TryClaimNewSlot, segs
<1>2. PICK n : n = Answering(r, "ok")
  OBVIOUS
<1>3. Set(t, n)
  BY <1>0, <1>2 DEF TryClaimNewSlot
<1>4. /\ n.pc = "done" /\ n.op = r.op /\ n.key = r.key /\ n.val = r.val /\ n.phase = "none"
      /\ n.then = "none" /\ n.res = "ok" /\ n.pin = r.pin /\ n.new = None /\ n.unlinked = FALSE
  BY <1>2 DEF Answering, Idle
<1> QED BY <1>0, <1>1, <1>3, <1>4, BindTrace

\* reserve and define: the item is not in the table yet.
LEMMA ReserveTrace ==
  ASSUME IInv, IInv', RInv, NEW t \in Threads, NEW s \in Segments, Reserve(t, s)
  PROVE  RInv' /\ AtomicStep
<1>0. PICK r, W, V : r = th[t] /\ W = window[t] /\ V = window'[t]
  OBVIOUS
<1>1. /\ r.pc = "reserve" /\ UNCHANGED <<slot, st, gen, dr>> /\ Record
      /\ items' = [items EXCEPT ![s] = Append(@, [key |-> r.key, val |-> r.val])]
  BY <1>0 DEF Reserve
<1>2. /\ DOMAIN r = ThreadFields /\ KindOK(r, "reserve") /\ StepOK(r, "reserve")
      /\ FoundOK(r, "reserve", W)
  BY <1>0, <1>1, AtCall DEF DrainPcs
<1>3. r.op = "insert" /\ r.key \in Keys /\ r.val \in Values /\ r.pin = None
  BY <1>2 DEF KindOK, StepOK
<1>4. TypeOK /\ DOMAIN th = Threads /\ items[s] \in Seq(Item) /\ items \in [Segments -> Seq(Item)]
  BY DEF IInv, TypeOK
<1>5. PICK item, l : item = [key |-> r.key, val |-> r.val] /\ l = Len(items[s])
  OBVIOUS
<1>6. /\ items'[s] = Append(items[s], item) /\ \A x \in Segments : x # s => items'[x] = items[x]
      /\ item \in Item /\ item.val = r.val /\ l \in Nat
  BY <1>1, <1>3, <1>4, <1>5 DEF Item
<1>7. /\ Len(items'[s]) = l + 1 /\ items'[s][l + 1] = item
      /\ \A o \in 1..l : items'[s][o] = items[s][o]
  BY <1>4, <1>5, <1>6
<1>8. ASSUME NEW x \in Segments PROVE SegmentStep(x)
  <2>1. CASE x = s
    BY <1>1, <1>4, <1>5, <1>6, <1>7, <2>1 DEF SegmentStep, TypeOK
  <2>2. CASE x # s
    <3>1. items[x] \in Seq(Item)
      BY <1>4
    <3>2. Len(items[x]) \in Nat
      BY <3>1
    <3> QED BY <1>1, <1>6, <2>2, <3>2 DEF SegmentStep
  <2> QED BY <2>1, <2>2
<1>9. PICK w, u, n : w = Loc(s, Len(items[s]) + 1) /\ u = [r EXCEPT !.new = w, !.wpin = TRUE]
                     /\ n = Scanning(u, "lookup")
  OBVIOUS
<1>10. Set(t, n)
  BY <1>0, <1>9 DEF Reserve
<1>11. /\ DOMAIN u = ThreadFields /\ u.op = r.op /\ u.key = r.key /\ u.val = r.val /\ u.then = r.then
       /\ u.res = r.res /\ u.pin = r.pin /\ u.new = w /\ u.unlinked = r.unlinked
  BY <1>2, <1>9 DEF ThreadFields
<1>12. /\ n.pc = "scan" /\ n.op = r.op /\ n.key = r.key /\ n.val = r.val /\ n.then = r.then
       /\ n.res = r.res /\ n.pin = r.pin /\ n.new = w /\ n.unlinked = r.unlinked /\ n.phase = "lookup"
  BY <1>9, <1>11 DEF Scanning, ThreadFields
<1>13. th'[t] = n /\ \A x \in Threads : x # t => th'[x] = th[x]
  BY <1>4, <1>10 DEF Set
<1>14. AbstractMap' = AbstractMap /\ \A k : Bound(k)' = Bound(k)
  BY <1>1, <1>8, TableKept
<1>15. Steady(t)
  BY <1>1, <1>8, <1>13, <1>14 DEF Steady
<1>16. PICK q : q = "scan"
  OBVIOUS
<1>17. KindOK(n, q) /\ CallPc(t)' = q
  <2>1. KindOK(n, q)
    BY <1>2, <1>3, <1>12, <1>16 DEF KindOK, Phases, WritePhases
  <2> QED BY <1>12, <1>13, <1>16, <2>1 DEF CallPc, DrainPcs
<1>18. ItemAt(w)'.val = r.val
  <2>1. w.seg = s /\ w.off = l + 1
    BY <1>5, <1>9 DEF Loc
  <2>2. ItemAt(w)' = item
    BY <1>7, <2>1 DEF ItemAt
  <2> QED BY <1>6, <2>2
<1>19. ASSUME n.key = th[t].key => window[t] \subseteq V PROVE FoundOK(n, q, V)'
  <2>1. n.unlinked \/ n.then = "deleted" => Absent \in V
    BY <1>0, <1>2, <1>12, <1>19 DEF FoundOK
  <2> QED BY <1>3, <1>12, <1>16, <1>18, <2>1 DEF FoundOK, FoundPcs
<1>20. RInv'
  BY <1>0, <1>13, <1>15, <1>17, <1>19, TraceStep
<1>21. Proceeds(r, n, W)
  BY <1>12 DEF Proceeds
<1> QED BY <1>0, <1>1, <1>13, <1>14, <1>20, <1>21, ProceedStep

-----------------------------------------------------------------------------
(* Entries that go. *)

\* An entry is taken out: its key is absent from then on, and no other key changes.
LEMMA TakenOut ==
  ASSUME IInv, IInv', \A s \in Segments : SegmentStep(s), NEW w \in Location,
         \A i \in Slots : slot'[i] = IF slot[i] = w THEN None ELSE slot[i]
  PROVE  /\ \A x \in Keys : Bound(x)' \subseteq Bound(x)
         /\ \/ AbstractMap' = AbstractMap
            \/ \E k \in Keys : /\ AbstractMap[k] # Absent
                               /\ AbstractMap' = [AbstractMap EXCEPT ![k] = Absent]
         /\ \A k : (\E i \in Slots : slot[i] = w) /\ k = ItemAt(w).key =>
              k \in Keys /\ Resolves(w) /\ Current(k)' = {Absent}
<1>1. TypeOK /\ TypeOK' /\ NoStaleEntry /\ NoStaleEntry' /\ OneEntry /\ OneEntry' /\ w # None
  BY LocationAssumption DEF IInv
<1>2. ASSUME NEW i \in Slots, slot[i] # w PROVE EntrySame(i) /\ slot'[i] = slot[i]
  BY <1>1, <1>2, EntryKept
<1>3. ASSUME NEW i \in Slots, slot[i] = w PROVE slot'[i] = None /\ \A x : i \notin Bound(x)'
  BY <1>1, <1>3 DEF Bound
<1>4. CASE \A i \in Slots : slot[i] # w
  <2>1. \A i \in Slots : EntrySame(i)
    BY <1>2, <1>4
  <2>2. \A x : Bound(x)' = Bound(x) /\ Current(x)' = Current(x)
    BY <1>1, <2>1, BoundSame
  <2>3. AbstractMap' = AbstractMap
    BY <1>1, <2>2, MapSame
  <2> QED BY <1>4, <2>2, <2>3
<1>5. CASE \E i \in Slots : slot[i] = w
  <2>1. PICK a \in Slots : slot[a] = w
    BY <1>5
  <2>2. PICK k : k = ItemAt(w).key
    OBVIOUS
  <2>3. k \in Keys /\ Resolves(w) /\ a \in Bound(k) /\ \A x : a \in Bound(x) <=> k = x
    BY <1>1, <2>1, <2>2, SlotIssued
  <2>4. Bound(k) = {a}
    BY <1>1, <2>3 DEF OneEntry
  <2>5. ASSUME NEW i \in Slots, slot[i] = w PROVE i = a
    <3>1. i \in Bound(k)
      BY <1>1, <2>2, <2>5, SlotIssued
    <3> QED BY <2>4, <3>1
  <2>6. ASSUME NEW x, x # k PROVE Bound(x)' = Bound(x) /\ Current(x)' = Current(x)
    <3>1. \A i \in Slots : EntrySame(i) \/ (i \notin Bound(x) /\ i \notin Bound(x)')
      BY <1>2, <1>3, <2>1, <2>3, <2>5, <2>6
    <3> QED BY <1>1, <3>1, BoundSame
  <2>7. Bound(k)' = {}
    <3>1. ASSUME NEW i \in Bound(k)' PROVE FALSE
      <4>1. i \in Slots /\ slot'[i] # None /\ ItemAt(slot[i])'.key = k
        BY DEF Bound
      <4>2. slot[i] # w /\ EntrySame(i) /\ slot[i] # None
        BY <1>2, <1>3, <4>1 DEF EntrySame
      <4>3. ItemAt(slot[i]).key = k
        BY <4>1, <4>2 DEF EntrySame
      <4>4. i \in Bound(k)
        BY <1>1, <4>1, <4>2, <4>3, SlotIssued
      <4> QED BY <2>1, <2>4, <4>2, <4>4
    <3> QED BY <3>1
  <2>8. Current(k)' = {Absent}
    BY <2>7 DEF Current
  <2>9. AbstractMap[k] # Absent
    <3>1. Current(k) = {ItemAt(w).val}
      BY <2>1, <2>4 DEF Current
    <3>2. ItemAt(w).val \in Values
      <4>1. w.seg \in Segments /\ w.off \in Nat \ {0} /\ items[w.seg] \in Seq(Item) /\ w.off <= Len(items[w.seg])
        BY <1>1, <2>1 DEF Location, TypeOK, NoStaleEntry
      <4>2. w.off \in 1..Len(items[w.seg])
        BY <4>1
      <4>3. ItemAt(w) \in Item
        BY <4>1, <4>2 DEF ItemAt
      <4> QED BY <4>3 DEF Item
    <3> QED BY <1>1, <2>3, <3>1, <3>2, MapCurrent, SentinelAssumption
  <2>10. AbstractMap' = [AbstractMap EXCEPT ![k] = Absent]
    <3>1. \A x \in Keys : Current(x) = {AbstractMap[x]} /\ Current(x)' = {AbstractMap'[x]}
      BY <1>1, MapCurrent, MapNext
    <3>2. AbstractMap'[k] = Absent /\ \A x \in Keys : x # k => AbstractMap'[x] = AbstractMap[x]
      BY <2>3, <2>6, <2>8, <3>1
    <3>3. /\ AbstractMap = [x \in Keys |-> AbstractMap[x]]
          /\ AbstractMap' = [x \in Keys |-> AbstractMap'[x]]
      BY DEF AbstractMap
    <3> QED BY <3>2, <3>3
  <2>11. \A x \in Keys : Bound(x)' \subseteq Bound(x)
    BY <2>6, <2>7
  <2> QED BY <2>2, <2>3, <2>8, <2>9, <2>10, <2>11
<1> QED BY <1>4, <1>5

\* To the abstract cache a key goes away, or nothing happens.
LEMMA Drops ==
  ASSUME IInv, IInv', RInv, RInv', Record,
         \A u \in Threads : CallOf(th[u])' = CallOf(th[u]),
         \/ AbstractMap' = AbstractMap
         \/ \E k \in Keys : /\ AbstractMap[k] # Absent
                            /\ AbstractMap' = [AbstractMap EXCEPT ![k] = Absent]
  PROVE  AtomicStep
<1>1. CASE AbstractMap' = AbstractMap
  BY <1>1, Stutters DEF AtomicStep
<1>2. CASE \E k \in Keys : /\ AbstractMap[k] # Absent
                           /\ AbstractMap' = [AbstractMap EXCEPT ![k] = Absent]
  <2>1. PICK k \in Keys : /\ AbstractMap[k] # Absent
                          /\ AbstractMap' = [AbstractMap EXCEPT ![k] = Absent]
    BY <1>2
  <2>2. AbstractCall' = AbstractCall
    BY DEF AbstractCall
  <2>3. Atomic!Watch
    BY WatchStep
  <2>4. Atomic!Drop(k)
    BY <2>1, <2>2, <2>3 DEF Atomic!Drop
  <2> QED BY <2>4 DEF AtomicStep, Atomic!Next
<1> QED BY <1>1, <1>2

\* A delete's unlink that lands: from then on the key has been absent.
LEMMA UnlinkLands ==
  ASSUME IInv, IInv', RInv, NEW t \in Threads, NEW r, r = th[t], NEW n, Set(t, n),
         r.pc \in {"unlinkfree", "unlink"}, UNCHANGED <<st, gen, items, dr>>, Record,
         NEW w, w = r.word, \A i \in Slots : slot'[i] = IF slot[i] = w THEN None ELSE slot[i],
         \E i \in Slots : slot[i] = w,
         /\ n.op = r.op /\ n.key = r.key /\ n.val = r.val /\ n.res = r.res /\ n.pin = r.pin
         /\ n.new = r.new,
         \/ n.pc = "scan" /\ n.phase = "recheck" /\ n.unlinked /\ n.then = r.then
         \/ n.pc = "remove" /\ n.phase = "none" /\ n.then = "deleted"
  PROVE  RInv' /\ AtomicStep
<1>0. PICK p, W, q, V : p = r.pc /\ W = window[t] /\ q = n.pc /\ V = window'[t]
  OBVIOUS
<1>1. TypeOK /\ DOMAIN th = Threads
  BY DEF IInv, TypeOK
<1>2. /\ p \in {"unlinkfree", "unlink"} /\ p \notin DrainPcs /\ StepOK(r, p) /\ WordsOK(r, p)
      /\ KindOK(r, p) /\ FoundOK(r, p, W)
  BY <1>0, AtCall DEF DrainPcs
<1>3. /\ r.op = "delete" /\ r.key \in Keys /\ r.val = None /\ r.res = None /\ r.pin = None
      /\ r.new = None /\ r.then = "none"
  BY <1>2 DEF KindOK, StepOK, Writing
<1>4. w \in Location /\ Issued(w)
  BY <1>2 DEF WordsOK, WordPcs, Issued
<1>5. \A s \in Segments : SegmentStep(s)
  BY <1>1 DEF TypeOK, SegmentStep
<1>6. th'[t] = n /\ \A u \in Threads : u # t => th'[u] = th[u]
  BY <1>1 DEF Set
<1>7. PICK k : k = ItemAt(w).key
  OBVIOUS
<1>8. /\ \A x \in Keys : Bound(x)' \subseteq Bound(x)
      /\ \/ AbstractMap' = AbstractMap
         \/ \E x \in Keys : /\ AbstractMap[x] # Absent
                            /\ AbstractMap' = [AbstractMap EXCEPT ![x] = Absent]
      /\ k \in Keys /\ Resolves(w) /\ Current(k)' = {Absent}
  BY <1>4, <1>5, <1>7, TakenOut
<1>9. r.key = k
  BY <1>2, <1>7, <1>8 DEF FoundOK, FoundPcs
<1>10. Steady(t)
  BY <1>5, <1>6, <1>8 DEF Steady
<1>11. CallPc(t)' = q
  BY <1>0, <1>6 DEF CallPc, DrainPcs
<1>12. KindOK(n, q)
  <2>1. CASE n.pc = "scan" /\ n.phase = "recheck" /\ n.unlinked /\ n.then = r.then
    <3>1. n.phase \in Phases(n.op)
      BY <1>3, <2>1 DEF Phases
    <3> QED BY <1>0, <1>3, <2>1, <3>1, SentinelAssumption DEF KindOK
  <2>2. CASE n.pc = "remove" /\ n.phase = "none" /\ n.then = "deleted"
    BY <1>0, <1>3, <2>2, SentinelAssumption DEF KindOK
  <2> QED BY <2>1, <2>2
<1>13. ASSUME n.key # None => Current(n.key)' \subseteq V PROVE FoundOK(n, q, V)'
  <2>1. Absent \in V
    BY <1>3, <1>8, <1>9, <1>13, SentinelAssumption
  <2> QED BY <1>0, <1>3, <2>1 DEF FoundOK, FoundPcs
<1>14. RInv'
  BY <1>0, <1>6, <1>10, <1>11, <1>12, <1>13, TraceStep
<1>15. CallOf(n) = CallOf(r)
  BY <1>3 DEF CallOf
<1>16. ASSUME NEW u \in Threads PROVE CallOf(th[u])' = CallOf(th[u])
  <2>1. CASE u = t
    BY <1>6, <1>15, <2>1 DEF CallOf
  <2>2. CASE u # t
    BY <1>6, <2>2 DEF CallOf
  <2> QED BY <2>1, <2>2
<1> QED BY <1>8, <1>14, <1>16, Drops

\* A delete's unlink, without a pin or under one.
LEMMA UnlinkTrace ==
  ASSUME IInv, IInv', RInv, NEW t \in Threads, UnlinkUnpinned(t) \/ UnlinkPinned(t)
  PROVE  RInv' /\ AtomicStep
<1>0. PICK r, w, W : r = th[t] /\ w = r.word /\ W = window[t]
  OBVIOUS
<1>1. /\ r.pc \in {"unlinkfree", "unlink"} /\ UNCHANGED <<st, gen, items, dr>> /\ Record
      /\ slot' = [i \in Slots |-> IF slot[i] = w THEN None ELSE slot[i]]
  BY <1>0 DEF UnlinkUnpinned, UnlinkPinned, Publishing, segs
<1>2. DOMAIN r = ThreadFields /\ KindOK(r, r.pc) /\ FoundOK(r, r.pc, W)
  BY <1>0, <1>1, AtCall DEF DrainPcs
<1>3. r.op = "delete" /\ r.pc \notin DrainPcs \cup {"idle", "done"}
  BY <1>1, <1>2 DEF KindOK, DrainPcs
<1>4. CASE Publishing(w) # {}
  <2>1. \E i \in Slots : slot[i] = w
    BY <1>4 DEF Publishing
  <2>2. \A i \in Slots : slot'[i] = IF slot[i] = w THEN None ELSE slot[i]
    BY <1>1
  <2>3. CASE UnlinkUnpinned(t)
    <3>1. PICK u, n : u = [r EXCEPT !.unlinked = TRUE] /\ n = Scanning(u, "recheck")
      OBVIOUS
    <3>2. Set(t, n)
      BY <1>0, <1>4, <2>3, <3>1 DEF UnlinkUnpinned
    <3>3. /\ DOMAIN u = ThreadFields /\ u.op = r.op /\ u.key = r.key /\ u.val = r.val
          /\ u.then = r.then /\ u.res = r.res /\ u.pin = r.pin /\ u.new = r.new /\ u.unlinked
      BY <1>2, <3>1 DEF ThreadFields
    <3>4. /\ n.pc = "scan" /\ n.op = r.op /\ n.key = r.key /\ n.val = r.val /\ n.then = r.then
          /\ n.res = r.res /\ n.pin = r.pin /\ n.new = r.new /\ n.unlinked /\ n.phase = "recheck"
      BY <3>1, <3>3 DEF Scanning, ThreadFields
    <3> QED BY <1>0, <1>1, <2>1, <2>2, <3>2, <3>4, UnlinkLands
  <2>4. CASE UnlinkPinned(t)
    <3>1. PICK n : n = [r EXCEPT !.pc = "remove", !.at = None, !.word = None, !.phase = "none",
                                 !.old = r.word, !.then = "deleted"]
      OBVIOUS
    <3>2. Set(t, n)
      BY <1>0, <1>4, <2>4, <3>1 DEF UnlinkPinned
    <3>3. /\ n.pc = "remove" /\ n.op = r.op /\ n.key = r.key /\ n.val = r.val /\ n.then = "deleted"
          /\ n.res = r.res /\ n.pin = r.pin /\ n.new = r.new /\ n.phase = "none"
      BY <1>2, <3>1 DEF ThreadFields
    <3> QED BY <1>0, <1>1, <2>1, <2>2, <3>2, <3>3, UnlinkLands
  <2> QED BY <2>3, <2>4
<1>5. CASE Publishing(w) = {}
  <2>1. slot' = slot
    <3>1. \A i \in Slots : slot[i] # w
      BY <1>5 DEF Publishing
    <3> QED BY <1>1, <3>1 DEF IInv, TypeOK
  <2>2. UNCHANGED <<slot, st, gen, items, dr>>
    BY <1>1, <2>1
  <2>3. CASE UnlinkUnpinned(t)
    <3>1. PICK phase : phase = "delete"
      OBVIOUS
    <3>2. Set(t, Scanning(th[t], phase))
      BY <1>0, <1>5, <2>3, <3>1 DEF UnlinkUnpinned
    <3>3. phase \in Phases(th[t].op) /\ phase # "recheck" /\ th[t].pc \notin DrainPcs \cup {"idle", "done"}
      BY <1>0, <1>3, <3>1 DEF Phases
    <3> QED BY <1>1, <2>2, <3>2, <3>3, ScanTrace
  <2>4. CASE UnlinkPinned(t)
    <3>1. PICK res : res = Ack(r.unlinked)
      OBVIOUS
    <3>2. Set(t, Answering([r EXCEPT !.rem = None], res))
      BY <1>0, <1>5, <2>4, <3>1 DEF UnlinkPinned
    <3>3. Answering([r EXCEPT !.rem = None], res) = Answering(r, res)
      BY <1>2 DEF Answering, ThreadFields
    <3>4. Set(t, Answering(th[t], res))
      BY <1>0, <3>2, <3>3
    <3>5. Allowed(r, res, W)
      BY <1>2, <1>3, <3>1 DEF Allowed, Ack, FoundOK
    <3>6. Allowed(th[t], res, window[t]) /\ th[t].pc \notin DrainPcs \cup {"idle", "done"}
      BY <1>0, <1>3, <3>5
    <3> QED BY <1>1, <2>2, <3>4, <3>6, AnswerTrace
  <2> QED BY <2>3, <2>4
<1> QED BY <1>4, <1>5

-----------------------------------------------------------------------------
(* Drains: the call that runs one is where it was. *)

\* A step of a drain tells the calls nothing new.
LEMMA DrainTrace ==
  ASSUME IInv, IInv', RInv, NEW t \in Threads, CallPc(t) \in {"idle", "reserve", "tail"},
         CallPc(t)' = CallPc(t), th'[t] = th[t] \/ \E q : th'[t] = [th[t] EXCEPT !.pc = q],
         Steady(t)
  PROVE  RInv' /\ \A u \in Threads : CallOf(th[u])' = CallOf(th[u])
<1>0. PICK r, n, p, W, V : r = th[t] /\ n = th'[t] /\ p = CallPc(t) /\ W = window[t] /\ V = window'[t]
  OBVIOUS
<1>1. /\ DOMAIN r = ThreadFields /\ r.new = None /\ r.phase # "relock"
      /\ KindOK(r, p) /\ FoundOK(r, p, W) /\ p \in {"idle", "reserve", "tail"}
  BY <1>0, CallAtRest DEF RInv, TraceOK
<1>2. /\ n.op = r.op /\ n.key = r.key /\ n.val = r.val /\ n.phase = r.phase /\ n.then = r.then
      /\ n.res = r.res /\ n.pin = r.pin /\ n.new = r.new /\ n.unlinked = r.unlinked
  <2>1. CASE n = r
    BY <2>1
  <2>2. CASE n # r
    <3>1. PICK q : n = [r EXCEPT !.pc = q]
      BY <1>0, <2>2
    <3> QED BY <1>1, <3>1 DEF ThreadFields
  <2> QED BY <2>1, <2>2
<1>3. KindOK(n, p)
  BY <1>1, <1>2 DEF KindOK
<1>4. r.pin = None
  BY <1>1 DEF KindOK
<1>5. ASSUME n.key = th[t].key => window[t] \subseteq V PROVE FoundOK(n, p, V)'
  <2>1. n.unlinked \/ n.then = "deleted" => Absent \in V
    BY <1>0, <1>1, <1>2, <1>5 DEF FoundOK
  <2> QED BY <1>1, <1>2, <1>4, <2>1 DEF FoundOK, FoundPcs
<1>6. RInv'
  <2>1. th'[t] = n /\ CallPc(t)' = p /\ V = window'[t]
    BY <1>0
  <2> QED BY <1>3, <1>5, <2>1, TraceStep
<1>7. CallOf(n) = CallOf(r)
  BY <1>2 DEF CallOf
<1>8. ASSUME NEW u \in Threads PROVE CallOf(th[u])' = CallOf(th[u])
  <2>1. CASE u = t
    BY <1>0, <1>7, <2>1 DEF CallOf
  <2>2. CASE u # t
    BY <2>2 DEF CallOf, Steady
  <2> QED BY <2>1, <2>2
<1> QED BY <1>6, <1>8

\* Steps that only move segments between states.
LEMMA PassTrace ==
  ASSUME IInv, IInv', RInv, NEW t \in Threads, CallPc(t) \in {"idle", "reserve", "tail"},
         CallPc(t)' = CallPc(t), NEW q, th' = [th EXCEPT ![t].pc = q] \/ th' = th,
         UNCHANGED <<slot, gen, items>>, Record, \A u \in Threads : u # t => dr'[u] = dr[u],
         \A s \in Segments : \/ st'[s] = st[s] \/ st[s] = "Free"
                             \/ /\ st[s] \in {"Live", "Sealed", "Relinking"}
                                /\ st'[s] \in {"Sealed", "Draining"}
  PROVE  RInv' /\ AtomicStep
<1>1. TypeOK /\ DOMAIN th = Threads /\ DOMAIN th[t] = ThreadFields
  BY DEF IInv, TypeOK
<1>2. ASSUME NEW s \in Segments PROVE SegmentStep(s)
  <2>1. gen'[s] = gen[s] /\ items'[s] = items[s] /\ Len(items[s]) \in Nat
    BY <1>1 DEF TypeOK
  <2>2. /\ st[s] # "Free" => st'[s] # "Free"
        /\ st[s] \in {"Draining", "Condemned"} => st'[s] \in {"Draining", "Condemned"}
    OBVIOUS
  <2> QED BY <2>1, <2>2 DEF SegmentStep
<1>3. AbstractMap' = AbstractMap /\ \A k : Bound(k)' = Bound(k)
  BY <1>2, TableKept
<1>4. /\ \A u \in Threads : u # t => th'[u] = th[u]
      /\ th'[t] = th[t] \/ th'[t] = [th[t] EXCEPT !.pc = q]
  BY <1>1
<1>5. Steady(t)
  BY <1>2, <1>3, <1>4 DEF Steady
<1>6. RInv' /\ \A u \in Threads : CallOf(th[u])' = CallOf(th[u])
  BY <1>4, <1>5, DrainTrace
<1>7. UNCHANGED Atomic!vars
  BY <1>3, <1>6, Stutters
<1> QED BY <1>6, <1>7 DEF AtomicStep

\* try_expand.
LEMMA ExpandTrace ==
  ASSUME IInv, IInv', RInv, NEW t \in Threads, NEW s \in Segments, Expand(t, s)
  PROVE  RInv' /\ AtomicStep
<1>1. /\ th[t].pc = "reserve" /\ st[s] = "Free" /\ Record
      /\ st' = [x \in Segments |-> IF x = s THEN "Live"
                                   ELSE IF st[x] = "Live" /\ ttl[x] = th[t].ttl THEN "Sealed" ELSE st[x]]
      /\ UNCHANGED <<slot, gen, items, th, dr>>
  BY DEF Expand
<1>2. CallPc(t) = "reserve" /\ CallPc(t)' = CallPc(t)
  BY <1>1 DEF CallPc, DrainPcs
<1>3. \A x \in Segments : \/ st'[x] = st[x] \/ st[x] = "Free"
                          \/ st[x] = "Live" /\ st'[x] = "Sealed"
  BY <1>1
<1> QED BY <1>1, <1>2, <1>3, PassTrace

\* claim_for_drain's CAS.
LEMMA ClaimTrace ==
  ASSUME IInv, IInv', RInv, NEW t \in Threads, NEW s \in Segments, ClaimForDrain(t, s)
  PROVE  RInv' /\ AtomicStep
<1>0. PICK p, d, q : p = th[t].pc /\ d = [NoDrain EXCEPT !.seg = s, !.ret = p] /\ q = "quiesce"
  OBVIOUS
<1>1. /\ p \in {"idle", "reserve", "tail"} /\ st[s] \in {"Sealed", "Live"}
      /\ st' = [st EXCEPT ![s] = "Draining"] /\ Record
      /\ dr' = [dr EXCEPT ![t] = d] /\ th' = [th EXCEPT ![t].pc = q]
      /\ UNCHANGED <<slot, gen, items>>
  BY <1>0 DEF ClaimForDrain
<1>2. TypeOK /\ DOMAIN dr = Threads /\ DOMAIN th = Threads /\ DOMAIN th[t] = ThreadFields
  BY DEF IInv, TypeOK
<1>3. dr'[t] = d /\ d.ret = p /\ \A u \in Threads : u # t => dr'[u] = dr[u]
  BY <1>0, <1>1, <1>2 DEF NoDrain
<1>4. th'[t].pc = "quiesce" /\ p \notin DrainPcs
  BY <1>0, <1>1, <1>2 DEF ThreadFields, DrainPcs
<1>5. CallPc(t) = p /\ CallPc(t)' = p
  BY <1>0, <1>3, <1>4 DEF CallPc, DrainPcs
<1>6. CallPc(t) \in {"idle", "reserve", "tail"} /\ CallPc(t)' = CallPc(t)
  BY <1>1, <1>5
<1>7. \A x \in Segments : \/ st'[x] = st[x]
                          \/ st[x] \in {"Live", "Sealed"} /\ st'[x] = "Draining"
  BY <1>1, <1>2 DEF TypeOK
<1> QED BY <1>1, <1>3, <1>6, <1>7, PassTrace

\* A step of a drain that goes on, while the table is left alone.
LEMMA PassOn ==
  ASSUME IInv, IInv', RInv, NEW t \in Threads, th[t].pc \in DrainPcs, NEW q,
         th' = [th EXCEPT ![t].pc = q] \/ th' = th,
         \/ th'[t].pc \in DrainPcs /\ dr'[t].ret = dr[t].ret
         \/ th'[t].pc = dr[t].ret,
         UNCHANGED <<slot, gen, items>>, Record, \A u \in Threads : u # t => dr'[u] = dr[u],
         \A s \in Segments : \/ st'[s] = st[s] \/ st[s] = "Free"
                             \/ /\ st[s] \in {"Live", "Sealed", "Relinking"}
                                /\ st'[s] \in {"Sealed", "Draining"}
  PROVE  RInv' /\ AtomicStep
<1>1. CallPc(t) = dr[t].ret /\ CallPc(t) \in {"idle", "reserve", "tail"}
  BY InDrain
<1>2. CallPc(t)' = CallPc(t)
  BY <1>1 DEF CallPc, DrainPcs
<1> QED BY <1>1, <1>2, PassTrace

\* The waits for writers and removers are over.
LEMMA QuiesceTrace ==
  ASSUME IInv, IInv', RInv, NEW t \in Threads, Quiesce(t)
  PROVE  RInv' /\ AtomicStep
<1>1. /\ th[t].pc = "quiesce" /\ UNCHANGED <<slot, gen, items>> /\ Record
  BY DEF Quiesce
<1>2. /\ TypeOK /\ DOMAIN th = Threads /\ DOMAIN th[t] = ThreadFields
      /\ DOMAIN dr = Threads /\ DOMAIN dr[t] = DrainFields
  BY DEF IInv, TypeOK
<1>3. PICK q \in {"sweep", "copy"} : th' = [th EXCEPT ![t].pc = q]
  BY DEF Quiesce
<1>4. dr'[t].ret = dr[t].ret /\ \A u \in Threads : u # t => dr'[u] = dr[u]
  BY <1>2 DEF Quiesce, DrainFields
<1>5. \A s \in Segments : st'[s] = st[s] \/ st[s] = "Free"
  BY <1>2 DEF Quiesce, TypeOK
<1>6. th'[t].pc \in DrainPcs /\ th[t].pc \in DrainPcs
  BY <1>1, <1>2, <1>3 DEF ThreadFields, DrainPcs
<1> QED BY <1>1, <1>3, <1>4, <1>5, <1>6, PassOn

\* copy_into looks at one item.
LEMMA CopyItemTrace ==
  ASSUME IInv, IInv', RInv, NEW t \in Threads, CopyItem(t)
  PROVE  RInv' /\ AtomicStep
<1>1. th[t].pc = "copy" /\ UNCHANGED <<slot, st, gen, items>> /\ Record
  BY DEF CopyItem, segs
<1>2. /\ TypeOK /\ DOMAIN th = Threads /\ DOMAIN th[t] = ThreadFields
      /\ DOMAIN dr = Threads /\ DOMAIN dr[t] = DrainFields
  BY DEF IInv, TypeOK
<1>3. PICK q : q = "relink"
  OBVIOUS
<1>4. th' = [th EXCEPT ![t].pc = q] \/ th' = th
  BY <1>3 DEF CopyItem
<1>5. dr'[t].ret = dr[t].ret /\ \A u \in Threads : u # t => dr'[u] = dr[u]
  BY <1>2 DEF CopyItem, DrainFields
<1>6. th'[t].pc \in DrainPcs /\ th[t].pc \in DrainPcs
  BY <1>1, <1>2, <1>3, <1>4 DEF ThreadFields, DrainPcs
<1> QED BY <1>1, <1>4, <1>5, <1>6, PassOn

\* The copying is over.
LEMMA CopyOverTrace ==
  ASSUME IInv, IInv', RInv, NEW t \in Threads, CopyOver(t)
  PROVE  RInv' /\ AtomicStep
<1>1. th[t].pc = "copy" /\ UNCHANGED <<slot, gen, items>> /\ Record
  BY DEF CopyOver
<1>2. /\ TypeOK /\ DOMAIN th = Threads /\ DOMAIN th[t] = ThreadFields
      /\ DOMAIN dr = Threads /\ DOMAIN dr[t] = DrainFields
  BY DEF IInv, TypeOK
<1>3. PICK q, f : q = "sweep" /\ f = dr[t].dest
  OBVIOUS
<1>4. th' = [th EXCEPT ![t].pc = q]
  BY <1>3 DEF CopyOver
<1>5. dr'[t].ret = dr[t].ret /\ \A u \in Threads : u # t => dr'[u] = dr[u]
  BY <1>2 DEF CopyOver, DrainFields
<1>6. th'[t].pc \in DrainPcs /\ th[t].pc \in DrainPcs
  BY <1>1, <1>2, <1>3, <1>4 DEF ThreadFields, DrainPcs
<1>7. f \in Segments /\ st[f] = "Relinking"
  BY <1>1, <1>3, AtCopy
<1>8. \A s \in Segments : st'[s] = st[s] \/ (st[s] = "Relinking" /\ st'[s] = "Sealed")
  <2>1. st' = st \/ st' = [st EXCEPT ![f] = "Sealed"]
    BY <1>3 DEF CopyOver
  <2> QED BY <1>2, <1>7, <2>1 DEF TypeOK
<1> QED BY <1>1, <1>4, <1>5, <1>6, <1>8, PassOn

\* merge_evict claims its next candidate, or publishes what it has copied.
LEMMA NextCandidateTrace ==
  ASSUME IInv, IInv', RInv, NEW t \in Threads, NextCandidate(t)
  PROVE  RInv' /\ AtomicStep
<1>0. PICK d : d = dr[t]
  OBVIOUS
<1>1. th[t].pc = "nextcand" /\ UNCHANGED <<slot, gen, items>> /\ Record
  BY DEF NextCandidate
<1>2. /\ TypeOK /\ DOMAIN th = Threads /\ DOMAIN th[t] = ThreadFields
      /\ DOMAIN dr = Threads /\ DOMAIN d = DrainFields /\ DrainOK(t) /\ th[t].pc \in DrainPcs
  BY <1>0, <1>1 DEF IInv, TypeOK, ThreadOK, DrainPcs
<1>3. d.dest \in Segments /\ st[d.dest] = "Relinking"
  BY <1>0, <1>1, <1>2 DEF DrainOK
<1>4. ASSUME NEW s \in Segments, st[s] = "Sealed",
             st' = [st EXCEPT ![s] = "Draining"], dr' = [dr EXCEPT ![t].seg = s],
             th' = [th EXCEPT ![t].pc = "quiesce"]
      PROVE  RInv' /\ AtomicStep
  <2>1. PICK q : q = "quiesce"
    OBVIOUS
  <2>2. th' = [th EXCEPT ![t].pc = q] /\ th'[t].pc \in DrainPcs
    BY <1>2, <1>4, <2>1 DEF ThreadFields, DrainPcs
  <2>3. dr'[t].ret = dr[t].ret /\ \A u \in Threads : u # t => dr'[u] = dr[u]
    BY <1>0, <1>2, <1>4 DEF DrainFields
  <2>4. \A x \in Segments : st'[x] = st[x] \/ (st[x] = "Sealed" /\ st'[x] = "Draining")
    BY <1>2, <1>4 DEF TypeOK
  <2> QED BY <1>1, <1>2, <2>2, <2>3, <2>4, PassOn
<1>5. ASSUME st' = [st EXCEPT ![d.dest] = "Sealed"], dr' = [dr EXCEPT ![t] = NoDrain],
             th' = [th EXCEPT ![t].pc = d.ret]
      PROVE  RInv' /\ AtomicStep
  <2>1. PICK q : q = d.ret
    OBVIOUS
  <2>2. th' = [th EXCEPT ![t].pc = q] /\ th'[t].pc = dr[t].ret
    BY <1>0, <1>2, <1>5, <2>1 DEF ThreadFields
  <2>3. \A u \in Threads : u # t => dr'[u] = dr[u]
    BY <1>2, <1>5
  <2>4. \A x \in Segments : st'[x] = st[x] \/ (st[x] = "Relinking" /\ st'[x] = "Sealed")
    BY <1>2, <1>3, <1>5 DEF TypeOK
  <2> QED BY <1>1, <1>2, <2>2, <2>3, <2>4, PassOn
<1> QED BY <1>0, <1>4, <1>5 DEF NextCandidate

\* A drain takes the entry at its cursor out of the table.
LEMMA TakeOutTrace ==
  ASSUME IInv, IInv', RInv, NEW t \in Threads, th[t].pc \in {"copy", "sweep"}, th' = th,
         UNCHANGED <<st, gen, items>>, Record, NEW c, c = CursorLoc(t),
         slot' = [i \in Slots |-> IF slot[i] = c THEN None ELSE slot[i]],
         \A u \in Threads : u # t => dr'[u] = dr[u], dr'[t].ret = dr[t].ret
  PROVE  RInv' /\ AtomicStep
<1>1. TypeOK /\ th[t].pc \in DrainPcs
  BY DEF IInv, DrainPcs
<1>2. c \in Location
  BY CursorKnown
<1>3. \A s \in Segments : SegmentStep(s)
  BY <1>1 DEF TypeOK, SegmentStep
<1>4. /\ \A x \in Keys : Bound(x)' \subseteq Bound(x)
      /\ \/ AbstractMap' = AbstractMap
         \/ \E x \in Keys : /\ AbstractMap[x] # Absent
                            /\ AbstractMap' = [AbstractMap EXCEPT ![x] = Absent]
  <2>1. \A i \in Slots : slot'[i] = IF slot[i] = c THEN None ELSE slot[i]
    OBVIOUS
  <2> QED BY <1>2, <1>3, <2>1, TakenOut
<1>5. CallPc(t) \in {"idle", "reserve", "tail"} /\ CallPc(t)' = CallPc(t)
  BY <1>1, InDrain DEF CallPc
<1>6. Steady(t)
  BY <1>3, <1>4 DEF Steady
<1>7. RInv' /\ \A u \in Threads : CallOf(th[u])' = CallOf(th[u])
  BY <1>5, <1>6, DrainTrace
<1>8. AtomicStep
  BY <1>4, <1>7, Drops
<1> QED BY <1>7, <1>8

\* prune unlinks an item ahead of the copying; clear sweeps one.
LEMMA SweepTrace ==
  ASSUME IInv, IInv', RInv, NEW t \in Threads, Prune(t) \/ SweepItem(t)
  PROVE  RInv' /\ AtomicStep
<1>0. PICK c : c = CursorLoc(t)
  OBVIOUS
<1>1. /\ th[t].pc \in {"copy", "sweep"} /\ th' = th /\ UNCHANGED <<st, gen, items>> /\ Record
      /\ slot' = [i \in Slots |-> IF i \in Publishing(c) THEN None ELSE slot[i]]
      /\ dr' = dr \/ dr' = [dr EXCEPT ![t].j = @ + 1]
  BY <1>0 DEF Prune, SweepItem
<1>2. \A i \in Slots : i \in Publishing(c) <=> slot[i] = c
  BY DEF Publishing
<1>3. slot' = [i \in Slots |-> IF slot[i] = c THEN None ELSE slot[i]]
  BY <1>1, <1>2
<1>4. DOMAIN dr = Threads /\ DOMAIN dr[t] = DrainFields
  BY DEF IInv, TypeOK
<1>5. dr'[t].ret = dr[t].ret /\ \A u \in Threads : u # t => dr'[u] = dr[u]
  BY <1>1, <1>4 DEF DrainFields
<1> QED BY <1>0, <1>1, <1>3, <1>5, TakeOutTrace

\* cas_location: the entry goes over to the copy of its item, or it had moved on.
LEMMA RelinkTrace ==
  ASSUME IInv, IInv', RInv, NEW t \in Threads, Relink(t)
  PROVE  RInv' /\ AtomicStep
<1>0. PICK d, c, f, q : d = dr[t] /\ c = CursorLoc(t) /\ f = d.dest /\ q = "copy"
  OBVIOUS
<1>1. /\ th[t].pc = "relink" /\ UNCHANGED <<st, gen>> /\ Record /\ th' = [th EXCEPT ![t].pc = q]
  BY <1>0 DEF Relink
<1>2. /\ TypeOK /\ TypeOK' /\ NoStaleEntry /\ NoStaleEntry' /\ OneEntry /\ OneEntry'
      /\ DOMAIN th = Threads /\ DOMAIN th[t] = ThreadFields
      /\ DOMAIN dr = Threads /\ DOMAIN d = DrainFields /\ th[t].pc \in DrainPcs
      /\ \A s \in Segments : items[s] \in Seq(Item) /\ Len(items[s]) \in Nat
  BY <1>0, <1>1 DEF IInv, TypeOK, DrainPcs
<1>3. dr'[t].ret = dr[t].ret /\ \A u \in Threads : u # t => dr'[u] = dr[u]
  BY <1>0, <1>2 DEF Relink, DrainFields
<1>4. th'[t].pc \in DrainPcs
  BY <1>0, <1>1, <1>2 DEF ThreadFields, DrainPcs
<1>5. CASE Publishing(c) = {}
  <2>1. UNCHANGED <<slot, items>>
    BY <1>0, <1>5 DEF Relink, Relinked
  <2> QED BY <1>1, <1>2, <1>3, <1>4, <2>1, PassOn
<1>6. CASE Publishing(c) # {}
  <2>0. PICK w, x, a : /\ w = Loc(f, Len(items[f]) + 1) /\ x = ItemAt(c)
                       /\ a \in Slots /\ slot[a] = c
    BY <1>6 DEF Publishing
  <2>1. /\ slot' = [i \in Slots |-> IF slot[i] = c THEN w ELSE slot[i]]
        /\ items' = [items EXCEPT ![f] = Append(@, x)]
    <3>1. \A i \in Slots : i \in Publishing(c) <=> slot[i] = c
      BY DEF Publishing
    <3>2. /\ slot' = [i \in Slots |-> IF i \in Publishing(c) THEN w ELSE slot[i]]
          /\ items' = [items EXCEPT ![f] = Append(@, x)]
      BY <1>0, <1>6, <2>0 DEF Relink, Relinked
    <3> QED BY <3>1, <3>2
  <2>2. f \in Segments /\ st[f] = "Relinking"
    BY <1>0, <1>1, AtCopy
  <2>3. PICK l : l = Len(items[f]) /\ l \in Nat
    BY <1>2, <2>2
  <2>4. w.seg = f /\ w.off = l + 1 /\ w # None /\ c # None
    <3>1. w # None /\ w.seg = f /\ w.off = Len(items[f]) + 1
      BY <2>0, <2>2, FreshLoc
    <3>2. c # None
      BY <1>0, <1>1, CursorKnown
    <3> QED BY <2>3, <3>1, <3>2
  <2>5. x \in Item
    <3>1. slot[a] \in Location /\ slot[a].off <= Len(items[slot[a].seg])
      BY <1>2, <2>0, <2>4 DEF TypeOK, NoStaleEntry
    <3>2. c.seg \in Segments /\ c.off \in 1..Len(items[c.seg])
      BY <1>2, <2>0, <3>1 DEF Location
    <3> QED BY <1>2, <2>0, <3>2 DEF ItemAt
  <2>6. items'[f] = Append(items[f], x) /\ \A s \in Segments : s # f => items'[s] = items[s]
    BY <1>2, <2>1, <2>2 DEF TypeOK
  <2>7. /\ Len(items'[f]) = l + 1 /\ items'[f][l + 1] = x
        /\ \A o \in 1..l : items'[f][o] = items[f][o]
    BY <1>2, <2>2, <2>3, <2>5, <2>6
  <2>8. ASSUME NEW s \in Segments PROVE SegmentStep(s)
    <3>1. CASE s = f
      BY <1>1, <2>3, <2>7, <3>1 DEF SegmentStep
    <3>2. CASE s # f
      BY <1>1, <1>2, <2>6, <3>2 DEF SegmentStep
    <3> QED BY <3>1, <3>2
  <2>9. ItemAt(w)' = x
    BY <2>4, <2>7 DEF ItemAt
  <2>10. ASSUME NEW i \in Slots PROVE EntrySame(i)
    <3>1. CASE slot[i] = c
      <4>1. slot'[i] = w
        BY <2>1, <3>1
      <4>2. ItemAt(slot[i])' = ItemAt(slot[i])
        BY <2>0, <2>9, <3>1, <4>1 DEF ItemAt
      <4> QED BY <2>4, <3>1, <4>1, <4>2 DEF EntrySame
    <3>2. CASE slot[i] # c
      <4>1. slot'[i] = slot[i]
        BY <2>1, <3>2
      <4> QED BY <1>2, <2>8, <4>1, EntryKept
    <3> QED BY <3>1, <3>2
  <2>11. \A k : Bound(k)' = Bound(k) /\ Current(k)' = Current(k)
    BY <1>2, <2>10, BoundSame
  <2>12. AbstractMap' = AbstractMap
    BY <1>2, <2>11, MapSame
  <2>13. /\ \A u \in Threads : u # t => th'[u] = th[u]
         /\ th'[t] = [th[t] EXCEPT !.pc = q]
    BY <1>1, <1>2
  <2>14. Steady(t)
    BY <1>1, <1>3, <2>8, <2>11, <2>13 DEF Steady
  <2>15. CallPc(t) \in {"idle", "reserve", "tail"} /\ CallPc(t)' = CallPc(t)
    BY <1>1, <1>2, <1>3, <1>4, DrainMoves
  <2>16. RInv' /\ \A u \in Threads : CallOf(th[u])' = CallOf(th[u])
    BY <2>13, <2>14, <2>15, DrainTrace
  <2> QED BY <1>1, <2>12, <2>16, Stutters DEF AtomicStep
<1> QED BY <1>5, <1>6

\* finalize_drained: what is swept is recycled if nobody reads it.
LEMMA FinalizeTrace ==
  ASSUME IInv, IInv', RInv, NEW t \in Threads, FinalizeDrained(t)
  PROVE  RInv' /\ AtomicStep
<1>0. PICK d, z, q : d = dr[t] /\ z = d.seg /\ q = IF d.dest = None THEN d.ret ELSE "nextcand"
  OBVIOUS
<1>1. /\ th[t].pc = "sweep" /\ slot' = slot /\ Record /\ th' = [th EXCEPT ![t].pc = q]
  BY <1>0 DEF FinalizeDrained
<1>2. /\ TypeOK /\ DOMAIN th = Threads /\ DOMAIN th[t] = ThreadFields
      /\ DOMAIN dr = Threads /\ DOMAIN d = DrainFields /\ th[t].pc \in DrainPcs
      /\ \A s \in Segments : Len(items[s]) \in Nat
  BY <1>0, <1>1 DEF IInv, TypeOK, DrainPcs
<1>3. z \in Segments /\ st[z] = "Draining" /\ d.ret \in {"idle", "reserve", "tail"}
  BY <1>0, <1>1, AtCopy
<1>4. /\ \A s \in Segments : s # z => st'[s] = st[s] /\ gen'[s] = gen[s] /\ items'[s] = items[s]
      /\ \/ gen'[z] = gen[z] + 1 /\ PinsReader(z) = {}
         \/ gen'[z] = gen[z] /\ st'[z] = "Condemned" /\ items'[z] = items[z]
  <2>1. CASE Recycle(z) /\ PinsReader(z) = {}
    BY <1>2, <1>3, <2>1 DEF Recycle, TypeOK
  <2>2. CASE st' = [st EXCEPT ![z] = "Condemned"] /\ UNCHANGED <<gen, items>>
    BY <1>2, <1>3, <2>2 DEF TypeOK
  <2> QED BY <1>0, <2>1, <2>2 DEF FinalizeDrained
<1>5. \A s \in Segments : SegmentStep(s)
  BY <1>2, <1>3, <1>4 DEF SegmentStep
<1>6. \A s \in Segments : gen'[s] # gen[s] =>
        \A u \in Threads : u # t /\ th[u].pin # None => th[u].pin.seg # s
  BY <1>4 DEF PinsReader
<1>7. AbstractMap' = AbstractMap /\ \A k : Bound(k)' = Bound(k)
  BY <1>1, <1>5, TableKept
<1>8. /\ \A u \in Threads : u # t => th'[u] = th[u]
      /\ th'[t] = [th[t] EXCEPT !.pc = q] /\ th'[t].pc = q
  BY <1>1, <1>2 DEF ThreadFields
<1>9. /\ \A u \in Threads : u # t => dr'[u] = dr[u]
      /\ d.dest # None => dr'[t].ret = d.ret
  BY <1>0, <1>2 DEF FinalizeDrained, DrainFields
<1>10. Steady(t)
  BY <1>1, <1>5, <1>6, <1>7, <1>8, <1>9 DEF Steady
<1>11. CallPc(t) \in {"idle", "reserve", "tail"} /\ CallPc(t)' = CallPc(t)
  <2>1. CallPc(t) = d.ret
    BY <1>0, <1>2 DEF CallPc
  <2>2. CallPc(t)' = d.ret
    BY <1>0, <1>3, <1>8, <1>9 DEF CallPc, DrainPcs
  <2> QED BY <1>3, <2>1, <2>2
<1>12. RInv' /\ \A u \in Threads : CallOf(th[u])' = CallOf(th[u])
  BY <1>8, <1>10, <1>11, DrainTrace
<1> QED BY <1>1, <1>7, <1>12, Stutters DEF AtomicStep

-----------------------------------------------------------------------------
(* The refinement. *)

\* An empty table and idle threads are the abstract cache's initial state.
LEMMA InitTrace ==
  ASSUME Init
  PROVE  RInv /\ Atomic!Init
<1>1. /\ slot = [i \in Slots |-> None] /\ th = [t \in Threads |-> Idle]
      /\ window = [t \in Threads |-> {}]
  BY DEF Init
<1>2. ASSUME NEW k \in Keys PROVE Current(k) = {Absent}
  BY <1>1 DEF Current, Bound
<1>3. AbstractMap = [k \in Keys |-> Absent]
  <2>1. ASSUME NEW k \in Keys PROVE (CHOOSE v \in Current(k) : TRUE) = Absent
    BY <1>2
  <2> QED BY <2>1 DEF AbstractMap
<1>4. CallOf(Idle) = Atomic!NoCall
  BY AnswerAssumption DEF CallOf, Idle, Atomic!NoCall
<1>5. AbstractCall = [t \in Threads |-> Atomic!NoCall]
  BY <1>1, <1>4 DEF AbstractCall
<1>6. ASSUME NEW t \in Threads PROVE TraceOK(t)
  <2>1. PICK r : r = Idle
    OBVIOUS
  <2>2. /\ r.pc = "idle" /\ r.op = "none" /\ r.key = None /\ r.val = None /\ r.phase = "none"
        /\ r.new = None /\ r.pin = None /\ r.unlinked = FALSE /\ r.then = "none" /\ r.res = None
    BY <2>1 DEF Idle
  <2>3. th[t] = r /\ window[t] = {} /\ CallPc(t) = "idle"
    BY <1>1, <2>1, <2>2 DEF CallPc, DrainPcs
  <2>4. KindOK(r, "idle")
    BY <2>2 DEF KindOK
  <2>5. FoundOK(r, "idle", {}) /\ WindowOK(r, {})
    BY <2>2 DEF FoundOK, FoundPcs, WindowOK
  <2> QED BY <2>3, <2>4, <2>5 DEF TraceOK
<1>7. RInv
  BY <1>1, <1>6 DEF RInv
<1> QED BY <1>1, <1>3, <1>5, <1>7 DEF Atomic!Init

\* Every step of every thread is a step of the abstract cache, or none.
LEMMA ActTrace ==
  ASSUME IInv, IInv', RInv, NEW t \in Threads, Act(t)
  PROVE  RInv' /\ AtomicStep
<1>1. CASE \/ \E k \in Keys : GetBegin(t, k) \/ DeleteBegin(t, k)
           \/ \E k \in Keys, v \in Values, b \in Buckets : InsertBegin(t, k, v, b)
  BY <1>1, BeginsTrace
<1>2. CASE \E i \in Slots : Load(t, i) \/ PassTaken(t, i) \/ TryClaimNewSlot(t, i)
  BY <1>2, LoadTrace, PassTakenTrace, ClaimSlotTrace
<1>3. CASE \/ ScanOver(t) \/ VerifyFails(t) \/ VerifyMatches(t)
           \/ SlotPublishes(t) \/ FollowRepublished(t) \/ Return(t)
  BY <1>3, ScanOverTrace, VerifyFailsTrace, VerifyMatchesTrace, SlotPublishesTrace, FollowTrace,
     ReturnTrace
<1>4. CASE \/ \E s \in Segments : Reserve(t, s) \/ Expand(t, s)
           \/ NoRoom(t) \/ ReserveFails(t) \/ PinOld(t) \/ SwapOld(t)
  BY <1>4, ReserveTrace, ExpandTrace, NoRoomTrace, ReserveFailsTrace, PinOldTrace, SwapOldTrace
<1>5. CASE \/ TryReplaceExisting(t) \/ LockStripe(t) \/ BucketFull(t)
           \/ PinUnlinked(t) \/ RemoveAt(t) \/ AfterRemove(t) \/ WaitOver(t)
  BY <1>5, ReplaceTrace, LockStripeTrace, BucketFullTrace, PinUnlinkedTrace, RemoveTrace,
     AfterRemoveTrace, WaitOverTrace
<1>6. CASE \/ ObserveGen(t) \/ PinForDelete(t) \/ GenerationFence(t)
           \/ UnlinkUnpinned(t) \/ UnlinkPinned(t)
  BY <1>6, DeleteTrace, UnlinkTrace
<1>7. CASE \/ \E s \in Segments : ClaimForDrain(t, s)
           \/ Quiesce(t) \/ CopyItem(t) \/ Prune(t) \/ Relink(t) \/ CopyOver(t)
  BY <1>7, ClaimTrace, QuiesceTrace, CopyItemTrace, SweepTrace, RelinkTrace, CopyOverTrace
<1>8. CASE SweepItem(t) \/ FinalizeDrained(t) \/ NextCandidate(t)
  BY <1>8, SweepTrace, FinalizeTrace, NextCandidateTrace
<1> QED BY <1>1, <1>2, <1>3, <1>4, <1>5, <1>6, <1>7, <1>8 DEF Act

\* A step that changes nothing.
LEMMA StutterTrace ==
  ASSUME RInv, UNCHANGED vars
  PROVE  RInv' /\ UNCHANGED Atomic!vars
<1>1. UNCHANGED <<slot, st, gen, items, th, dr, window>>
  BY DEF vars, segs
<1>2. \A k : Bound(k)' = Bound(k) /\ Current(k)' = Current(k)
  <2>1. \A k : Bound(k)' = Bound(k)
    BY <1>1 DEF Bound, Resolves, ItemAt
  <2> QED BY <1>1, <2>1 DEF Current, ItemAt
<1>3. AbstractMap' = AbstractMap
  BY <1>2 DEF AbstractMap
<1>4. AbstractCall' = AbstractCall
  BY <1>1 DEF AbstractCall, CallOf
<1>5. ASSUME NEW t \in Threads PROVE TraceOK(t)'
  <2>1. TraceOK(t)
    BY DEF RInv
  <2>2. CallPc(t)' = CallPc(t) /\ th'[t] = th[t] /\ window'[t] = window[t]
    BY <1>1 DEF CallPc
  <2>3. KindOK(th[t], CallPc(t))'
    BY <2>1, <2>2 DEF TraceOK, KindOK
  <2>4. WindowOK(th[t], window[t])'
    BY <1>2, <2>1, <2>2 DEF TraceOK, WindowOK
  <2>5. FoundOK(th[t], CallPc(t), window[t])'
    <3>1. PICK r, p, W : r = th[t] /\ p = CallPc(t) /\ W = window[t]
      OBVIOUS
    <3>2. FoundOK(r, p, W)
      BY <2>1, <3>1 DEF TraceOK
    <3>3. ScanClear(r)' <=> ScanClear(r)
      BY <1>1, <1>2 DEF ScanClear, Readable, Resolves, ItemAt
    <3>4. FoundOK(r, p, W)'
      BY <1>1, <3>2, <3>3 DEF FoundOK, Issued, Resolves, ItemAt
    <3> QED BY <2>2, <3>1, <3>4 DEF FoundOK
  <2> QED BY <2>3, <2>4, <2>5 DEF TraceOK
<1> QED BY <1>1, <1>3, <1>4, <1>5 DEF RInv, Atomic!vars

\* Segcache's get, insert and delete, with the drains that move and remove items under
\* them, do what the atomic map does: an insert that answers Ok has bound its key once and
\* one that fails never, nothing else binds a key, and a get's answer, like the absence a
\* delete acknowledges, was true of the key at some moment of the call.
THEOREM CacheRefines == Spec => RefinesAtomicCache
<1>1. Init => RInv /\ Atomic!Init
  BY InitTrace
<1>2. IInv /\ IInv' /\ RInv /\ [Next]_vars => RInv' /\ [Atomic!Next]_(Atomic!vars)
  <2> SUFFICES ASSUME IInv, IInv', RInv, [Next]_vars PROVE RInv' /\ [Atomic!Next]_(Atomic!vars)
    OBVIOUS
  <2>1. CASE Next
    BY <2>1, ActTrace DEF Next, AtomicStep
  <2>2. CASE UNCHANGED vars
    BY <2>2, StutterTrace
  <2> QED BY <2>1, <2>2
<1>3. Spec => []IInv
  BY CacheInvariant
<1> QED BY <1>1, <1>2, <1>3, PTL DEF Spec, RefinesAtomicCache, Atomic!Spec
=============================================================================
