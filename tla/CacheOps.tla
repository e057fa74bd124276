------------------------------ MODULE CacheOps ------------------------------
(***************************************************************************)
(* get, insert and delete on the lock-free hashtable, running against one  *)
(* another and against the drains (drop, clear, merge, S3-FIFO promotion)  *)
(* that move and remove the items the table points at.                     *)
(*                                                                         *)
(* Sources: crates/segcache/src/segcache.rs (get_pinned, insert, delete),  *)
(* hashtable/table.rs (the bucket scans and CASes), hashtable/mod.rs (the  *)
(* pinned verifier), segments/segments.rs and segments/segment.rs          *)
(* (remove_at, claim_for_drain, copy_into, clear, finalize_drained).       *)
(*                                                                         *)
(* What is abstracted.                                                     *)
(*  - Every key hashes to one bucket and one tag, the worst case for the   *)
(*    scans.  A slot is Empty or the 44-bit location it publishes; the     *)
(*    frequency bits only make a CAS retry on the same word, so they are   *)
(*    left out, and so are ghost words, which nothing outside the tests    *)
(*    writes (convert_to_ghost has no other caller).                       *)
(*  - A scan visits its slots in any order.  The code reads each slot's    *)
(*    tag first and loads only the matching ones, so a slot found empty is *)
(*    read before the others; every schedule of those reads is some order  *)
(*    of single visits.                                                    *)
(*  - A pin is taken and dropped in one step: the count-then-check         *)
(*    handshake behind it is the module SegmentLifecycle.  What is shown   *)
(*    here holds up to the delayed drop that that module shows to free a   *)
(*    segment which another reader has pinned since.                       *)
(*  - A location has the segment's whole generation where the code packs   *)
(*    its low 6 bits.  The two agree while no location outlives 63 further *)
(*    lives of its segment; what a call that sleeps for 64 lives would     *)
(*    mistake for its item is outside this module and its theorems.        *)
(*  - Deadlines are left out: no item expires during a call, an expire     *)
(*    pass is the drain of any segment.                                    *)
(***************************************************************************)
EXTENDS Integers, FiniteSets, Sequences

CONSTANTS
    Threads, Keys, Values, Segments, Slots, Buckets,
    Absent,       \* the answer "no such key"
    None,         \* no location, no segment, no thread
    SegmentSize,  \* items that fit in one segment
    MaxGen        \* bound: a segment is drained at most MaxGen times

ASSUME SizesAssumption == SegmentSize \in Nat \ {0} /\ MaxGen \in Nat

ASSUME SentinelAssumption ==
    Absent \notin Values /\ None \notin Segments \cup Threads \cup Keys \cup Slots \cup Buckets

\* No answer is taken for the lack of one.
ASSUME AnswerAssumption == None \notin Values \cup {Absent, "spent", "ok", "err", "deleted", "missing"}

VARIABLES
    slot,    \* the bucket: a location or None per slot
    st,      \* state of each segment
    gen,     \* generation of each segment
    items,   \* the items written in each segment, in offset order
    live,    \* live_items of each segment
    stripe,  \* holder of each key's insert-stripe mutex
    ttl,     \* the TTL bucket whose chain each segment is in
    chain,   \* holder of each TTL bucket's chain_lock
    th,      \* the call each thread is in
    dr,      \* the drain each thread is running
    calls,   \* history: calls begun
    window   \* history: the answers that were true of the call's key so far

segs == <<st, gen, items, live>>
locks == <<stripe, ttl, chain>>
vars == <<slot, segs, locks, th, dr, calls, window>>

-----------------------------------------------------------------------------
(* Locations and pins. *)

Location == [seg : Segments, gen : Nat, off : Nat \ {0}]

ASSUME LocationAssumption == None \notin Location

\* pack_location: the segment, the incarnation it is in now, and the offset.
Loc(s, off) == [seg |-> s, gen |-> gen[s], off |-> off]

\* Segments::resolve: the incarnation the location names is the current one.
Resolves(w) == w.gen = gen[w.seg]

\* acquire_item_at: the states try_acquire_reader accepts, then the tag.
Readable(w) == st[w.seg] \in {"Live", "Sealed", "Relinking"} /\ Resolves(w)

\* try_pin_remover looks at the segment's state alone.
Removable(s) == st[s] \in {"Live", "Sealed"}

ItemAt(w) == items[w.seg][w.off]

PinsWriter(s) == {t \in Threads : th[t].wpin /\ th[t].new.seg = s}
PinsRemover(s) == {t \in Threads : th[t].rem = s}
PinsReader(s) == {t \in Threads : th[t].pin # None /\ th[t].pin.seg = s}

\* Quiesced with the wait on active_writers left out.
QuiescedOfRemovers(s) == PinsRemover(s) = {}

\* claim_for_drain's two waits are over.
Quiesced(s) == PinsWriter(s) = {} /\ PinsRemover(s) = {}

\* The counters if remove_at did not re-check the tag under its pin.
RemovedUntagged(w) == [live EXCEPT ![w.seg] = @ - 1]

\* remove_at: the count drops only if the location's incarnation is current.
Removed(w) == IF Resolves(w) THEN [live EXCEPT ![w.seg] = @ - 1] ELSE live

\* Slots that publish location w.
Publishing(w) == {i \in Slots : slot[i] = w}

\* cas_location takes the slot that publishes the old location, or none.
Relinked(w) == Publishing(w)

\* What the table answers for key k now.
Bound(k) == {i \in Slots : /\ slot[i] # None
                           /\ Resolves(slot[i])
                           /\ slot[i].off <= Len(items[slot[i].seg])
                           /\ ItemAt(slot[i]).key = k}
Current(k) == IF Bound(k) = {} THEN {Absent} ELSE {ItemAt(slot[i]).val : i \in Bound(k)}
Truth == [k \in Keys |-> Current(k)]

-----------------------------------------------------------------------------
(* Thread records. *)

Idle == [pc |-> "idle", op |-> "none", key |-> None, val |-> None,
         phase |-> "none", left |-> {}, at |-> None, word |-> None, unk |-> None,
         new |-> None, wpin |-> FALSE, rem |-> None, pin |-> None,
         old |-> None, obs |-> None, unlinked |-> FALSE, ttl |-> None,
         then |-> "none", res |-> None, taken |-> {}]

NoDrain == [seg |-> None, dest |-> None, j |-> 0, kind |-> "none", ret |-> "none"]

Init ==
    /\ slot = [i \in Slots |-> None]
    /\ st = [s \in Segments |-> "Free"]
    /\ gen = [s \in Segments |-> 0]
    /\ items = [s \in Segments |-> <<>>]
    /\ live = [s \in Segments |-> 0]
    /\ stripe = [k \in Keys |-> None]
    /\ ttl = [s \in Segments |-> None]
    /\ chain = [b \in Buckets |-> None]
    /\ th = [t \in Threads |-> Idle]
    /\ dr = [t \in Threads |-> NoDrain]
    /\ calls = 0
    /\ window = [t \in Threads |-> {}]

\* The thread record r about to scan the bucket in the given phase.
Scanning(r, phase) == [r EXCEPT !.pc = "scan", !.phase = phase, !.left = Slots,
                                !.at = None, !.word = None, !.unk = None]

\* The thread record r with its answer.
Answering(r, res) == [Idle EXCEPT !.pc = "done", !.op = r.op, !.key = r.key,
                                  !.val = r.val, !.pin = r.pin, !.res = res]

\* An unreadable candidate taken for somebody else's entry.
UnknownForgotten(unk, w) == unk

\* unknown.get_or_insert: the first unreadable candidate is remembered.
FirstUnknown(unk, w) == IF unk = None THEN w ELSE unk

\* The stripe's guard goes out of scope when the locked part of an insert ends.
StripeReleased(r) == IF r.phase = "relock" THEN [stripe EXCEPT ![r.key] = None] ELSE stripe

\* delete's boolean.
Ack(unlinked) == IF unlinked THEN "deleted" ELSE "missing"

\* rollback_reservation's first line: the writer pin goes, and the reserved
\* item is to be taken off its segment's count.  Then the call goes to `then`,
\* "wait" at location w or "err".
RollingBack(r, w, then) ==
    [r EXCEPT !.pc = "undo", !.phase = "none", !.left = {}, !.at = None, !.word = None,
              !.unk = w, !.wpin = FALSE, !.old = r.new, !.new = None, !.then = then,
              !.taken = {}]

Set(t, r) == th' = [th EXCEPT ![t] = r]

\* History, a part of every step: calls begun, and the answers that were true
\* of each call's key while it ran.
Record ==
    /\ calls' = calls + Cardinality({t \in Threads : th[t].pc = "idle" /\ th'[t].pc # "idle"})
    /\ window' = [t \in Threads |->
        IF th'[t].key = None THEN {}
        ELSE window[t] \cup Truth'[th'[t].key]
                       \cup (IF th[t].key = None THEN Truth[th'[t].key] ELSE {})]

\* The -> Free transitions: the generation moves on and the counters restart.
Recycle(s) ==
    /\ st' = [st EXCEPT ![s] = "Free"]
    /\ gen' = [gen EXCEPT ![s] = @ + 1]
    /\ items' = [items EXCEPT ![s] = <<>>]
    /\ live' = [live EXCEPT ![s] = 0]

\* Dropping a SegmentGuard: the last reader of a condemned segment frees it.
DropReader(t) ==
    LET w == th[t].pin IN
    IF w # None /\ st[w.seg] = "Condemned" /\ PinsReader(w.seg) = {t}
    THEN Recycle(w.seg)
    ELSE UNCHANGED segs

-----------------------------------------------------------------------------
(* Bucket scans: search_bucket and try_replace_existing. *)

\* The scan is out of slots: Absent if nothing was unreadable on the way,
\* otherwise Unknown, and each caller has its own answer to either.
ScanOver(t) ==
    LET r == th[t] IN
    /\ r.pc = "scan" /\ r.left = {}
    /\ \/ \* get_pinned: Absent is the answer, Unknown is triaged and retried;
          \* a stale location is charged to the budget, which may be spent.
          /\ r.phase = "get"
          /\ \/ r.unk = None /\ Set(t, Answering(r, Absent))
             \/ r.unk # None /\ Set(t, Scanning(r, "get"))
             \/ r.unk # None /\ ~Resolves(r.unk) /\ Set(t, Answering(r, "spent"))
          /\ UNCHANGED <<segs, stripe>>
       \/ \* The cold fallback's lookup: the pin is dropped in every case.
          /\ r.phase = "cold"
          /\ LET u == [r EXCEPT !.pin = None] IN
             \/ r.unk = None /\ Set(t, Answering(u, Absent))
             \/ r.unk # None /\ Set(t, Scanning(u, "get"))
             \/ r.unk # None /\ ~Resolves(r.unk) /\ Set(t, Answering(u, "spent"))
          /\ DropReader(t)
          /\ UNCHANGED stripe
       \/ \* insert: Unknown rolls back, Absent goes on to hashtable.insert,
          \* whose first pass takes no lock and whose second holds the stripe.
          /\ r.phase = "lookup"
          /\ Set(t, IF r.unk = None THEN Scanning(r, "replace")
                                    ELSE RollingBack(r, r.unk, "wait"))
          /\ UNCHANGED <<segs, stripe>>
       \/ /\ r.phase = "replace"
          /\ Set(t, IF r.unk = None THEN [r EXCEPT !.pc = "lock"]
                                    ELSE RollingBack(r, r.unk, "wait"))
          /\ UNCHANGED <<segs, stripe>>
       \/ /\ r.phase = "relock"
          /\ IF r.unk = None
             THEN Set(t, [r EXCEPT !.pc = "claimslot"]) /\ UNCHANGED stripe
             ELSE Set(t, RollingBack(r, r.unk, "wait")) /\ stripe' = StripeReleased(r)
          /\ UNCHANGED segs
       \/ \* delete: Absent ends it with what it has done so far, Unknown is
          \* retried without a bound.
          /\ r.phase = "delete"
          /\ Set(t, IF r.unk = None THEN Answering(r, Ack(r.unlinked)) ELSE Scanning(r, "delete"))
          /\ UNCHANGED <<segs, stripe>>
       \/ \* delete's re-check after an unpinned unlink.
          /\ r.phase = "recheck"
          /\ Set(t, IF r.unk = None THEN Answering(r, "deleted") ELSE Scanning(r, "delete"))
          /\ UNCHANGED <<segs, stripe>>
    /\ UNCHANGED <<slot, ttl, chain, dr>>
    /\ Record

\* The Acquire load of one slot.
Load(t, i) ==
    LET r == th[t] IN
    /\ r.pc = "scan" /\ i \in r.left
    /\ Set(t, IF slot[i] = None
              THEN [r EXCEPT !.left = @ \ {i}]
              ELSE [r EXCEPT !.pc = "verify", !.left = @ \ {i}, !.at = i, !.word = slot[i]])
    /\ UNCHANGED <<slot, segs, locks, dr>>
    /\ Record

\* SegmentsVerifier::verify: pin the location's segment, then compare the key.
\* A refused pin is remembered (the first one) and the scan goes on.
VerifyFails(t) ==
    LET r == th[t] IN
    /\ r.pc = "verify"
    /\ \/ /\ ~Readable(r.word)
          /\ Set(t, [r EXCEPT !.pc = "scan", !.at = None, !.word = None,
                              !.unk = FirstUnknown(@, r.word)])
       \/ /\ Readable(r.word) /\ ItemAt(r.word).key # r.key
          /\ Set(t, [r EXCEPT !.pc = "scan", !.at = None, !.word = None])
    /\ UNCHANGED <<slot, segs, locks, dr>>
    /\ Record

\* The key matched.  Only get keeps the pin.
VerifyMatches(t) ==
    LET r == th[t]
        found == [r EXCEPT !.left = {}, !.unk = None] IN
    /\ r.pc = "verify" /\ Readable(r.word) /\ ItemAt(r.word).key = r.key
    /\ \/ /\ r.phase = "get"
          /\ Set(t, [found EXCEPT !.pc = "publishes", !.pin = r.word])
          /\ UNCHANGED segs
       \/ \* Published where it is pinned: the answer.  Elsewhere: follow it,
          \* or the budget is spent.
          /\ r.phase = "cold"
          /\ IF r.word = r.pin
             THEN Set(t, Answering(r, ItemAt(r.pin).val)) /\ UNCHANGED segs
             ELSE /\ \/ Set(t, [found EXCEPT !.pc = "acquire", !.pin = None])
                     \/ Set(t, Answering([r EXCEPT !.pin = None], "spent"))
                  /\ DropReader(t)
       \/ r.phase = "lookup" /\ Set(t, [found EXCEPT !.pc = "pinold"]) /\ UNCHANGED segs
       \/ /\ r.phase \in {"replace", "relock"}
          /\ Set(t, [r EXCEPT !.pc = "swap"])
          /\ UNCHANGED segs
       \/ r.phase = "delete" /\ Set(t, [found EXCEPT !.pc = "delgen"]) /\ UNCHANGED segs
       \/ r.phase = "recheck" /\ Set(t, Scanning(r, "delete")) /\ UNCHANGED segs
    /\ UNCHANGED <<slot, locks, dr>>
    /\ Record

-----------------------------------------------------------------------------
(* Segcache::get *)

GetBegin(t, k) ==
    /\ th[t].pc = "idle"
    /\ Set(t, Scanning([Idle EXCEPT !.op = "get", !.key = k], "get"))
    /\ UNCHANGED <<slot, segs, locks, dr>>
    /\ Record

\* slot_publishes on the slot the hit came from; otherwise the cold fallback.
SlotPublishes(t) ==
    LET r == th[t] IN
    /\ r.pc = "publishes"
    /\ Set(t, IF slot[r.at] = r.pin THEN Answering(r, ItemAt(r.pin).val)
                                    ELSE Scanning(r, "cold"))
    /\ UNCHANGED <<slot, segs, locks, dr>>
    /\ Record

\* acquire_item_at on the location the revalidation handed back.
FollowRepublished(t) ==
    LET r == th[t] IN
    /\ r.pc = "acquire"
    /\ \/ Readable(r.word) /\ Set(t, Scanning([r EXCEPT !.pin = r.word], "cold"))
       \/ ~Readable(r.word) /\ Set(t, Scanning(r, "get"))
       \/ ~Resolves(r.word) /\ Set(t, Answering(r, "spent"))
    /\ UNCHANGED <<slot, segs, locks, dr>>
    /\ Record

\* The call returns; the Item a get handed out is dropped with its pin.
Return(t) ==
    /\ th[t].pc = "done"
    /\ Set(t, Idle)
    /\ DropReader(t)
    /\ UNCHANGED <<slot, locks, dr>>
    /\ Record

-----------------------------------------------------------------------------
(* Segcache::insert *)

InsertBegin(t, k, v, b) ==
    /\ th[t].pc = "idle"
    /\ Set(t, [Idle EXCEPT !.pc = "reserve", !.op = "insert", !.key = k, !.val = v, !.ttl = b])
    /\ UNCHANGED <<slot, segs, locks, dr>>
    /\ Record

\* The tail of bucket b takes another item.
HasRoom(s, b) == st[s] = "Live" /\ ttl[s] = b /\ Len(items[s]) < SegmentSize

\* TtlBucket::reserve in the tail, then define, under the writer pin.
Reserve(t, s) ==
    LET r == th[t] IN
    /\ r.pc = "reserve" /\ HasRoom(s, r.ttl)
    /\ items' = [items EXCEPT ![s] = Append(@, [key |-> r.key, val |-> r.val])]
    /\ live' = [live EXCEPT ![s] = @ + 1]
    /\ Set(t, Scanning([r EXCEPT !.new = Loc(s, Len(items[s]) + 1), !.wpin = TRUE], "lookup"))
    /\ UNCHANGED <<slot, st, gen, locks, dr>>
    /\ Record

\* try_expand, under the chain lock: the full tail is sealed and a free segment
\* becomes the tail.
Expand(t, s) ==
    LET b == th[t].ttl IN
    /\ th[t].pc = "reserve" /\ \A x \in Segments : ~HasRoom(x, b)
    /\ st[s] = "Free" /\ chain[b] = None
    /\ st' = [x \in Segments |-> IF x = s THEN "Live"
                                 ELSE IF st[x] = "Live" /\ ttl[x] = b THEN "Sealed" ELSE st[x]]
    /\ ttl' = [ttl EXCEPT ![s] = b]
    /\ UNCHANGED <<slot, gen, items, live, stripe, chain, th, dr>>
    /\ Record

\* The last of the looks for room that RESERVE_RETRIES allows finds none, ...
NoRoom(t) ==
    /\ th[t].pc = "reserve"
    /\ \A s \in Segments : ~HasRoom(s, th[t].ttl) /\ st[s] # "Free"
    /\ Set(t, [th[t] EXCEPT !.pc = "noroom"])
    /\ UNCHANGED <<slot, segs, locks, dr>>
    /\ Record

\* ... and NoFreeSegments is the answer, whatever has been freed by then.
ReserveFails(t) ==
    /\ th[t].pc = "noroom"
    /\ Set(t, Answering(th[t], "err"))
    /\ UNCHANGED <<slot, segs, locks, dr>>
    /\ Record

\* try_pin_remover on the old entry's segment.  Refused: roll back at once if
\* the reservation is in that same segment, else now or after more lookups.
PinOld(t) ==
    LET r == th[t] IN
    /\ r.pc = "pinold"
    /\ \/ Removable(r.word.seg) /\ Set(t, [r EXCEPT !.pc = "swapold", !.rem = r.word.seg])
       \/ ~Removable(r.word.seg) /\ Set(t, RollingBack(r, r.word, "wait"))
       \/ /\ ~Removable(r.word.seg) /\ r.word.seg # r.new.seg
          /\ Set(t, Scanning(r, "lookup"))
    /\ UNCHANGED <<slot, segs, locks, dr>>
    /\ Record

\* cas_location_at: the exact slot, the exact old location.
SwapOld(t) ==
    LET r == th[t] IN
    /\ r.pc = "swapold"
    /\ IF slot[r.at] = r.word
       THEN /\ slot' = [slot EXCEPT ![r.at] = r.new]
            /\ Set(t, [r EXCEPT !.pc = "remove", !.phase = "none", !.at = None, !.word = None,
                                !.wpin = FALSE,
                                !.new = None, !.old = r.word, !.then = "ok"])
       ELSE /\ Set(t, Scanning([r EXCEPT !.rem = None], "lookup"))
            /\ UNCHANGED slot
    /\ UNCHANGED <<segs, locks, dr>>
    /\ Record

\* try_replace_existing's CAS; a lost one re-reads the same slot.
TryReplaceExisting(t) ==
    LET r == th[t] IN
    /\ r.pc = "swap"
    /\ IF slot[r.at] = r.word
       THEN /\ slot' = [slot EXCEPT ![r.at] = r.new]
            /\ stripe' = StripeReleased(r)
            /\ Set(t, [r EXCEPT !.pc = "undo", !.phase = "none", !.left = {}, !.at = None,
                                !.word = None, !.unk = None, !.wpin = FALSE, !.new = None,
                                !.old = r.word, !.then = "ok"])
       ELSE /\ Set(t, [r EXCEPT !.pc = "scan", !.left = @ \cup {r.at}, !.at = None, !.word = None])
            /\ UNCHANGED <<slot, stripe>>
    /\ UNCHANGED <<segs, ttl, chain, dr>>
    /\ Record

\* The stripe taken without the second pass.
LockStripeUnchecked(t) ==
    LET r == th[t] IN
    /\ r.pc = "lock" /\ stripe[r.key] = None
    /\ stripe' = [stripe EXCEPT ![r.key] = t]
    /\ Set(t, [r EXCEPT !.pc = "claimslot", !.phase = "relock"])
    /\ UNCHANGED <<slot, segs, ttl, chain, dr>>
    /\ Record

\* The insert stripe, then the same pass again under it.
LockStripe(t) ==
    LET r == th[t] IN
    /\ r.pc = "lock" /\ stripe[r.key] = None
    /\ stripe' = [stripe EXCEPT ![r.key] = t]
    /\ Set(t, Scanning(r, "relock"))
    /\ UNCHANGED <<slot, segs, ttl, chain, dr>>
    /\ Record

\* try_claim_new_slot, slot by slot: pass by one that is taken when it is loaded, or
\* by the time of the CAS, ...
PassTaken(t, i) ==
    LET r == th[t] IN
    /\ r.pc = "claimslot" /\ i \notin r.taken /\ slot[i] # None
    /\ Set(t, [r EXCEPT !.taken = @ \cup {i}])
    /\ UNCHANGED <<slot, segs, locks, dr>>
    /\ Record

\* ... publish in one that is empty, ...
TryClaimNewSlot(t, i) ==
    LET r == th[t] IN
    /\ r.pc = "claimslot" /\ i \notin r.taken /\ slot[i] = None
    /\ slot' = [slot EXCEPT ![i] = r.new]
    /\ stripe' = StripeReleased(r)
    /\ Set(t, Answering(r, "ok"))
    /\ UNCHANGED <<segs, ttl, chain, dr>>
    /\ Record

\* ... or be out of slots, though one may be empty again: HashTableInsertEx.
BucketFull(t) ==
    LET r == th[t] IN
    /\ r.pc = "claimslot" /\ r.taken = Slots
    /\ stripe' = StripeReleased(r)
    /\ Set(t, RollingBack(r, None, "err"))
    /\ UNCHANGED <<slot, segs, ttl, chain, dr>>
    /\ Record

\* rollback_reservation after its drop, and the raced-old arm: pin the segment
\* of an entry that is out of the table, if a drain has not taken it.
PinUnlinked(t) ==
    LET r == th[t] IN
    /\ r.pc = "undo"
    /\ Set(t, IF Removable(r.old.seg)
              THEN [r EXCEPT !.pc = "remove", !.rem = r.old.seg]
              ELSE [r EXCEPT !.pc = "tail", !.old = None])
    /\ UNCHANGED <<slot, segs, locks, dr>>
    /\ Record

\* The remover pin kept over what follows the decrement.
RemoveAtPinned(t) ==
    LET r == th[t] IN
    /\ r.pc = "remove"
    /\ live' = Removed(r.old)
    /\ Set(t, [r EXCEPT !.pc = "tail", !.old = None])
    /\ UNCHANGED <<slot, st, gen, items, locks, dr>>
    /\ Record

\* Segments::remove_at up to the drop of the remover pin.
RemoveAt(t) ==
    LET r == th[t] IN
    /\ r.pc = "remove"
    /\ live' = Removed(r.old)
    /\ Set(t, [r EXCEPT !.pc = "tail", !.old = None, !.rem = None])
    /\ UNCHANGED <<slot, st, gen, items, locks, dr>>
    /\ Record

\* What a call does after its remove_at (or after it was spared one).
AfterRemove(t) ==
    LET r == th[t] IN
    /\ r.pc = "tail"
    /\ Set(t, IF r.then = "wait" THEN [r EXCEPT !.pc = "wait", !.then = "none"]
                                 ELSE Answering(r, r.then))
    /\ UNCHANGED <<slot, segs, locks, dr>>
    /\ Record

\* wait_while_draining_or_filling, then the operation starts over.
WaitOver(t) ==
    LET r == th[t] IN
    /\ r.pc = "wait"
    /\ ~(Resolves(r.unk) /\ st[r.unk.seg] \in {"Draining", "Relinking"})
    /\ Set(t, [Idle EXCEPT !.pc = "reserve", !.op = r.op, !.key = r.key, !.val = r.val,
                       !.ttl = r.ttl])
    /\ UNCHANGED <<slot, segs, locks, dr>>
    /\ Record

-----------------------------------------------------------------------------
(* Segcache::delete *)

DeleteBegin(t, k) ==
    /\ th[t].pc = "idle"
    /\ Set(t, Scanning([Idle EXCEPT !.op = "delete", !.key = k], "delete"))
    /\ UNCHANGED <<slot, segs, locks, dr>>
    /\ Record

\* observed_gen is read after the lookup's own pin is gone.
ObserveGen(t) ==
    LET r == th[t] IN
    /\ r.pc = "delgen"
    /\ Set(t, [r EXCEPT !.pc = "delpin", !.obs = gen[r.word.seg]])
    /\ UNCHANGED <<slot, segs, locks, dr>>
    /\ Record

PinForDelete(t) ==
    LET r == th[t] IN
    /\ r.pc = "delpin"
    /\ Set(t, IF Removable(r.word.seg)
              THEN [r EXCEPT !.pc = "unlink", !.rem = r.word.seg, !.obs = None]
              ELSE [r EXCEPT !.pc = "delfence"])
    /\ UNCHANGED <<slot, segs, locks, dr>>
    /\ Record

\* The unpinned path: the generation must not have moved, ...
GenerationFence(t) ==
    LET r == th[t] IN
    /\ r.pc = "delfence"
    /\ Set(t, IF gen[r.word.seg] = r.obs
              THEN [r EXCEPT !.pc = "unlinkfree", !.obs = None]
              ELSE Scanning([r EXCEPT !.obs = None], "delete"))
    /\ UNCHANGED <<slot, segs, locks, dr>>
    /\ Record

\* ... then the unlink without a pin, and a re-check if it landed.
UnlinkUnpinned(t) ==
    LET r == th[t]
        hit == Publishing(r.word) IN
    /\ r.pc = "unlinkfree"
    /\ slot' = [i \in Slots |-> IF i \in hit THEN None ELSE slot[i]]
    /\ Set(t, IF hit # {} THEN Scanning([r EXCEPT !.unlinked = TRUE], "recheck")
                          ELSE Scanning(r, "delete"))
    /\ UNCHANGED <<segs, locks, dr>>
    /\ Record

\* The pinned path.
UnlinkPinned(t) ==
    LET r == th[t]
        hit == Publishing(r.word) IN
    /\ r.pc = "unlink"
    /\ slot' = [i \in Slots |-> IF i \in hit THEN None ELSE slot[i]]
    /\ Set(t, IF hit # {}
              THEN [r EXCEPT !.pc = "remove", !.at = None, !.word = None, !.phase = "none",
                             !.old = r.word, !.then = "deleted"]
              ELSE Answering([r EXCEPT !.rem = None], Ack(r.unlinked)))
    /\ UNCHANGED <<segs, locks, dr>>
    /\ Record

-----------------------------------------------------------------------------
(* Drains.  A thread runs one on its own (expire, clear, an eviction), while *)
(* it reserves (evict in reserve_and_define), or at the end of remove_at     *)
(* (the empty-segment clear, merge_compact).                                 *)

\* The chain lock, under which the whole drain runs, and claim_for_drain's CAS;
\* drain_chain also claims the Live tail.
ClaimForDrain(t, s) ==
    /\ th[t].pc \in {"idle", "reserve", "tail"} /\ dr[t] = NoDrain
    /\ st[s] \in {"Sealed", "Live"} /\ gen[s] < MaxGen
    /\ chain[ttl[s]] = None
    /\ chain' = [chain EXCEPT ![ttl[s]] = t]
    /\ st' = [st EXCEPT ![s] = "Draining"]
    /\ dr' = [dr EXCEPT ![t] = [NoDrain EXCEPT !.seg = s, !.ret = th[t].pc]]
    /\ th' = [th EXCEPT ![t].pc = "quiesce"]
    /\ UNCHANGED <<slot, gen, items, live, stripe, ttl>>
    /\ Record

\* The waits on active_writers and active_removers; then the items are swept,
\* or copied first into a destination that is a free segment made Relinking.
Quiesce(t) ==
    LET d == dr[t] IN
    /\ th[t].pc = "quiesce"
    /\ Quiesced(d.seg)
    /\ \/ /\ d.dest = None
          /\ dr' = [dr EXCEPT ![t].j = 1, ![t].kind = "drop"]
          /\ th' = [th EXCEPT ![t].pc = "sweep"]
          /\ UNCHANGED <<st, ttl>>
       \/ /\ d.dest = None
          /\ \E e \in Segments, kind \in {"merge", "promote"} :
                /\ st[e] = "Free"
                /\ st' = [st EXCEPT ![e] = "Relinking"]
                /\ ttl' = [ttl EXCEPT ![e] = ttl[d.seg]]
                /\ dr' = [dr EXCEPT ![t].j = 1, ![t].kind = kind, ![t].dest = e]
          /\ th' = [th EXCEPT ![t].pc = "copy"]
       \/ \* a further candidate of a merge
          /\ d.dest # None
          /\ dr' = [dr EXCEPT ![t].j = 1]
          /\ th' = [th EXCEPT ![t].pc = "copy"]
          /\ UNCHANGED <<st, ttl>>
    /\ UNCHANGED <<slot, gen, items, live, stripe, chain>>
    /\ Record

\* The item at the drain's cursor, and where it is published.
CursorLoc(t) == Loc(dr[t].seg, dr[t].j)
AtEnd(t) == dr[t].j > Len(items[dr[t].seg])
DestRoom(t) == Len(items[dr[t].dest]) < SegmentSize

\* copy_into / s3fifo_promote_from, one item: skipped when it is no longer
\* published, when the destination is full, or (promotion) when it is cold.
CopyItem(t) ==
    LET d == dr[t]
        alive == Publishing(CursorLoc(t)) # {} IN
    /\ th[t].pc = "copy" /\ ~AtEnd(t)
    /\ \/ /\ ~alive \/ ~DestRoom(t) \/ d.kind = "promote"
          /\ dr' = [dr EXCEPT ![t].j = @ + 1]
          /\ UNCHANGED th
       \/ /\ alive /\ DestRoom(t)
          /\ th' = [th EXCEPT ![t].pc = "relink"]
          /\ UNCHANGED dr
    /\ UNCHANGED <<slot, segs, locks>>
    /\ Record

\* Segment::prune unlinks low-frequency items before the merge copies.
Prune(t) ==
    LET hit == Publishing(CursorLoc(t)) IN
    /\ th[t].pc = "copy" /\ dr[t].kind = "merge" /\ ~AtEnd(t) /\ hit # {}
    /\ slot' = [i \in Slots |-> IF i \in hit THEN None ELSE slot[i]]
    /\ live' = [live EXCEPT ![dr[t].seg] = @ - 1]
    /\ UNCHANGED <<st, gen, items, locks, th, dr>>
    /\ Record

\* cas_location from the old location to the copy.  A lost CAS ends a merge's
\* copy of this candidate; a promotion goes on with the next item.
Relink(t) ==
    LET d == dr[t]
        hit == Relinked(CursorLoc(t)) IN
    /\ th[t].pc = "relink"
    /\ IF hit # {}
       THEN /\ slot' = [i \in Slots |-> IF i \in hit THEN Loc(d.dest, Len(items[d.dest]) + 1)
                                                     ELSE slot[i]]
            /\ items' = [items EXCEPT ![d.dest] = Append(@, ItemAt(CursorLoc(t)))]
            /\ live' = [live EXCEPT ![d.seg] = @ - 1, ![d.dest] = @ + 1]
            /\ dr' = [dr EXCEPT ![t].j = @ + 1]
            /\ th' = [th EXCEPT ![t].pc = "copy"]
       ELSE /\ dr' = [dr EXCEPT ![t].j = IF d.kind = "merge" THEN Len(items[d.seg]) + 1 ELSE @ + 1]
            /\ th' = [th EXCEPT ![t].pc = "copy"]
            /\ UNCHANGED <<slot, items, live>>
    /\ UNCHANGED <<st, gen, locks>>
    /\ Record

\* A promotion seals its destination before the sweep, a merge after it.
CopyOver(t) ==
    LET d == dr[t] IN
    /\ th[t].pc = "copy" /\ AtEnd(t)
    /\ th' = [th EXCEPT ![t].pc = "sweep"]
    /\ dr' = [dr EXCEPT ![t].j = 1, ![t].dest = IF d.kind = "promote" THEN None ELSE @]
    /\ st' = IF d.kind = "promote" THEN [st EXCEPT ![d.dest] = "Sealed"] ELSE st
    /\ UNCHANGED <<slot, gen, items, live, locks>>
    /\ Record

\* Segment::clear, one item: unlink it if it is still published.
SweepItem(t) ==
    LET hit == Publishing(CursorLoc(t)) IN
    /\ th[t].pc = "sweep" /\ ~AtEnd(t)
    /\ slot' = [i \in Slots |-> IF i \in hit THEN None ELSE slot[i]]
    /\ live' = IF hit = {} THEN live ELSE [live EXCEPT ![dr[t].seg] = @ - 1]
    /\ dr' = [dr EXCEPT ![t].j = @ + 1]
    /\ UNCHANGED <<st, gen, items, locks, th>>
    /\ Record

\* finalize_drained: recycle, or condemn to the readers that hold a pin.
FinalizeDrained(t) ==
    LET d == dr[t] IN
    /\ th[t].pc = "sweep" /\ AtEnd(t)
    /\ IF PinsReader(d.seg) = {}
       THEN Recycle(d.seg)
       ELSE st' = [st EXCEPT ![d.seg] = "Condemned"] /\ UNCHANGED <<gen, items, live>>
    /\ ttl' = [ttl EXCEPT ![d.seg] = None]
    /\ IF d.dest = None
       THEN /\ th' = [th EXCEPT ![t].pc = d.ret]
            /\ dr' = [dr EXCEPT ![t] = NoDrain]
            /\ chain' = [chain EXCEPT ![ttl[d.seg]] = None]
       ELSE /\ th' = [th EXCEPT ![t].pc = "nextcand"]
            /\ dr' = [dr EXCEPT ![t].seg = None]
            /\ UNCHANGED chain
    /\ UNCHANGED <<slot, stripe>>
    /\ Record

\* merge_evict goes on to another candidate, or publishes the spare Sealed.
NextCandidate(t) ==
    /\ th[t].pc = "nextcand"
    /\ \/ \E s \in Segments : /\ st[s] = "Sealed" /\ gen[s] < MaxGen
                              /\ ttl[s] = ttl[dr[t].dest]
                              /\ st' = [st EXCEPT ![s] = "Draining"]
                              /\ dr' = [dr EXCEPT ![t].seg = s]
                              /\ th' = [th EXCEPT ![t].pc = "quiesce"]
                              /\ UNCHANGED chain
       \/ /\ st' = [st EXCEPT ![dr[t].dest] = "Sealed"]
          /\ dr' = [dr EXCEPT ![t] = NoDrain]
          /\ th' = [th EXCEPT ![t].pc = dr[t].ret]
          /\ chain' = [chain EXCEPT ![ttl[dr[t].dest]] = None]
    /\ UNCHANGED <<slot, gen, items, live, stripe, ttl>>
    /\ Record

-----------------------------------------------------------------------------
Act(t) ==
    \/ \E k \in Keys : GetBegin(t, k) \/ DeleteBegin(t, k)
    \/ \E k \in Keys, v \in Values, b \in Buckets : InsertBegin(t, k, v, b)
    \/ \E i \in Slots : Load(t, i) \/ PassTaken(t, i) \/ TryClaimNewSlot(t, i)
    \/ ScanOver(t) \/ VerifyFails(t) \/ VerifyMatches(t)
    \/ SlotPublishes(t) \/ FollowRepublished(t) \/ Return(t)
    \/ \E s \in Segments : Reserve(t, s) \/ Expand(t, s)
    \/ NoRoom(t) \/ ReserveFails(t) \/ PinOld(t) \/ SwapOld(t)
    \/ TryReplaceExisting(t) \/ LockStripe(t) \/ BucketFull(t)
    \/ PinUnlinked(t) \/ RemoveAt(t) \/ AfterRemove(t) \/ WaitOver(t)
    \/ ObserveGen(t) \/ PinForDelete(t) \/ GenerationFence(t)
    \/ UnlinkUnpinned(t) \/ UnlinkPinned(t)
    \/ \E s \in Segments : ClaimForDrain(t, s)
    \/ Quiesce(t) \/ CopyItem(t) \/ Prune(t) \/ Relink(t) \/ CopyOver(t)
    \/ SweepItem(t) \/ FinalizeDrained(t) \/ NextCandidate(t)

Next == \E t \in Threads : Act(t)

Spec == Init /\ [][Next]_vars

-----------------------------------------------------------------------------
(* Properties. *)

\* Nothing survives the bump (triage_unknown_location's argument): no slot
\* names an incarnation that is gone or on its way out, so a lookup that finds
\* a stale location lost a race and was not handed a permanently dead entry.
NoStaleEntry ==
    \A i \in Slots : slot[i] # None =>
        /\ Resolves(slot[i])
        /\ st[slot[i].seg] \notin {"Free", "Condemned"}
        /\ slot[i].off <= Len(items[slot[i].seg])

\* A key never has two entries: creation is serialized by the stripe and
\* re-checked under it, and an unverifiable candidate is never read as absent.
NoDuplicateKey == \A k \in Keys : Cardinality(Bound(k)) <= 1

\* live_items never falls below the number of published items of a segment
\* (so the asserts on it in remove_item_at hold, and a segment that still
\* publishes an item is never taken for empty): every decrement meets the
\* incarnation it was meant for.
LiveCoversPublished ==
    \A s \in Segments : live[s] >= Cardinality({i \in Slots : slot[i] # None /\ slot[i].seg = s})

\* The threads that can only go on once another has moved: a drain on the pins
\* on its segment, an insert on the drain or fill it met, an insert on the stripe,
\* and whoever comes to reserve, or from an unlink, on the chain locks.
WaitsFor(t) ==
    LET r == th[t] IN
    CASE r.pc = "quiesce" -> PinsWriter(dr[t].seg) \cup PinsRemover(dr[t].seg)
      [] r.pc = "wait"    -> {u \in Threads : /\ r.unk.seg \in {dr[u].seg, dr[u].dest}
                                              /\ Resolves(r.unk)}
      [] r.pc = "lock"    -> {stripe[r.key]} \ {None}
      [] r.pc \in {"reserve", "tail"} -> {chain[b] : b \in Buckets} \ {None}
      [] OTHER -> {}

\* "Invariant: never hold a WriterPin across a `chain_lock` acquisition", and the
\* same of remover pins and of the wait for a drain: any threads that wait
\* include one that waits for none of the others.
NoWaitCycle ==
    \A S \in (SUBSET Threads) \ {{}} : \E t \in S : WaitsFor(t) \cap S = {}

\* The map and the calls that the table and the threads stand for.
AbstractMap == [k \in Keys |-> CHOOSE v \in Current(k) : TRUE]

CallOf(r) == [op |-> r.op, key |-> r.key, val |-> r.val, res |-> r.res,
              bound |-> r.op = "insert" /\ "ok" \in {r.then, r.res}]
AbstractCall == [t \in Threads |-> CallOf(th[t])]

Atomic == INSTANCE AtomicCache WITH map <- AbstractMap, call <- AbstractCall, seen <- window

\* The cache promises what AtomicCache does: an insert that answers Ok has bound
\* the key to its value once, one that fails never; nothing else binds a key (no
\* drain, delete or retry brings an item back); a get's answer was true of the
\* key during the call, and so was the absence a successful delete acknowledges.
RefinesAtomicCache == Atomic!Spec

\* "an acked `false` for a live key is a lost delete": a delete that answers
\* FALSE saw the key absent at some moment of the call.
DeleteFalseMeansAbsent ==
    \A t \in Threads :
        th[t].pc = "done" /\ th[t].op = "delete" /\ th[t].res = "missing" => Absent \in window[t]

=============================================================================
