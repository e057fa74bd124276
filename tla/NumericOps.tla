----------------------------- MODULE NumericOps -----------------------------
(***************************************************************************)
(* In-place numeric updates of one key (wrapping_add, saturating_sub),     *)
(* against get-then-cas, set, delete, try_into_numeric and the relocation  *)
(* of the item by a merge or promotion.                                    *)
(*                                                                         *)
(* Sources: crates/segcache/src/segcache.rs (numeric_update, cas,          *)
(* replace_at, try_into_numeric), cas.rs, segments/segment.rs (copy_into), *)
(* hashtable/table.rs (slot_publishes, cas_location_at) and                *)
(* crates/keyvalue/src/item/raw.rs (the seqlock on the version word).      *)
(*                                                                         *)
(* What is abstracted.                                                     *)
(*  - The key has one slot. A location is a cell that is written once: the *)
(*    reuse of a segment is CacheOps' and SegmentLifecycle's matter, and a *)
(*    drained segment here is Gone.                                        *)
(*  - A pinned lookup is one step: an entry superseded between the load of *)
(*    the slot and the pin is one superseded after the pin.  A lookup that *)
(*    answers Unknown changes nothing and is tried again.                  *)
(*  - A token is the pair of location and version, which mix_version keeps *)
(*    apart for one location.  Deadlines are left out.                     *)
(*  - Stores are seen in program order: the fences of raw.rs are taken to  *)
(*    do what its comments say.                                            *)
(***************************************************************************)
EXTENDS Integers, FiniteSets

CONSTANTS
  Threads,
  Evictor,       \* the thread that relocates
  Segments,
  FreeSegments,  \* segments a relocation may copy into
  Modulus,       \* numbers are kept modulo this, 2^64 in the code
  Inserted,      \* the items set may write
  NotANumber,    \* a byte string that does not spell a number
  None,
  MaxCells,      \* bound on the items written
  MaxVersion     \* bound: no update of an item begins at this version

RESERVE_RETRIES == 3

Numbers == 0..(Modulus - 1)

\* What a key may hold: a number, or bytes that spell one or do not.
Contents == [num : {TRUE}, value : Numbers] \cup
            [num : {FALSE}, value : Numbers \cup {NotANumber}]

ASSUME NumericAssumption ==
  /\ Modulus \in Nat \ {0}
  /\ Inserted \subseteq Contents
  /\ FreeSegments \subseteq Segments
  /\ Evictor \notin Threads
  /\ MaxCells \in Nat /\ MaxVersion \in Nat
  /\ NotANumber \notin Int
  /\ None \notin Int \cup Contents \cup {NotANumber}

VARIABLES
  slot,     \* the cell the key's slot publishes, or None
  cells,    \* cells written so far
  seg,      \* the segment of each cell
  item,     \* the bytes of each cell: header flag, value, CRC and version words
  segst,    \* state of each segment
  th,       \* the call each thread is in
  ev,       \* the relocation
  ledger    \* history: what the key holds, by the calls that took effect

vars == <<slot, cells, seg, item, segst, th, ev, ledger>>

Cells == 1..MaxCells

Idle == [pc |-> "idle", op |-> "none", loc |-> None, ver |-> 0, val |-> None,
         v1 |-> 0, crc |-> None, hit |-> None, new |-> None,
         rem |-> FALSE, locked |-> FALSE, tries |-> 0]

NoRelocation == [pc |-> "idle", src |-> None, dst |-> None, loc |-> None, new |-> None,
                 locked |-> FALSE]

\* RawItem::define: version 0, the CRC of the value.
Defined(c) == [num |-> c.num, value |-> c.value, crc |-> c.value, version |-> 0]

Holds(c) == [num |-> item[c].num, value |-> item[c].value]

Init ==
  /\ slot = None /\ cells = 0
  /\ seg = [c \in Cells |-> None]
  /\ item = [c \in Cells |-> [num |-> FALSE, value |-> NotANumber, crc |-> NotANumber,
                              version |-> 0]]
  /\ segst = [s \in Segments |-> IF s \in FreeSegments THEN "Free" ELSE "Live"]
  /\ th = [t \in Threads |-> Idle]
  /\ ev = NoRelocation
  /\ ledger = None

Readable(c) == segst[seg[c]] \in {"Live", "Relinking"}
Removable(c) == segst[seg[c]] = "Live"

WriterPinned(s) == \E t \in Threads : th[t].new # None /\ seg[th[t].new] = s
RemoverPinned(s) == \E t \in Threads : th[t].rem /\ seg[th[t].loc] = s

Set(t, r) == th' = [th EXCEPT ![t] = r]
Done(t) == Set(t, Idle)

\* The slot swap takes effect: the key holds what cell c holds, or nothing.
Publish(c) ==
  /\ slot' = c
  /\ ledger' = IF c = None THEN None ELSE Holds(c)

-----------------------------------------------------------------------------
(* The version word: lock_numeric_version and NumericVersionGuard. *)

Even(n) == n % 2 = 0

\* The lock's CAS from the even version; a locked item is spun on.
CanLock(c) == Even(item[c].version)
Locked(c) == [item EXCEPT ![c].version = @ + 1]

\* Drop of the guard: back to the version before the lock.
Unlocked(c) == [item EXCEPT ![c].version = @ - 1]

-----------------------------------------------------------------------------
(* numeric_update *)

Arith == {"wrapping_add", "saturating_sub"}

Apply(op, v) ==
  IF op = "wrapping_add" THEN (v + 1) % Modulus
  ELSE IF v = 0 THEN 0 ELSE v - 1

NumericLookup(t) ==
  /\ th[t].pc = "idle" \/ th[t].pc = "numeric"
  /\ \/ slot = None /\ th[t].pc = "numeric" /\ Done(t)   \* NotFound
     \/ /\ slot # None /\ Readable(slot) /\ item[slot].version < MaxVersion
        /\ \E op \in (IF th[t].pc = "idle" THEN Arith ELSE {th[t].op}) :
             Set(t, [Idle EXCEPT !.pc = "lock", !.op = op, !.loc = slot])
  /\ UNCHANGED <<slot, cells, seg, item, segst, ev, ledger>>

\* An item that is not numeric ends the call if it is still the published one.
NumericLock(t) ==
  LET r == th[t] IN
  /\ r.pc = "lock"
  /\ \/ /\ item[r.loc].num /\ CanLock(r.loc)
        /\ item' = Locked(r.loc)
        /\ Set(t, [r EXCEPT !.pc = "check", !.locked = TRUE])
     \/ /\ ~item[r.loc].num
        /\ IF slot = r.loc THEN Done(t) ELSE Set(t, [r EXCEPT !.pc = "numeric"])
        /\ UNCHANGED item
  /\ UNCHANGED <<slot, cells, seg, segst, ev, ledger>>

\* Slip: the linkage check inside the lock is left out.
NumericUnchecked(t) ==
  LET r == th[t] IN
  /\ r.pc = "check"
  /\ Set(t, [r EXCEPT !.pc = "store"])
  /\ ledger' = IF ledger = None THEN None ELSE [ledger EXCEPT !.value = Apply(r.op, @)]
  /\ UNCHANGED <<slot, cells, seg, item, segst, ev>>

\* slot_publishes inside the lock: the update takes effect, or is tried again.
NumericCheck(t) ==
  LET r == th[t] IN
  /\ r.pc = "check"
  /\ IF slot = r.loc
     THEN /\ Set(t, [r EXCEPT !.pc = "store"])
          /\ ledger' = [ledger EXCEPT !.value = Apply(r.op, @)]
          /\ UNCHANGED item
     ELSE /\ item' = Unlocked(r.loc)
          /\ Set(t, [r EXCEPT !.pc = "numeric", !.locked = FALSE])
          /\ UNCHANGED ledger
  /\ UNCHANGED <<slot, cells, seg, segst, ev>>

\* NumericVersionGuard::update: the value, the CRC, then version + 2.
UpdateValue(t) ==
  LET r == th[t] IN
  /\ r.pc = "store"
  /\ item' = [item EXCEPT ![r.loc].value = Apply(r.op, @)]
  /\ Set(t, [r EXCEPT !.pc = "crc"])
  /\ UNCHANGED <<slot, cells, seg, segst, ev, ledger>>

UpdateCrc(t) ==
  LET r == th[t] IN
  /\ r.pc = "crc"
  /\ item' = [item EXCEPT ![r.loc].crc = item[r.loc].value]
  /\ Set(t, [r EXCEPT !.pc = "unlock"])
  /\ UNCHANGED <<slot, cells, seg, segst, ev, ledger>>

UpdateUnlock(t) ==
  LET r == th[t] IN
  /\ r.pc = "unlock"
  /\ item' = [item EXCEPT ![r.loc].version = @ + 1]
  /\ Done(t)
  /\ UNCHANGED <<slot, cells, seg, segst, ev, ledger>>

-----------------------------------------------------------------------------
(* get: the token is built at the hit, the value is read through the Item. *)

GetHit(t) ==
  /\ th[t].pc = "idle"
  /\ slot # None /\ Readable(slot)
  /\ Set(t, [Idle EXCEPT !.pc = "token", !.op = "cas", !.loc = slot])
  /\ UNCHANGED <<slot, cells, seg, item, segst, ev, ledger>>

\* token_for: the version as it is, odd or even, of a numeric item.
GetToken(t) ==
  LET r == th[t] IN
  /\ r.pc = "token"
  /\ Set(t, IF item[r.loc].num
            THEN [r EXCEPT !.pc = "version", !.ver = item[r.loc].version]
            ELSE [r EXCEPT !.pc = "read", !.val = item[r.loc].value, !.crc = item[r.loc].crc])
  /\ UNCHANGED <<slot, cells, seg, item, segst, ev, ledger>>

\* RawItem::value and check_integrity: the seqlock read.
ReadVersion(t) ==
  LET r == th[t] IN
  /\ r.pc = "version" /\ Even(item[r.loc].version)
  /\ Set(t, [r EXCEPT !.pc = "value", !.v1 = item[r.loc].version])
  /\ UNCHANGED <<slot, cells, seg, item, segst, ev, ledger>>

ReadValue(t) ==
  LET r == th[t] IN
  /\ r.pc = "value"
  /\ Set(t, [r EXCEPT !.pc = "stored", !.val = item[r.loc].value])
  /\ UNCHANGED <<slot, cells, seg, item, segst, ev, ledger>>

ReadCrc(t) ==
  LET r == th[t] IN
  /\ r.pc = "stored"
  /\ Set(t, [r EXCEPT !.pc = "again", !.crc = item[r.loc].crc])
  /\ UNCHANGED <<slot, cells, seg, item, segst, ev, ledger>>

\* Slip: the version is not read again.
ReadOnce(t) ==
  LET r == th[t] IN
  /\ r.pc = "again"
  /\ Set(t, [r EXCEPT !.pc = "read", !.v1 = 0])
  /\ UNCHANGED <<slot, cells, seg, item, segst, ev, ledger>>

ReadAgain(t) ==
  LET r == th[t] IN
  /\ r.pc = "again"
  /\ Set(t, IF item[r.loc].version = r.v1
            THEN [r EXCEPT !.pc = "read", !.v1 = 0]
            ELSE [r EXCEPT !.pc = "version", !.val = None, !.crc = None, !.v1 = 0])
  /\ UNCHANGED <<slot, cells, seg, item, segst, ev, ledger>>

\* The client is content with the value.
GetDone(t) ==
  /\ th[t].pc = "read"
  /\ Done(t)
  /\ UNCHANGED <<slot, cells, seg, item, segst, ev, ledger>>

-----------------------------------------------------------------------------
(* cas: store the number after the one read. *)

\* The lookup, its freshness check and the first token comparison.
CasLookup(t) ==
  LET r == th[t] IN
  /\ r.pc \in {"read", "cas"}
  /\ r.val # NotANumber
  /\ \/ slot = None /\ Done(t)   \* NotFound
     \/ slot # None /\ Readable(slot) /\ Set(t, [r EXCEPT !.pc = "fresh", !.hit = slot])
  /\ UNCHANGED <<slot, cells, seg, item, segst, ev, ledger>>

CasFresh(t) ==
  LET r     == th[t]
      token == [loc |-> r.hit, ver |-> IF item[r.hit].num THEN item[r.hit].version ELSE 0]
  IN
  /\ r.pc = "fresh"
  /\ IF slot # r.hit
     THEN IF r.tries + 1 >= RESERVE_RETRIES
          THEN Done(t)   \* Exists
          ELSE Set(t, [r EXCEPT !.pc = "cas", !.hit = None, !.tries = @ + 1])
     ELSE IF token = [loc |-> r.loc, ver |-> r.ver]
          THEN Set(t, [r EXCEPT !.pc = "reserve", !.hit = None, !.tries = 0])
          ELSE Done(t)   \* Exists
  /\ UNCHANGED <<slot, cells, seg, item, segst, ev, ledger>>

\* reserve_and_define: a cell of a Live segment, held by a writer pin. It may
\* fail for want of space.
Reserving(t, content, next) ==
  \/ /\ cells < MaxCells
     /\ \E s \in Segments :
          /\ segst[s] = "Live"
          /\ seg' = [seg EXCEPT ![cells + 1] = s]
     /\ cells' = cells + 1
     /\ item' = [item EXCEPT ![cells + 1] = Defined(content)]
     /\ Set(t, [th[t] EXCEPT !.pc = next, !.new = cells + 1])
  \/ Done(t) /\ UNCHANGED <<cells, seg, item>>

\* What replace_at is to publish: the successor of the number read, or the
\* number the bytes spell.
Replacement(r) ==
  [num |-> TRUE, value |-> IF r.op = "cas" THEN (r.val + 1) % Modulus ELSE r.val]

Reserve(t) ==
  /\ th[t].pc = "reserve"
  /\ Reserving(t, Replacement(th[t]), "pin")
  /\ UNCHANGED <<slot, segst, ev, ledger>>

-----------------------------------------------------------------------------
(* replace_at *)

\* try_pin_remover and the incarnation gate. A segment that cannot be pinned is
\* waited for until the backoff is spent, or given up at once.
PinOld(t) ==
  LET r == th[t] IN
  /\ r.pc = "pin"
  /\ IF Removable(r.loc)
     THEN Set(t, [r EXCEPT !.pc = IF r.op = "cas" THEN "entry" ELSE "publish", !.rem = TRUE])
     ELSE Done(t)   \* rollback_reservation, Exists
  /\ UNCHANGED <<slot, cells, seg, item, segst, ev, ledger>>

EntryCheck(t) ==
  /\ th[t].pc = "entry"
  /\ IF slot = th[t].loc THEN Set(t, [th[t] EXCEPT !.pc = "gate"]) ELSE Done(t)
  /\ UNCHANGED <<slot, cells, seg, item, segst, ev, ledger>>

\* Slip: the token is compared by location alone, as before the reservation.
TokenGateUnlocked(t) ==
  /\ th[t].pc = "gate"
  /\ Set(t, [th[t] EXCEPT !.pc = "publish"])
  /\ UNCHANGED <<slot, cells, seg, item, segst, ev, ledger>>

\* The version lock of a numeric item, and the token compared under it.
TokenGate(t) ==
  LET r == th[t] IN
  /\ r.pc = "gate"
  /\ IF item[r.loc].num
     THEN /\ CanLock(r.loc)
          /\ item' = Locked(r.loc)
          /\ Set(t, [r EXCEPT !.locked = TRUE,
                              !.pc = IF item[r.loc].version = r.ver THEN "publish" ELSE "bail"])
     ELSE Set(t, [r EXCEPT !.pc = "publish"]) /\ UNCHANGED item
  /\ UNCHANGED <<slot, cells, seg, segst, ev, ledger>>

\* cas_location_at.
SwapSlot(t) ==
  LET r == th[t] IN
  /\ r.pc = "publish"
  /\ Set(t, [r EXCEPT !.pc = "bail"])
  /\ IF slot = r.loc THEN Publish(r.new) ELSE UNCHANGED <<slot, ledger>>
  /\ UNCHANGED <<cells, seg, item, segst, ev>>

\* The guard is dropped, then the pins; remove_at or the rollback ends the call.
ReplaceDone(t) ==
  LET r == th[t] IN
  /\ r.pc = "bail"
  /\ item' = IF r.locked THEN Unlocked(r.loc) ELSE item
  /\ Done(t)
  /\ UNCHANGED <<slot, cells, seg, segst, ev, ledger>>

-----------------------------------------------------------------------------
(* try_into_numeric *)

ConvertLookup(t) ==
  LET r == th[t] IN
  /\ r.pc = "idle" \/ r.pc = "convert"
  /\ \/ /\ slot # None /\ Readable(slot)
        /\ Set(t, [r EXCEPT !.pc = "convertible", !.op = "convert", !.loc = slot])
     \/ /\ slot = None /\ r.pc = "convert"   \* a plain insert of the initial value
        /\ Set(t, [Idle EXCEPT !.pc = "create", !.op = "set"])
  /\ UNCHANGED <<slot, cells, seg, item, segst, ev, ledger>>

ConvertFresh(t) ==
  LET r == th[t] IN
  /\ r.pc = "convertible"
  /\ IF slot # r.loc
     THEN IF r.tries + 1 >= RESERVE_RETRIES
          THEN Done(t)   \* Exists
          ELSE Set(t, [r EXCEPT !.pc = "convert", !.loc = None, !.tries = @ + 1])
     ELSE IF item[r.loc].num \/ item[r.loc].value = NotANumber
          THEN Done(t)   \* already numeric, or NotNumeric
          ELSE Set(t, [r EXCEPT !.pc = "reserve", !.val = item[r.loc].value, !.tries = 0])
  /\ UNCHANGED <<slot, cells, seg, item, segst, ev, ledger>>

-----------------------------------------------------------------------------
(* set and delete *)

SetReserve(t) ==
  /\ \/ th[t].pc = "idle" /\ \E c \in Inserted : Reserving(t, c, "set")
     \/ th[t].pc = "create" /\ Reserving(t, [num |-> TRUE, value |-> 0], "set")
  /\ th' # th
  /\ UNCHANGED <<slot, segst, ev, ledger>>

\* insert's swap of the entry it pinned, or its claim of an empty slot. For an
\* entry that cannot be pinned it rolls back: what starts over is another call.
SetPublish(t) ==
  /\ th[t].pc = "set"
  /\ IF slot # None /\ ~Removable(slot) THEN UNCHANGED <<slot, ledger>> ELSE Publish(th[t].new)
  /\ Done(t)
  /\ UNCHANGED <<cells, seg, item, segst, ev>>

\* delete unlinks the entry with its segment pinned or, during a drain, without.
Delete(t) ==
  /\ th[t].pc = "idle"
  /\ Publish(None)
  /\ UNCHANGED <<cells, seg, item, segst, th, ev>>

-----------------------------------------------------------------------------
(* Relocation: copy_into and s3fifo_promote_from under a drain claim. *)

Claim(s, d) ==
  /\ ev.pc = "idle" /\ segst[s] = "Live" /\ segst[d] = "Free"
  /\ segst' = [segst EXCEPT ![s] = "Draining", ![d] = "Relinking"]
  /\ ev' = [ev EXCEPT !.pc = "wait", !.src = s, !.dst = d]
  /\ UNCHANGED <<slot, cells, seg, item, th, ledger>>

\* The waits on writers and removers, and the item the scan comes to: room for a
\* copy is taken in the destination, or the item is pruned or swept.
Scan ==
  /\ ev.pc = "wait" /\ ~WriterPinned(ev.src) /\ ~RemoverPinned(ev.src)
  /\ \/ /\ slot # None /\ seg[slot] = ev.src /\ cells < MaxCells
        /\ ev' = [ev EXCEPT !.pc = "lock", !.loc = slot, !.new = cells + 1]
        /\ cells' = cells + 1
        /\ seg' = [seg EXCEPT ![cells + 1] = ev.dst]
     \/ /\ slot # None => seg[slot] # ev.src
        /\ ev' = [ev EXCEPT !.pc = "done"]
        /\ UNCHANGED <<cells, seg>>
  /\ UNCHANGED <<slot, item, segst, th, ledger>>

Prune ==
  /\ ev.pc = "wait" /\ ~WriterPinned(ev.src) /\ ~RemoverPinned(ev.src)
  /\ slot # None /\ seg[slot] = ev.src
  /\ Publish(None)
  /\ ev' = [ev EXCEPT !.pc = "done"]
  /\ UNCHANGED <<cells, seg, item, segst, th>>

\* Slip: the version lock is not taken for the copy.
RelocateUnlocked ==
  /\ ev.pc = "lock"
  /\ ev' = [ev EXCEPT !.pc = "copy"]
  /\ UNCHANGED <<slot, cells, seg, item, segst, th, ledger>>

RelocateLock ==
  /\ ev.pc = "lock"
  /\ IF item[ev.loc].num
     THEN /\ CanLock(ev.loc)
          /\ item' = Locked(ev.loc)
          /\ ev' = [ev EXCEPT !.pc = "copy", !.locked = TRUE]
     ELSE ev' = [ev EXCEPT !.pc = "copy"] /\ UNCHANGED item
  /\ UNCHANGED <<slot, cells, seg, segst, th, ledger>>

\* copy_nonoverlapping, in two parts: the header with its CRC and the value,
\* then the version word, odd when the lock is held.
CopyData ==
  /\ ev.pc = "copy"
  /\ item' = [item EXCEPT ![ev.new] = [item[ev.loc] EXCEPT !.version = 0]]
  /\ ev' = [ev EXCEPT !.pc = "copyversion"]
  /\ UNCHANGED <<slot, cells, seg, segst, th, ledger>>

CopyVersion ==
  /\ ev.pc = "copyversion"
  /\ item' = [item EXCEPT ![ev.new].version = item[ev.loc].version]
  /\ ev' = [ev EXCEPT !.pc = "stamp"]
  /\ UNCHANGED <<slot, cells, seg, segst, th, ledger>>

\* Slip: the copy keeps the version word as it was copied.
NotStamped ==
  /\ ev.pc = "stamp"
  /\ ev' = [ev EXCEPT !.pc = "relink"]
  /\ UNCHANGED <<slot, cells, seg, item, segst, th, ledger>>

\* stamp_relocated_copy: the version before the lock.
Stamp ==
  /\ ev.pc = "stamp"
  /\ item' = IF ev.locked THEN Unlocked(ev.new) ELSE item
  /\ ev' = [ev EXCEPT !.pc = "relink"]
  /\ UNCHANGED <<slot, cells, seg, segst, th, ledger>>

\* cas_location: the same content at a new place, or RelinkFailure.
Relink ==
  /\ ev.pc = "relink"
  /\ slot' = IF slot = ev.loc THEN ev.new ELSE slot
  /\ ev' = [ev EXCEPT !.pc = "release"]
  /\ UNCHANGED <<cells, seg, item, segst, th, ledger>>

RelocateUnlock ==
  /\ ev.pc = "release"
  /\ item' = IF ev.locked THEN Unlocked(ev.loc) ELSE item
  /\ ev' = [ev EXCEPT !.pc = "done", !.locked = FALSE, !.loc = None]
  /\ UNCHANGED <<slot, cells, seg, segst, th, ledger>>

\* The source is recycled or condemned, the destination published as Sealed.
Finish ==
  /\ ev.pc = "done"
  /\ segst' = [segst EXCEPT ![ev.src] = "Gone", ![ev.dst] = "Live"]
  /\ ev' = NoRelocation
  /\ UNCHANGED <<slot, cells, seg, item, th, ledger>>

-----------------------------------------------------------------------------
Next ==
  \/ \E t \in Threads :
       \/ NumericLookup(t) \/ NumericLock(t) \/ NumericCheck(t)
       \/ UpdateValue(t) \/ UpdateCrc(t) \/ UpdateUnlock(t)
       \/ GetHit(t) \/ GetToken(t) \/ ReadVersion(t) \/ ReadValue(t) \/ ReadCrc(t)
       \/ ReadAgain(t) \/ GetDone(t)
       \/ CasLookup(t) \/ CasFresh(t) \/ Reserve(t)
       \/ PinOld(t) \/ EntryCheck(t) \/ TokenGate(t) \/ SwapSlot(t) \/ ReplaceDone(t)
       \/ ConvertLookup(t) \/ ConvertFresh(t)
       \/ SetReserve(t) \/ SetPublish(t) \/ Delete(t)
  \/ \E s, d \in Segments : Claim(s, d)
  \/ Scan \/ Prune \/ RelocateLock \/ CopyData \/ CopyVersion \/ Stamp \/ Relink
  \/ RelocateUnlock \/ Finish

Spec == Init /\ [][Next]_vars

-----------------------------------------------------------------------------
\* Who holds the version lock of cell c.
Guards(c) == {t \in Threads : th[t].locked /\ th[t].loc = c} \cup
             (IF ev.locked /\ ev.loc = c THEN {Evictor} ELSE {})

\* No acknowledged update is lost, and none is applied twice: the published
\* item, whenever it is not being written, holds exactly what the calls that
\* took effect on the key add up to, wherever relocations and cas publishes have
\* moved it (the linkage check of numeric_update inside the version lock, the
\* lock held by copy_into across its copy and relink).
NoUpdateLost ==
  slot # None /\ Guards(slot) = {} =>
    /\ Holds(slot) = ledger
    /\ item[slot].crc = item[slot].value

\* The published item's version is odd exactly while one thread holds its lock:
\* no copy is published in the state that makes every reader and writer spin
\* (stamp_relocated_copy), and the lock excludes.
NeverWedged ==
  slot # None /\ item[slot].num =>
    Cardinality(Guards(slot)) = (IF Even(item[slot].version) THEN 0 ELSE 1)

\* A cas that succeeds replaces the value its client read, with no update in
\* between; a conversion replaces the bytes it parsed (replace_at's token
\* comparison under the lock, the slot swap).
ReplacesWhatWasRead ==
  [][\A t \in Threads :
       th[t].pc = "publish" /\ slot' # slot /\ slot' = th[t].new =>
         /\ ledger.value = th[t].val
         /\ th[t].op = "convert" => ~ledger.num]_vars

\* A seqlock read returns a value and a CRC of one update (RawItem::value,
\* check_integrity).
ReadsAgree == \A t \in Threads : th[t].pc = "read" => th[t].val = th[t].crc
=============================================================================
