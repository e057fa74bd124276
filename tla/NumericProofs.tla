--------------------------- MODULE NumericProofs ---------------------------
(***************************************************************************)
(* NumericOps for any number of threads, items and updates: the version    *)
(* word is a lock and a seqlock, so no acknowledged update is lost, no     *)
(* published item stays locked, a read never pairs a value with another    *)
(* value's CRC, and a cas replaces only what its token was read from.  The *)
(* last part is about the TTL that try_into_numeric gives the copy it      *)
(* writes: the bucket table is total, a bucket's stamp is at most what was *)
(* asked, and the stamp leads back to the bucket.                          *)
(***************************************************************************)
EXTENDS NumericOps, TtlBuckets, FiniteSetTheorems, TLAPS

Vals == Numbers \cup {NotANumber}
CellOrNone == Cells \cup {None}

\* A thread that holds a version lock to update, to publish a replacement.
UpdatePcs == {"store", "crc", "unlock"}
LockedPcs == {"check", "publish", "bail"} \cup UpdatePcs
ReadPcs == {"value", "stored", "again"}
ReplacePcs == {"pin", "entry", "gate", "publish", "bail"}
CasPcs == {"token", "version", "read", "cas", "fresh"} \cup ReadPcs
\* Where the cell a thread works on is named by its loc.
AtPcs == CasPcs \cup ReplacePcs \cup UpdatePcs \cup {"lock", "check", "reserve", "convertible"}
\* Where a thread has written an item that it has not published yet.
FreshPcs == {"pin", "entry", "gate", "publish", "set"}
Pcs == AtPcs \cup FreshPcs \cup {"idle", "numeric", "convert", "create"}
CopiedPcs == {"copyversion", "stamp", "relink"}
CopyPcs == {"lock", "copy"} \cup CopiedPcs
EvPcs == CopyPcs \cup {"idle", "wait", "release", "done"}
Ops == Arith \cup {"none", "cas", "convert", "set"}

ThreadRec == [pc : Pcs, op : Ops, loc : CellOrNone, ver : Nat, val : Vals \cup {None},
              v1 : Nat, crc : Vals \cup {None}, hit : CellOrNone, new : CellOrNone,
              rem : BOOLEAN, locked : BOOLEAN, tries : Nat]
ItemRec == [num : BOOLEAN, value : Vals, crc : Vals, version : Nat]
EvRec == [pc : EvPcs, src : Segments \cup {None}, dst : Segments \cup {None},
          loc : CellOrNone, new : CellOrNone, locked : BOOLEAN]

TypeOK ==
  /\ slot \in CellOrNone /\ cells \in 0..MaxCells
  /\ item \in [Cells -> ItemRec]
  /\ \A c \in Cells : item[c].num => item[c].value \in Numbers
  /\ th \in [Threads -> ThreadRec]
  /\ ev \in EvRec
  /\ ledger \in Contents \cup {None}

\* Every cell that anyone knows has been written.
Allocated ==
  /\ slot # None => slot <= cells
  /\ ev.loc # None => ev.loc <= cells
  /\ ev.new # None => ev.new <= cells
  /\ \A t \in Threads :
       /\ th[t].loc # None => th[t].loc <= cells
       /\ th[t].new # None => th[t].new <= cells

\* A cell not published yet is known to its writer alone.
Private ==
  /\ \A t \in Threads : th[t].pc \in FreshPcs =>
       /\ th[t].new # None /\ th[t].new # slot /\ th[t].new # ev.loc
       /\ \A u \in Threads : /\ th[u].loc # th[t].new
                             /\ th[u].pc \in FreshPcs /\ u # t => th[u].new # th[t].new
  /\ ev.pc \in CopyPcs =>
       /\ ev.new # None /\ ev.new # slot /\ ev.new # ev.loc
       /\ \A u \in Threads : /\ th[u].loc # ev.new
                             /\ th[u].pc \in FreshPcs => th[u].new # ev.new

\* What the step of a call r says of it and of its lock.
StepOf(r) ==
  /\ r.pc \in AtPcs => r.loc # None
  /\ r.pc = "fresh" => r.hit # None
  /\ r.pc \in {"stored", "again", "read"} => r.val \in Vals
  /\ r.pc \in {"fresh", "cas", "reserve"} => r.val \in Numbers
  /\ r.pc \in UpdatePcs \cup {"lock", "check", "numeric"} => r.op \in Arith
  /\ r.pc \in CasPcs => r.op = "cas"
  /\ r.pc = "convertible" => r.op = "convert"
  /\ r.pc \in ReplacePcs \cup {"reserve"} => r.op \in {"cas", "convert"}
  /\ r.locked => r.pc \in LockedPcs /\ r.loc # None /\ item[r.loc].num
  /\ r.pc \in UpdatePcs \cup {"check"} => r.locked
  /\ r.pc = "publish" /\ r.op = "cas" /\ item[r.loc].num =>
       r.locked /\ item[r.loc].version = r.ver + 1

ThreadSteps == \A t \in Threads : StepOf(th[t])

\* What the step of the relocation says of its lock and of its copy.
CopySteps ==
  /\ ev.pc \in CopyPcs \cup {"release"} => ev.loc # None
  /\ ev.locked => ev.pc \in {"copy", "release"} \cup CopiedPcs /\ item[ev.loc].num
  /\ ev.pc \in {"copy", "release"} \cup CopiedPcs /\ item[ev.loc].num => ev.locked
  /\ ev.pc \in CopiedPcs => /\ item[ev.new].num = item[ev.loc].num
                            /\ item[ev.new].value = item[ev.loc].value
                            /\ item[ev.new].crc = item[ev.loc].crc
  /\ ev.pc = "stamp" => item[ev.new].version = item[ev.loc].version

\* A version lock has one holder.
Exclusive ==
  \A t \in Threads : th[t].locked =>
    /\ \A u \in Threads : u # t /\ th[u].locked => th[u].loc # th[t].loc
    /\ ev.locked => ev.loc # th[t].loc

HeldBy(c) == (\E t \in Threads : th[t].locked /\ th[t].loc = c) \/ (ev.locked /\ ev.loc = c)

\* A version is odd exactly while the lock is held, but for a copy not stamped yet.
OddIsHeld ==
  \A c \in Cells : ~(ev.pc = "stamp" /\ ev.new = c) => (HeldBy(c) <=> ~Even(item[c].version))

\* Value and CRC agree except between an update's two stores.
CrcFollows ==
  \A c \in Cells : \/ item[c].crc = item[c].value
                   \/ \E t \in Threads : th[t].pc = "crc" /\ th[t].loc = c

\* The published item and the ledger.
LedgerKept ==
  /\ slot = None <=> ledger = None
  /\ slot # None =>
       /\ item[slot].num = ledger.num
       /\ \/ item[slot].value = ledger.value
          \/ \E t \in Threads : th[t].pc = "store" /\ th[t].loc = slot
       /\ \A t \in Threads : th[t].pc = "store" /\ th[t].loc = slot =>
            ledger.value = Apply(th[t].op, item[slot].value)

\* Nobody has stored to cell c since it had the even version v.
Untouched(c, v) ==
  /\ item[c].version \in {v, v + 1}
  /\ \A u \in Threads : th[u].pc \in {"crc", "unlock"} => th[u].loc # c

\* A seqlock read under way, and the cell as it was at version v1.
ReadOf(r) == r.pc \in ReadPcs =>
  /\ item[r.loc].num /\ Even(r.v1) /\ item[r.loc].version >= r.v1
  /\ Even(r.ver) => r.v1 >= r.ver
  /\ Untouched(r.loc, r.v1) =>
       /\ r.pc # "value" => r.val = item[r.loc].value
       /\ r.pc = "again" => r.crc = item[r.loc].crc

ReadsOneVersion == \A t \in Threads : ReadOf(th[t])

\* A token of an even version stands for the value that was read with it.
TokenOf(r) ==
  /\ r.pc \in {"version"} => item[r.loc].num
  /\ r.op = "cas" /\ r.pc \in AtPcs \ {"token"} =>
       IF item[r.loc].num
       THEN Even(r.ver) =>
              /\ item[r.loc].version >= r.ver
              /\ r.pc \notin ReadPcs \cup {"version"} /\ Untouched(r.loc, r.ver) =>
                   r.val = item[r.loc].value
       ELSE r.val = item[r.loc].value
  /\ r.op = "convert" /\ r.pc \in ReplacePcs \cup {"reserve"} =>
       ~item[r.loc].num /\ r.val = item[r.loc].value

TokensHold == \A t \in Threads : TokenOf(th[t])

IInv ==
  /\ TypeOK /\ Allocated /\ Private /\ ThreadSteps /\ CopySteps /\ Exclusive /\ OddIsHeld
  /\ CrcFollows /\ LedgerKept /\ ReadsOneVersion /\ TokensHold /\ ReadsAgree

-----------------------------------------------------------------------------
\* A thread between calls knows no cell and holds no lock.
LEMMA IdleFacts ==
  /\ Idle \in ThreadRec /\ Idle.pc = "idle" /\ Idle.op = "none" /\ Idle.loc = None
  /\ Idle.new = None /\ ~Idle.locked
BY DEF Idle, ThreadRec, Pcs, Ops, CellOrNone

\* The invariant holds of the empty cache.
LEMMA InitIInv == Init => IInv
<1> SUFFICES ASSUME Init PROVE IInv
  OBVIOUS
<1> USE NumericAssumption, IdleFacts DEF Init
<1>1. TypeOK
  BY DEF TypeOK, CellOrNone, ItemRec, Vals, EvRec, NoRelocation, EvPcs
<1>2. Allocated /\ Private /\ Exclusive /\ LedgerKept /\ ReadsAgree
  BY DEF Allocated, Private, Exclusive, LedgerKept, ReadsAgree, NoRelocation, FreshPcs, CopyPcs,
         CopiedPcs
<1>3. ThreadSteps /\ ReadsOneVersion /\ TokensHold
  BY DEF ThreadSteps, StepOf, ReadsOneVersion, ReadOf, TokensHold, TokenOf, AtPcs, UpdatePcs,
         CasPcs, ReplacePcs, ReadPcs
<1>4. CopySteps
  BY DEF CopySteps, NoRelocation, CopyPcs, CopiedPcs
<1>5. OddIsHeld /\ CrcFollows
  BY DEF OddIsHeld, CrcFollows, HeldBy, Even, NoRelocation
<1> QED BY <1>1, <1>2, <1>3, <1>4, <1>5 DEF IInv

\* A step of a call without a version lock that only changes what the call knows.
LEMMA LocalStep ==
  ASSUME IInv, NEW t \in Threads, NEW r \in ThreadRec,
         th' = [th EXCEPT ![t] = r], UNCHANGED <<slot, cells, item, ev, ledger>>,
         ~th[t].locked, ~r.locked,
         r.loc \in {th[t].loc, slot, None}, r.new \in {th[t].new, None},
         r.pc \in FreshPcs => th[t].pc \in FreshPcs /\ r.new = th[t].new,
         StepOf(r), ReadOf(r), TokenOf(r), r.pc = "read" => r.val = r.crc
  PROVE  IInv'
<1> USE DEF IInv
<1>1. TypeOK' /\ th'[t] = r /\ \A u \in Threads : u # t => th'[u] = th[u]
  BY DEF TypeOK
<1>2. /\ th[t].pc \notin {"store", "crc", "unlock"}
      /\ r.pc \notin {"store", "crc", "unlock"}
  BY DEF ThreadSteps, StepOf, UpdatePcs
<1>3. Allocated' /\ Private'
  BY <1>1 DEF Allocated, Private, TypeOK
<1>4. Exclusive' /\ OddIsHeld'
  BY <1>1 DEF Exclusive, OddIsHeld, HeldBy
<1>5. CrcFollows' /\ LedgerKept' /\ CopySteps'
  BY <1>1, <1>2 DEF CrcFollows, LedgerKept, CopySteps
<1>6. ThreadSteps'
  BY <1>1 DEF ThreadSteps, StepOf
<1>7. ASSUME NEW c, NEW v PROVE Untouched(c, v)' <=> Untouched(c, v)
  BY <1>1, <1>2 DEF Untouched
<1>8. ReadsOneVersion' /\ TokensHold' /\ ReadsAgree'
  BY <1>1, <1>7 DEF ReadsOneVersion, ReadOf, TokensHold, TokenOf, ReadsAgree
<1> QED BY <1>1, <1>3, <1>4, <1>5, <1>6, <1>8

-----------------------------------------------------------------------------
(* The steps that read. *)

\* What the invariant says of one call.
LEMMA CallFacts ==
  ASSUME IInv, NEW t \in Threads
  PROVE  /\ th[t] \in ThreadRec /\ StepOf(th[t]) /\ ReadOf(th[t]) /\ TokenOf(th[t])
         /\ th[t].pc \in AtPcs => th[t].loc \in Cells /\ item[th[t].loc] \in ItemRec
         /\ th[t].pc \notin LockedPcs => ~th[t].locked
BY DEF IInv, TypeOK, ThreadSteps, ReadsOneVersion, TokensHold, StepOf, ThreadRec, CellOrNone

\* A call that ends without a lock in hand.
LEMMA DoneStep ==
  ASSUME IInv, NEW t \in Threads, ~th[t].locked, Done(t),
         UNCHANGED <<slot, cells, item, ev, ledger>>
  PROVE  IInv'
<1>1. StepOf(Idle) /\ ReadOf(Idle) /\ TokenOf(Idle)
  BY IdleFacts DEF StepOf, ReadOf, TokenOf, AtPcs, CasPcs, UpdatePcs, ReplacePcs, ReadPcs
<1> QED
  BY <1>1, IdleFacts, LocalStep DEF Done, Set, FreshPcs

\* get: the entry found is the published one.
LEMMA GetHitStep == ASSUME IInv, NEW t \in Threads, GetHit(t) PROVE IInv'
<1> DEFINE r == [Idle EXCEPT !["pc"] = "token", !["op"] = "cas", !["loc"] = slot]
<1>1. /\ th' = [th EXCEPT ![t] = r] /\ UNCHANGED <<slot, cells, item, ev, ledger>>
      /\ th[t].pc = "idle" /\ slot # None
  BY Zenon DEF GetHit, Set
<1>2. /\ r \in ThreadRec /\ r.pc = "token" /\ r.op = "cas" /\ r.loc = slot /\ r.new = None
      /\ ~r.locked
  BY IdleFacts DEF ThreadRec, IInv, TypeOK, Ops, Pcs, AtPcs, CasPcs
<1>3. ~th[t].locked
  BY <1>1, CallFacts DEF LockedPcs, UpdatePcs
<1>4. StepOf(r) /\ ReadOf(r) /\ TokenOf(r)
  BY <1>1, <1>2 DEF StepOf, ReadOf, TokenOf, AtPcs, CasPcs, UpdatePcs, ReplacePcs, ReadPcs
<1> QED
  BY <1>1, <1>2, <1>3, <1>4, LocalStep DEF FreshPcs

\* token_for takes the version before the value is read.
LEMMA GetTokenStep == ASSUME IInv, NEW t \in Threads, GetToken(t) PROVE IInv'
<1> DEFINE it == item[th[t].loc]
           r == IF it.num THEN [th[t] EXCEPT !["pc"] = "version", !["ver"] = it.version]
                ELSE [th[t] EXCEPT !["pc"] = "read", !["val"] = it.value, !["crc"] = it.crc]
<1>1. /\ th' = [th EXCEPT ![t] = r] /\ UNCHANGED <<slot, cells, item, ev, ledger>>
      /\ th[t].pc = "token"
  BY Zenon DEF GetToken, Set
<1>2. th[t].loc \in Cells /\ it \in ItemRec /\ ~th[t].locked /\ th[t].op = "cas"
  BY <1>1, CallFacts DEF StepOf, AtPcs, CasPcs, LockedPcs, UpdatePcs
<1>3. ~it.num => it.crc = it.value
  BY <1>2, CallFacts DEF IInv, CrcFollows, StepOf, UpdatePcs
<1>4. r \in ThreadRec /\ ~r.locked /\ (r.pc = "read" => r.val = r.crc)
  BY <1>2, <1>3, CallFacts DEF ThreadRec, ItemRec, Pcs, AtPcs, CasPcs, ReadPcs
<1>5. StepOf(r) /\ ReadOf(r)
  <2>1. /\ r.pc \in {"version", "read"} /\ r.loc = th[t].loc /\ r.op = "cas" /\ ~r.locked
        /\ r.pc = "read" => r.val \in Vals
    BY <1>2, CallFacts DEF ThreadRec, ItemRec
  <2>2. StepOf(r)
    <3>1. th[t].loc # None
      BY <1>1, CallFacts DEF StepOf, AtPcs, CasPcs
    <3> HIDE DEF r
    <3> QED BY <2>1, <3>1 DEF StepOf, UpdatePcs, ReplacePcs, CasPcs
  <2>3. ReadOf(r)
    BY <2>1 DEF ReadOf, ReadPcs
  <2> QED BY <2>2, <2>3
<1>6. TokenOf(r)
  <2>1. CASE it.num
    <3>1. r.pc = "version" /\ r.ver = it.version /\ r.loc = th[t].loc /\ r.op = "cas"
      BY <1>2, <2>1, CallFacts DEF ThreadRec
    <3> QED BY <1>2, <2>1, <3>1 DEF TokenOf, ItemRec, ReadPcs, ReplacePcs
  <2>2. CASE ~it.num
    <3>1. r.pc = "read" /\ r.val = it.value /\ r.loc = th[t].loc /\ r.op = "cas"
      BY <1>2, <2>2, CallFacts DEF ThreadRec
    <3> QED BY <1>2, <2>2, <3>1 DEF TokenOf, ReplacePcs
  <2> QED BY <2>1, <2>2
<1> QED
  BY <1>1, <1>2, <1>4, <1>5, <1>6, CallFacts, LocalStep DEF FreshPcs, ThreadRec

\* The seqlock read starts at an even version.
LEMMA ReadVersionStep == ASSUME IInv, NEW t \in Threads, ReadVersion(t) PROVE IInv'
<1> DEFINE r == [th[t] EXCEPT !["pc"] = "value", !["v1"] = item[th[t].loc].version]
<1>1. /\ th' = [th EXCEPT ![t] = r] /\ UNCHANGED <<slot, cells, item, ev, ledger>>
      /\ th[t].pc = "version" /\ Even(item[th[t].loc].version)
  BY Zenon DEF ReadVersion, Set
<1>2. th[t].loc \in Cells /\ item[th[t].loc] \in ItemRec /\ ~th[t].locked
  BY <1>1, CallFacts DEF AtPcs, CasPcs, LockedPcs, UpdatePcs
<1>3. r \in ThreadRec /\ ~r.locked
  BY <1>2, CallFacts DEF ThreadRec, ItemRec, Pcs, AtPcs, CasPcs, ReadPcs
<1>4. StepOf(r) /\ ReadOf(r) /\ TokenOf(r)
  BY <1>1, <1>2, CallFacts
     DEF ThreadRec, ItemRec, StepOf, ReadOf, TokenOf, AtPcs, CasPcs, UpdatePcs, ReplacePcs, ReadPcs
<1> QED
  BY <1>1, <1>2, <1>3, <1>4, CallFacts, LocalStep DEF FreshPcs, ThreadRec

\* The value read is the one of that version, or the version moves on.
LEMMA ReadValueStep == ASSUME IInv, NEW t \in Threads, ReadValue(t) PROVE IInv'
<1> DEFINE r == [th[t] EXCEPT !["pc"] = "stored", !["val"] = item[th[t].loc].value]
<1>1. /\ th' = [th EXCEPT ![t] = r] /\ UNCHANGED <<slot, cells, item, ev, ledger>>
      /\ th[t].pc = "value"
  BY Zenon DEF ReadValue, Set
<1>2. th[t].loc \in Cells /\ item[th[t].loc] \in ItemRec /\ ~th[t].locked
  BY <1>1, CallFacts DEF AtPcs, CasPcs, ReadPcs, LockedPcs, UpdatePcs
<1>3. r \in ThreadRec /\ ~r.locked
  BY <1>2, CallFacts DEF ThreadRec, ItemRec, Pcs, AtPcs, CasPcs, ReadPcs
<1>4. StepOf(r) /\ ReadOf(r) /\ TokenOf(r)
  BY <1>1, <1>2, CallFacts
     DEF ThreadRec, ItemRec, StepOf, ReadOf, TokenOf, AtPcs, CasPcs, UpdatePcs, ReplacePcs, ReadPcs
<1> QED
  BY <1>1, <1>2, <1>3, <1>4, CallFacts, LocalStep DEF FreshPcs, ThreadRec

\* So is the CRC.
LEMMA ReadCrcStep == ASSUME IInv, NEW t \in Threads, ReadCrc(t) PROVE IInv'
<1> DEFINE r == [th[t] EXCEPT !["pc"] = "again", !["crc"] = item[th[t].loc].crc]
<1>1. /\ th' = [th EXCEPT ![t] = r] /\ UNCHANGED <<slot, cells, item, ev, ledger>>
      /\ th[t].pc = "stored"
  BY Zenon DEF ReadCrc, Set
<1>2. th[t].loc \in Cells /\ item[th[t].loc] \in ItemRec /\ ~th[t].locked
  BY <1>1, CallFacts DEF AtPcs, CasPcs, ReadPcs, LockedPcs, UpdatePcs
<1>3. r \in ThreadRec /\ ~r.locked
  BY <1>2, CallFacts DEF ThreadRec, ItemRec, Pcs, AtPcs, CasPcs, ReadPcs
<1>4. StepOf(r) /\ ReadOf(r) /\ TokenOf(r)
  BY <1>1, <1>2, CallFacts
     DEF ThreadRec, ItemRec, StepOf, ReadOf, TokenOf, AtPcs, CasPcs, UpdatePcs, ReplacePcs, ReadPcs
<1> QED
  BY <1>1, <1>2, <1>3, <1>4, CallFacts, LocalStep DEF FreshPcs, ThreadRec

\* The version read again is even, so nobody held the lock and nobody stored.
LEMMA ReadAgainStep == ASSUME IInv, NEW t \in Threads, ReadAgain(t) PROVE IInv'
<1> DEFINE c == th[t].loc
           r == IF item[c].version = th[t].v1
                THEN [th[t] EXCEPT !["pc"] = "read", !["v1"] = 0]
                ELSE [th[t] EXCEPT !["pc"] = "version", !["val"] = None, !["crc"] = None, !["v1"] = 0]
<1>1. /\ th' = [th EXCEPT ![t] = r] /\ UNCHANGED <<slot, cells, item, ev, ledger>>
      /\ th[t].pc = "again"
  BY Zenon DEF ReadAgain, Set
<1>2. /\ c \in Cells /\ item[c] \in ItemRec /\ ~th[t].locked /\ item[c].num /\ Even(th[t].v1)
      /\ th[t].op = "cas"
  BY <1>1, CallFacts DEF AtPcs, CasPcs, ReadPcs, LockedPcs, UpdatePcs, ReadOf, StepOf
<1>3. r \in ThreadRec /\ ~r.locked
  BY <1>2, CallFacts DEF ThreadRec, Pcs, AtPcs, CasPcs, ReadPcs
<1>4. item[c].version = th[t].v1 => th[t].val = item[c].value /\ th[t].crc = item[c].value
  <2> SUFFICES ASSUME item[c].version = th[t].v1
               PROVE  th[t].val = item[c].value /\ th[t].crc = item[c].value
    OBVIOUS
  <2>1. ~HeldBy(c)
    BY <1>1, <1>2 DEF IInv, OddIsHeld, Private, CopyPcs, CopiedPcs
  <2>2. \A u \in Threads : th[u].pc \in {"crc", "unlock"} => th[u].loc # c
    BY <2>1, CallFacts DEF HeldBy, StepOf, UpdatePcs
  <2>3. item[c].crc = item[c].value
    BY <1>2, <2>2 DEF IInv, CrcFollows
  <2> QED BY <1>1, <2>2, <2>3, CallFacts DEF ReadOf, ReadPcs, Untouched
<1>5. StepOf(r) /\ ReadOf(r) /\ TokenOf(r) /\ (r.pc = "read" => r.val = r.crc)
  <2>1. StepOf(r)
    BY <1>1, <1>2, CallFacts DEF ThreadRec, StepOf, AtPcs, CasPcs, UpdatePcs, ReplacePcs, ReadPcs
  <2>2. ReadOf(r)
    BY <1>1, <1>2, <1>4, CallFacts DEF ThreadRec, ItemRec, ReadOf, ReadPcs
  <2>3. TokenOf(r)
    BY <1>1, <1>2, <1>4, CallFacts DEF ThreadRec, ItemRec, TokenOf, AtPcs, CasPcs, UpdatePcs,
                                            ReplacePcs, ReadPcs
  <2>4. r.pc = "read" => r.val = r.crc
    BY <1>1, <1>2, <1>4, CallFacts DEF ThreadRec
  <2> QED BY <2>1, <2>2, <2>3, <2>4
<1> QED
  BY <1>1, <1>2, <1>3, <1>5, CallFacts, LocalStep DEF FreshPcs, ThreadRec

\* The client drops what it read.
LEMMA GetDoneStep == ASSUME IInv, NEW t \in Threads, GetDone(t) PROVE IInv'
BY CallFacts, DoneStep DEF GetDone, LockedPcs, UpdatePcs

\* cas finds the entry again; the value it read spells a number.
LEMMA CasLookupStep == ASSUME IInv, NEW t \in Threads, CasLookup(t) PROVE IInv'
<1> DEFINE r == [th[t] EXCEPT !["pc"] = "fresh", !["hit"] = slot]
<1>1. /\ Done(t) \/ (slot # None /\ th' = [th EXCEPT ![t] = r])
      /\ UNCHANGED <<slot, cells, item, ev, ledger>>
      /\ th[t].pc \in {"read", "cas"} /\ th[t].val # NotANumber
  BY Zenon DEF CasLookup, Set
<1>2. th[t].loc \in Cells /\ ~th[t].locked /\ th[t].val \in Numbers
  BY <1>1, CallFacts DEF AtPcs, CasPcs, LockedPcs, UpdatePcs, StepOf, Vals
<1>3. r \in ThreadRec /\ ~r.locked
  BY <1>2, CallFacts DEF ThreadRec, IInv, TypeOK, Pcs, AtPcs, CasPcs
<1>4. slot # None => StepOf(r) /\ ReadOf(r) /\ TokenOf(r)
  BY <1>1, <1>2, CallFacts
     DEF ThreadRec, StepOf, ReadOf, TokenOf, AtPcs, CasPcs, UpdatePcs, ReplacePcs, ReadPcs
<1> QED
  BY <1>1, <1>2, <1>3, <1>4, CallFacts, DoneStep, LocalStep DEF FreshPcs, ThreadRec

\* The first comparison of the token only lets the call go on.
LEMMA CasFreshStep == ASSUME IInv, NEW t \in Threads, CasFresh(t) PROVE IInv'
<1> DEFINE again == [th[t] EXCEPT !["pc"] = "cas", !["hit"] = None, !["tries"] = th[t].tries + 1]
           go == [th[t] EXCEPT !["pc"] = "reserve", !["hit"] = None, !["tries"] = 0]
<1>1. /\ \E r \in {Idle, again, go} : th' = [th EXCEPT ![t] = r]
      /\ UNCHANGED <<slot, cells, item, ev, ledger>>
      /\ th[t].pc = "fresh"
  BY Zenon DEF CasFresh, Set, Done
<1>2. th[t].loc \in Cells /\ ~th[t].locked
  BY <1>1, CallFacts DEF AtPcs, CasPcs, LockedPcs, UpdatePcs
<1>3. ASSUME NEW r \in {again, go}
      PROVE  r \in ThreadRec /\ ~r.locked /\ StepOf(r) /\ ReadOf(r) /\ TokenOf(r)
  BY <1>1, <1>2, CallFacts DEF ThreadRec, CellOrNone, Pcs, StepOf, ReadOf, TokenOf, AtPcs, CasPcs,
     UpdatePcs, ReplacePcs, ReadPcs
<1>4. CASE Done(t)
  BY <1>1, <1>2, <1>4, DoneStep
<1>5. ASSUME NEW r \in {again, go}, th' = [th EXCEPT ![t] = r] PROVE IInv'
  <2>1. r.loc = th[t].loc /\ r.new = th[t].new /\ r.pc \notin FreshPcs /\ r.pc # "read"
    BY <1>2, <1>5, CallFacts DEF FreshPcs, ThreadRec
  <2> QED BY <1>1, <1>2, <1>3, <1>5, <2>1, LocalStep
<1> QED
  BY <1>1, <1>4, <1>5 DEF Done, Set

\* numeric_update finds the entry, or ends.
LEMMA NumericLookupStep == ASSUME IInv, NEW t \in Threads, NumericLookup(t) PROVE IInv'
<1>1. /\ UNCHANGED <<slot, cells, item, ev, ledger>>
      /\ th[t].pc \in {"idle", "numeric"}
      /\ \/ Done(t)
         \/ /\ slot # None
            /\ \E op \in (IF th[t].pc = "idle" THEN Arith ELSE {th[t].op}) :
                 th' = [th EXCEPT ![t] = [Idle EXCEPT !["pc"] = "lock", !["op"] = op, !["loc"] = slot]]
  BY Zenon DEF NumericLookup, Set
<1>2. ~th[t].locked
  BY <1>1, CallFacts DEF LockedPcs, UpdatePcs
<1>3. ASSUME NEW op \in (IF th[t].pc = "idle" THEN Arith ELSE {th[t].op}), slot # None,
             th' = [th EXCEPT ![t] = [Idle EXCEPT !["pc"] = "lock", !["op"] = op, !["loc"] = slot]]
      PROVE  IInv'
  <2> DEFINE r == [Idle EXCEPT !["pc"] = "lock", !["op"] = op, !["loc"] = slot]
  <2>1. op \in Arith
    BY <1>1, CallFacts DEF StepOf
  <2>2. /\ r \in ThreadRec /\ r.pc = "lock" /\ r.op = op /\ r.loc = slot /\ r.new = None
        /\ ~r.locked
    BY <2>1, IdleFacts DEF ThreadRec, IInv, TypeOK, Ops, Pcs, AtPcs
  <2>3. StepOf(r) /\ ReadOf(r) /\ TokenOf(r)
    BY <1>3, <2>1, <2>2 DEF StepOf, ReadOf, TokenOf, AtPcs, CasPcs, UpdatePcs, ReplacePcs, ReadPcs,
       Arith
  <2> QED
    BY <1>1, <1>2, <1>3, <2>2, <2>3, LocalStep DEF FreshPcs
<1> QED
  BY <1>1, <1>2, <1>3, DoneStep

\* replace_at goes on to its next check.
LEMMA ReplaceStep ==
  ASSUME IInv, NEW t \in Threads, NEW pc \in {"entry", "gate", "publish"}, NEW rem \in BOOLEAN,
         th' = [th EXCEPT ![t] = [th[t] EXCEPT !["pc"] = pc, !["rem"] = rem]],
         UNCHANGED <<slot, cells, item, ev, ledger>>,
         th[t].pc \in {"pin", "entry", "gate"},
         pc = "publish" /\ th[t].op = "cas" => ~item[th[t].loc].num
  PROVE  IInv'
<1> DEFINE r == [th[t] EXCEPT !["pc"] = pc, !["rem"] = rem]
<1>1. /\ r \in ThreadRec /\ r.pc = pc /\ r.loc = th[t].loc /\ r.new = th[t].new
      /\ r.op = th[t].op /\ r.val = th[t].val /\ r.ver = th[t].ver /\ r.locked = th[t].locked
  BY CallFacts DEF ThreadRec, Pcs, FreshPcs
<1>2. ~th[t].locked
  BY CallFacts DEF LockedPcs, UpdatePcs
<1>3. StepOf(r) /\ ReadOf(r)
  BY <1>1, <1>2, CallFacts DEF StepOf, ReadOf, AtPcs, CasPcs, UpdatePcs, ReplacePcs, ReadPcs
<1>4. TokenOf(r)
  BY <1>1, CallFacts DEF TokenOf, AtPcs, ReplacePcs, ReadPcs
<1> QED
  BY <1>1, <1>2, <1>3, <1>4, LocalStep DEF FreshPcs

\* replace_at pins the old segment, or gives up.
LEMMA PinOldStep == ASSUME IInv, NEW t \in Threads, PinOld(t) PROVE IInv'
<1>1. /\ UNCHANGED <<slot, cells, item, ev, ledger>> /\ th[t].pc = "pin"
      /\ \/ Done(t)
         \/ th' = [th EXCEPT ![t] = [th[t] EXCEPT
              !["pc"] = IF th[t].op = "cas" THEN "entry" ELSE "publish", !["rem"] = TRUE]]
  BY Zenon DEF PinOld, Set
<1>2. CASE Done(t)
  BY <1>1, <1>2, CallFacts, DoneStep DEF LockedPcs, UpdatePcs
<1>3. CASE ~Done(t)
  <2> DEFINE next == IF th[t].op = "cas" THEN "entry" ELSE "publish"
  <2>1. next \in {"entry", "gate", "publish"} /\ (next = "publish" => th[t].op # "cas")
    OBVIOUS
  <2> HIDE DEF next
  <2> QED BY <1>1, <1>3, <2>1, ReplaceStep DEF next
<1> QED BY <1>2, <1>3

\* It looks at the slot once more.
LEMMA EntryCheckStep == ASSUME IInv, NEW t \in Threads, EntryCheck(t) PROVE IInv'
<1>1. /\ UNCHANGED <<slot, cells, item, ev, ledger>> /\ th[t].pc = "entry"
      /\ Done(t) \/ th' = [th EXCEPT ![t] = [th[t] EXCEPT !["pc"] = "gate"]]
  BY Zenon DEF EntryCheck, Set
<1>2. CASE Done(t)
  BY <1>1, <1>2, CallFacts, DoneStep DEF LockedPcs, UpdatePcs
<1>3. CASE ~Done(t)
  <2>1. [th[t] EXCEPT !["pc"] = "gate"] = [th[t] EXCEPT !["pc"] = "gate", !["rem"] = th[t].rem]
    BY CallFacts DEF ThreadRec
  <2> QED BY <1>1, <1>3, <2>1, CallFacts, ReplaceStep DEF ThreadRec
<1> QED BY <1>2, <1>3

\* try_into_numeric finds bytes, or makes a number of its own.
LEMMA ConvertLookupStep == ASSUME IInv, NEW t \in Threads, ConvertLookup(t) PROVE IInv'
<1> DEFINE r == [th[t] EXCEPT !["pc"] = "convertible", !["op"] = "convert", !["loc"] = slot]
           q == [Idle EXCEPT !["pc"] = "create", !["op"] = "set"]
<1>1. /\ UNCHANGED <<slot, cells, item, ev, ledger>> /\ th[t].pc \in {"idle", "convert"}
      /\ \/ slot # None /\ th' = [th EXCEPT ![t] = r]
         \/ th' = [th EXCEPT ![t] = q]
  BY Zenon DEF ConvertLookup, Set
<1>2. ~th[t].locked
  BY <1>1, CallFacts DEF LockedPcs, UpdatePcs
<1>3. /\ r \in ThreadRec /\ r.pc = "convertible" /\ r.op = "convert" /\ r.loc = slot
      /\ r.new = th[t].new /\ ~r.locked
  BY <1>2, CallFacts DEF ThreadRec, IInv, TypeOK, Pcs, AtPcs, Ops
<1>4. /\ q \in ThreadRec /\ q.pc = "create" /\ q.op = "set" /\ q.loc = None /\ q.new = None
      /\ ~q.locked
  BY IdleFacts DEF ThreadRec, Pcs, Ops
<1>5. slot # None => StepOf(r) /\ ReadOf(r) /\ TokenOf(r)
  BY <1>3 DEF StepOf, ReadOf, TokenOf, AtPcs, CasPcs, UpdatePcs, ReplacePcs, ReadPcs
<1>6. StepOf(q) /\ ReadOf(q) /\ TokenOf(q)
  BY <1>4 DEF StepOf, ReadOf, TokenOf, AtPcs, CasPcs, UpdatePcs, ReplacePcs, ReadPcs
<1>7. CASE slot # None /\ th' = [th EXCEPT ![t] = r]
  BY <1>1, <1>2, <1>3, <1>5, <1>7, LocalStep DEF FreshPcs
<1>8. CASE th' = [th EXCEPT ![t] = q]
  BY <1>1, <1>2, <1>4, <1>6, <1>8, LocalStep DEF FreshPcs
<1> QED
  BY <1>1, <1>7, <1>8

\* It parses the published bytes, which nobody writes in place.
LEMMA ConvertFreshStep == ASSUME IInv, NEW t \in Threads, ConvertFresh(t) PROVE IInv'
<1> DEFINE it == item[th[t].loc]
           r == [th[t] EXCEPT !["pc"] = "convert", !["loc"] = None, !["tries"] = th[t].tries + 1]
           q == [th[t] EXCEPT !["pc"] = "reserve", !["val"] = it.value, !["tries"] = 0]
<1>1. /\ UNCHANGED <<slot, cells, item, ev, ledger>> /\ th[t].pc = "convertible"
      /\ \/ Done(t)
         \/ th' = [th EXCEPT ![t] = r]
         \/ ~it.num /\ it.value # NotANumber /\ th' = [th EXCEPT ![t] = q]
  BY Zenon DEF ConvertFresh, Set
<1>2. ~th[t].locked /\ th[t].loc \in Cells /\ it \in ItemRec
  BY <1>1, CallFacts DEF LockedPcs, UpdatePcs, AtPcs
<1>3. /\ r \in ThreadRec /\ r.pc = "convert" /\ r.loc = None /\ r.op = th[t].op
      /\ r.new = th[t].new /\ ~r.locked
  BY <1>2, CallFacts DEF ThreadRec, CellOrNone, Pcs
<1>4. /\ q \in ThreadRec /\ q.pc = "reserve" /\ q.loc = th[t].loc /\ q.op = th[t].op
      /\ q.new = th[t].new /\ ~q.locked /\ q.val = it.value
  BY <1>2, CallFacts DEF ThreadRec, ItemRec, Pcs, AtPcs
<1>5. StepOf(r) /\ ReadOf(r) /\ TokenOf(r)
  BY <1>3 DEF StepOf, ReadOf, TokenOf, AtPcs, CasPcs, UpdatePcs, ReplacePcs, ReadPcs
<1>6. ~it.num /\ it.value # NotANumber => StepOf(q) /\ ReadOf(q) /\ TokenOf(q)
  <2> SUFFICES ASSUME ~it.num, it.value # NotANumber PROVE StepOf(q) /\ ReadOf(q) /\ TokenOf(q)
    OBVIOUS
  <2>1. q.val \in Numbers /\ q.op = "convert" /\ q.loc # None
    BY <1>1, <1>2, <1>4, CallFacts DEF ItemRec, Vals, StepOf, AtPcs
  <2> QED BY <1>4, <2>1
       DEF StepOf, ReadOf, TokenOf, AtPcs, CasPcs, UpdatePcs, ReplacePcs, ReadPcs
<1>7. CASE th' = [th EXCEPT ![t] = r]
  BY <1>1, <1>2, <1>3, <1>5, <1>7, LocalStep DEF FreshPcs
<1>8. CASE ~it.num /\ it.value # NotANumber /\ th' = [th EXCEPT ![t] = q]
  BY <1>1, <1>2, <1>4, <1>6, <1>8, LocalStep DEF FreshPcs
<1> QED
  BY <1>1, <1>2, <1>7, <1>8, DoneStep

-----------------------------------------------------------------------------
(* The steps that take or drop a version lock. *)

\* Parity of neighbours.
LEMMA EvenFacts ==
  ASSUME NEW n \in Nat
  PROVE  /\ Even(n) <=> ~Even(n + 1)
         /\ ~Even(n) => n > 0 /\ n - 1 \in Nat /\ Even(n - 1)
         /\ \A v \in Nat : Even(v) /\ Even(n) => n # v + 1 /\ v # n + 1
BY DEF Even

\* wrapping_add and saturating_sub stay within the numbers.
LEMMA ApplyNumber ==
  ASSUME NEW op, NEW v \in Numbers PROVE Apply(op, v) \in Numbers
BY NumericAssumption DEF Apply, Numbers

\* The version word n of the cell that the call of thread t is at: locked from an
\* even version, or dropped or moved on by the holder of its lock. Only the last
\* ends what was read at an earlier version.
LEMMA VersionStep ==
  ASSUME IInv, NEW t \in Threads, NEW r \in ThreadRec, NEW n \in Nat,
         th[t].pc \in AtPcs, item[th[t].loc].num,
         th[t].locked \/ Even(item[th[t].loc].version),
         th' = [th EXCEPT ![t] = r],
         item' = [item EXCEPT ![th[t].loc] = [item[th[t].loc] EXCEPT !["version"] = n]],
         UNCHANGED <<slot, cells, ev, ledger>>,
         th[t].pc \notin {"store", "crc"}, r.pc \notin {"store", "crc", "unlock"} \cup ReadPcs,
         r.loc \in {th[t].loc, None}, r.locked <=> ~Even(n), r.locked => r.loc = th[t].loc,
         r.new \in {th[t].new, None},
         r.pc \in FreshPcs => th[t].pc \in FreshPcs /\ r.new = th[t].new,
         \A v \in Nat : Even(v) /\ item[th[t].loc].version >= v =>
           /\ n >= v
           /\ n \in {v, v + 1} => /\ item[th[t].loc].version \in {v, v + 1}
                                  /\ th[t].pc # "unlock",
         StepOf(th[t])', TokenOf(th[t])', r.pc # "read"
  PROVE  IInv'
<1> DEFINE c == th[t].loc
<1> USE DEF IInv
<1>1. c \in Cells /\ item[c] \in ItemRec
  BY CallFacts
<1>2. /\ TypeOK' /\ th'[t] = r /\ \A u \in Threads : u # t => th'[u] = th[u]
      /\ \A d \in Cells : d # c => item'[d] = item[d]
      /\ item'[c].num /\ item'[c].value = item[c].value /\ item'[c].crc = item[c].crc
      /\ item'[c].version = n
  BY <1>1 DEF TypeOK, ItemRec
<1>3. (ev.pc \in CopyPcs => ev.new # c) /\ ev.new \in CellOrNone /\ ev.loc \in CellOrNone
  BY <1>1 DEF Private, TypeOK, EvRec
<1>4. /\ \A u \in Threads : u # t /\ th[u].locked => th[u].loc # c
      /\ ev.locked => ev.loc # c
  BY <1>1, <1>3 DEF Exclusive, OddIsHeld, HeldBy, CopyPcs, CopiedPcs
<1>5. Allocated' /\ Private'
  BY <1>2, <1>1 DEF Allocated, Private, TypeOK
<1>6. ThreadSteps'
  <2>1. ASSUME NEW u \in Threads, u # t PROVE StepOf(th[u])'
    <3>1. th[u] \in ThreadRec /\ StepOf(th[u]) /\ th'[u] = th[u]
      BY <1>2, <2>1, CallFacts
    <3>2. item'[th[u].loc].num = item[th[u].loc].num \/ th[u].loc = None
      BY <1>1, <1>2, <3>1 DEF ThreadRec, CellOrNone
    <3>3. th[u].locked => item'[th[u].loc] = item[th[u].loc]
      BY <1>2, <1>4, <2>1, <3>1 DEF ThreadRec, CellOrNone, StepOf
    <3> QED BY <3>1, <3>2, <3>3 DEF StepOf, AtPcs, ReplacePcs
  <2> QED BY <1>2, <2>1 DEF ThreadSteps
<1>7. CopySteps'
  <2>1. ev.pc \in {"copy", "release"} \cup CopiedPcs => ev.loc # c
    BY <1>4 DEF CopySteps
  <2> QED BY <1>2, <1>1, <1>3, <2>1 DEF CopySteps, CopyPcs, CopiedPcs, CellOrNone
<1>8. Exclusive'
  BY <1>2, <1>4 DEF Exclusive
<1>9. OddIsHeld'
  BY <1>2, <1>3, <1>4 DEF OddIsHeld, HeldBy
<1>10. CrcFollows' /\ LedgerKept'
  BY <1>2, <1>1 DEF CrcFollows, LedgerKept, TypeOK, CellOrNone
<1>11. ASSUME NEW d \in Cells, NEW v \in Nat, Even(v), item[d].version >= v
       PROVE  item'[d].version >= v /\ (Untouched(d, v)' => Untouched(d, v))
  BY <1>11, <1>2 DEF Untouched
<1>12. ASSUME NEW u \in Threads, u # t PROVE ReadOf(th[u])' /\ TokenOf(th[u])'
  <2>1. /\ th[u] \in ThreadRec /\ StepOf(th[u]) /\ ReadOf(th[u]) /\ TokenOf(th[u])
        /\ th'[u] = th[u] /\ (th[u].pc \in AtPcs => th[u].loc \in Cells)
    BY <1>2, <1>12, CallFacts
  <2>2. th[u].loc \in Cells => /\ item'[th[u].loc].num = item[th[u].loc].num
                               /\ item'[th[u].loc].value = item[th[u].loc].value
                               /\ item'[th[u].loc].crc = item[th[u].loc].crc
    BY <1>1, <1>2
  <2>3. ReadOf(th[u])'
    BY <1>11, <2>1, <2>2 DEF ReadOf, AtPcs, CasPcs, ThreadRec
  <2>4. TokenOf(th[u])'
    BY <1>11, <2>1, <2>2 DEF TokenOf, AtPcs, CasPcs, ReplacePcs, ThreadRec
  <2> QED BY <2>3, <2>4
<1>13. ReadsOneVersion' /\ TokensHold' /\ ReadsAgree'
  <2>1. ReadsOneVersion'
    BY <1>2, <1>12 DEF ReadsOneVersion, ReadOf
  <2>2. TokensHold'
    BY <1>12 DEF TokensHold
  <2>3. ReadsAgree'
    BY <1>2 DEF ReadsAgree
  <2> QED BY <2>1, <2>2, <2>3
<1> QED BY <1>2, <1>5, <1>6, <1>7, <1>8, <1>9, <1>10, <1>13

\* The CAS of lock_numeric_version.
LEMMA LockStep ==
  ASSUME IInv, NEW t \in Threads, NEW pc \in {"check", "publish", "bail"},
         th[t].pc \in {"lock", "gate"}, item[th[t].loc].num, CanLock(th[t].loc),
         th' = [th EXCEPT ![t] = [th[t] EXCEPT !["pc"] = pc, !["locked"] = TRUE]],
         item' = Locked(th[t].loc), UNCHANGED <<slot, cells, ev, ledger>>,
         pc = "check" <=> th[t].pc = "lock",
         pc = "publish" => item[th[t].loc].version = th[t].ver
  PROVE  IInv'
<1> DEFINE c == th[t].loc
           r == [th[t] EXCEPT !["pc"] = pc, !["locked"] = TRUE]
           n == item[c].version + 1
<1>1. /\ item' = [item EXCEPT ![c] = [item[c] EXCEPT !["version"] = n]]
      /\ Even(item[c].version)
  BY Zenon DEF Locked, CanLock
<1>2. c \in Cells /\ item[c] \in ItemRec /\ item[c].version \in Nat /\ th[t].pc \in AtPcs
  BY CallFacts DEF AtPcs, ReplacePcs, ItemRec
<1>3. /\ r \in ThreadRec /\ r.pc = pc /\ r.loc = c /\ r.new = th[t].new /\ r.locked
      /\ r.op = th[t].op /\ r.val = th[t].val /\ r.ver = th[t].ver
  <2>1. th[t] \in ThreadRec /\ pc \in Pcs
    BY CallFacts DEF Pcs, AtPcs, ReplacePcs
  <2> QED BY <2>1 DEF ThreadRec
<1> HIDE DEF r, n
<1>4. /\ item'[c].num /\ item'[c].version = n /\ item'[c].value = item[c].value
  BY <1>1, <1>2 DEF IInv, TypeOK, ItemRec
<1>5. th'[t] = r /\ \A u \in Threads : u # t => th'[u] = th[u]
  BY DEF IInv, TypeOK, r
<1>6. n \in Nat /\ ~Even(n) /\ n = item[c].version + 1
  BY <1>1, <1>2, EvenFacts DEF n
<1>7. \A v \in Nat : Even(v) /\ item[c].version >= v =>
           n >= v /\ (n \in {v, v + 1} => item[c].version \in {v, v + 1} /\ th[t].pc # "unlock")
  BY <1>2, <1>6, EvenFacts
<1>8. /\ StepOf(th[t]) /\ TokenOf(th[t]) /\ th[t].ver \in Nat
      /\ th[t].pc = "lock" => th[t].op \in Arith
      /\ th[t].pc = "gate" => th[t].op \in {"cas", "convert"}
      /\ ~th[t].locked
  BY CallFacts DEF StepOf, ReplacePcs, ThreadRec, LockedPcs, UpdatePcs
<1>9. /\ th'[t].pc = pc /\ th'[t].op = th[t].op /\ th'[t].loc = c /\ th'[t].locked
      /\ th'[t].ver = th[t].ver /\ th'[t].val = th[t].val
  BY <1>3, <1>5
<1>10. StepOf(th[t])'
  BY <1>2, <1>4, <1>6, <1>8, <1>9
     DEF StepOf, AtPcs, CasPcs, ReplacePcs, UpdatePcs, ReadPcs, LockedPcs
<1>11. TokenOf(th[t])'
  <2>1. item[c].version >= th[t].ver /\ Even(th[t].ver) /\ Untouched(th[t].loc, th[t].ver)' => 
          Untouched(c, th[t].ver)
    BY <1>4, <1>5, <1>7, <1>8, <1>9 DEF Untouched
  <2>2. CASE th[t].pc = "lock"
    BY <1>8, <1>9, <2>2 DEF TokenOf, Arith
  <2>3. CASE th[t].pc = "gate"
    BY <1>2, <1>4, <1>7, <1>8, <1>9, <2>1, <2>3 DEF TokenOf, AtPcs, ReplacePcs, ReadPcs
  <2> QED BY <2>2, <2>3
<1>12. /\ th' = [th EXCEPT ![t] = r]
       /\ th[t].pc \notin {"store", "crc"} /\ r.pc \notin {"store", "crc", "unlock"} \cup ReadPcs
       /\ r.pc \in FreshPcs => th[t].pc \in FreshPcs
       /\ r.pc # "read"
  BY <1>3 DEF FreshPcs, ReadPcs, r
<1> QED
  BY <1>1, <1>2, <1>3, <1>6, <1>7, <1>10, <1>11, <1>12, VersionStep

\* The guard of a call that bails out or has published is dropped.
LEMMA UnlockStep ==
  ASSUME IInv, NEW t \in Threads, NEW r \in ThreadRec, th[t].locked,
         th[t].pc \in {"check", "bail"},
         th' = [th EXCEPT ![t] = r], ~r.locked, r.pc \in {"idle", "numeric"},
         r.loc \in {th[t].loc, None}, r.new \in {th[t].new, None}, StepOf(r), r.op \in Arith \cup {"none"},
         item' = Unlocked(th[t].loc), UNCHANGED <<slot, cells, ev, ledger>>
  PROVE  IInv'
<1> DEFINE c == th[t].loc
           n == item[c].version - 1
<1>1. item' = [item EXCEPT ![c] = [item[c] EXCEPT !["version"] = n]]
  BY Zenon DEF Unlocked
<1>2. /\ c \in Cells /\ item[c] \in ItemRec /\ item[c].version \in Nat /\ th[t].pc \in AtPcs
      /\ item[c].num
  BY CallFacts DEF AtPcs, ReplacePcs, ItemRec, StepOf
<1>3. ~Even(item[c].version)
  BY <1>2 DEF IInv, OddIsHeld, HeldBy, Private, CopyPcs, CopiedPcs
<1>4. n \in Nat /\ Even(n) /\ item[c].version = n + 1
  BY <1>2, <1>3, EvenFacts
<1> HIDE DEF n
<1>5. \A v \in Nat : Even(v) /\ item[c].version >= v =>
           n >= v /\ (n \in {v, v + 1} => item[c].version \in {v, v + 1} /\ th[t].pc # "unlock")
  <2> SUFFICES ASSUME NEW v \in Nat, Even(v), n + 1 >= v
               PROVE  n >= v /\ (n \in {v, v + 1} => n + 1 \in {v, v + 1} /\ th[t].pc # "unlock")
    BY <1>4
  <2>1. n # v + 1 /\ v # n + 1
    BY <1>4, EvenFacts
  <2> QED BY <1>4, <2>1
<1>6. th'[t] = r
  BY DEF IInv, TypeOK
<1>7. StepOf(th[t])' /\ TokenOf(th[t])'
  BY <1>6 DEF StepOf, TokenOf, Arith, AtPcs, CasPcs, ReplacePcs, UpdatePcs, ReadPcs
<1>8. /\ th[t].pc \notin {"store", "crc"} /\ r.pc \notin {"store", "crc", "unlock"} \cup ReadPcs
      /\ r.pc \notin FreshPcs /\ r.pc # "read"
  BY DEF FreshPcs, ReadPcs
<1> QED
  BY <1>1, <1>2, <1>4, <1>5, <1>7, <1>8, VersionStep

\* numeric_update locks a number, or leaves bytes alone.
LEMMA NumericLockStep == ASSUME IInv, NEW t \in Threads, NumericLock(t) PROVE IInv'
<1> DEFINE r == [th[t] EXCEPT !["pc"] = "numeric"]
<1>1. /\ UNCHANGED <<slot, cells, ev, ledger>> /\ th[t].pc = "lock"
      /\ \/ /\ item[th[t].loc].num /\ CanLock(th[t].loc) /\ item' = Locked(th[t].loc)
            /\ th' = [th EXCEPT ![t] = [th[t] EXCEPT !["pc"] = "check", !["locked"] = TRUE]]
         \/ UNCHANGED item /\ Done(t)
         \/ UNCHANGED item /\ th' = [th EXCEPT ![t] = r]
  BY Zenon DEF NumericLock, Set
<1>2. ~th[t].locked
  BY <1>1, CallFacts DEF LockedPcs, UpdatePcs
<1>3. CASE UNCHANGED item /\ th' = [th EXCEPT ![t] = r]
  <2>1. /\ r \in ThreadRec /\ r.pc = "numeric" /\ r.loc = th[t].loc /\ r.new = th[t].new
        /\ ~r.locked /\ r.op = th[t].op /\ r.op \in Arith
    BY <1>1, <1>2, CallFacts DEF ThreadRec, Pcs, StepOf
  <2>2. StepOf(r) /\ ReadOf(r) /\ TokenOf(r)
    BY <2>1 DEF StepOf, ReadOf, TokenOf, AtPcs, CasPcs, UpdatePcs, ReplacePcs, ReadPcs, Arith
  <2> QED BY <1>1, <1>2, <1>3, <2>1, <2>2, LocalStep DEF FreshPcs
<1>4. CASE UNCHANGED item /\ Done(t)
  BY <1>1, <1>2, <1>4, DoneStep
<1> QED
  BY <1>1, <1>3, <1>4, LockStep

\* replace_at locks a number and compares its token, or goes on with bytes.
LEMMA TokenGateStep == ASSUME IInv, NEW t \in Threads, TokenGate(t) PROVE IInv'
<1> DEFINE pc == IF item[th[t].loc].version = th[t].ver THEN "publish" ELSE "bail"
<1>1. /\ UNCHANGED <<slot, cells, ev, ledger>> /\ th[t].pc = "gate"
      /\ \/ /\ item[th[t].loc].num /\ CanLock(th[t].loc) /\ item' = Locked(th[t].loc)
            /\ th' = [th EXCEPT ![t] = [th[t] EXCEPT !["pc"] = pc, !["locked"] = TRUE]]
         \/ /\ UNCHANGED item /\ ~item[th[t].loc].num
            /\ th' = [th EXCEPT ![t] = [th[t] EXCEPT !["pc"] = "publish"]]
  <2>1. [th[t] EXCEPT !["locked"] = TRUE, !["pc"] = pc] = [th[t] EXCEPT !["pc"] = pc, !["locked"] = TRUE]
    BY CallFacts DEF ThreadRec
  <2> QED BY <2>1, Zenon DEF TokenGate, Set
<1>2. CASE UNCHANGED item /\ ~item[th[t].loc].num
           /\ th' = [th EXCEPT ![t] = [th[t] EXCEPT !["pc"] = "publish"]]
  <2>1. [th[t] EXCEPT !["pc"] = "publish"] = [th[t] EXCEPT !["pc"] = "publish", !["rem"] = th[t].rem]
    BY CallFacts DEF ThreadRec
  <2> QED BY <1>1, <1>2, <2>1, CallFacts, ReplaceStep DEF ThreadRec
<1>3. pc \in {"publish", "bail"} /\ (pc = "publish" => item[th[t].loc].version = th[t].ver)
  OBVIOUS
<1> HIDE DEF pc
<1> QED
  BY <1>1, <1>2, <1>3, LockStep

\* Under the lock the published item does not change, so the update is applied to it.
LEMMA NumericCheckStep == ASSUME IInv, NEW t \in Threads, NumericCheck(t) PROVE IInv'
<1> DEFINE r == [th[t] EXCEPT !["pc"] = "numeric", !["locked"] = FALSE]
           q == [th[t] EXCEPT !["pc"] = "store"]
<1>1. /\ UNCHANGED <<slot, cells, ev>> /\ th[t].pc = "check"
      /\ \/ /\ item' = Unlocked(th[t].loc) /\ UNCHANGED ledger /\ th' = [th EXCEPT ![t] = r]
         \/ /\ slot = th[t].loc /\ UNCHANGED item /\ th' = [th EXCEPT ![t] = q]
            /\ ledger' = [ledger EXCEPT !["value"] = Apply(th[t].op, ledger.value)]
  BY Zenon DEF NumericCheck, Set
<1>2. /\ th[t].locked /\ th[t].op \in Arith /\ th[t].loc \in Cells /\ item[th[t].loc].num
      /\ item[th[t].loc] \in ItemRec
  BY <1>1, CallFacts DEF StepOf, AtPcs
<1>3. CASE item' = Unlocked(th[t].loc) /\ UNCHANGED ledger /\ th' = [th EXCEPT ![t] = r]
  <2>1. /\ r \in ThreadRec /\ r.pc = "numeric" /\ r.loc = th[t].loc /\ r.new = th[t].new
        /\ ~r.locked /\ r.op = th[t].op
    BY <1>1, CallFacts DEF ThreadRec, Pcs
  <2>2. StepOf(r)
    BY <1>2, <2>1 DEF StepOf, AtPcs, CasPcs, UpdatePcs, ReplacePcs, ReadPcs
  <2> QED BY <1>1, <1>2, <1>3, <2>1, <2>2, UnlockStep
<1>4. CASE /\ slot = th[t].loc /\ UNCHANGED item /\ th' = [th EXCEPT ![t] = q]
           /\ ledger' = [ledger EXCEPT !["value"] = Apply(th[t].op, ledger.value)]
  <2> USE DEF IInv
  <2>1. /\ q \in ThreadRec /\ q.pc = "store" /\ q.loc = th[t].loc /\ q.new = th[t].new
        /\ q.locked /\ q.op = th[t].op
    BY <1>2, CallFacts DEF ThreadRec, Pcs, AtPcs, UpdatePcs
  <2>2. th'[t] = q /\ \A u \in Threads : u # t => th'[u] = th[u]
    BY <1>4 DEF TypeOK
  <2>3. \A u \in Threads : th[u].pc = "store" /\ th[u].loc = slot => u = t
    BY <1>2, <1>4, CallFacts DEF Exclusive, StepOf, UpdatePcs
  <2>4. ledger.num /\ ledger.value = item[slot].value /\ ledger # None
    BY <1>1, <1>2, <1>4, <2>3, NumericAssumption DEF LedgerKept, CellOrNone, Cells
  <2> USE <2>1, <2>2
  <2> HIDE DEF q
  <2>5. /\ ledger' \in Contents /\ ledger'.num /\ ledger'.value = Apply(th[t].op, item[slot].value)
        /\ ledger' # None
    <3>1. ledger \in [num : {TRUE}, value : Numbers]
      BY <2>4 DEF TypeOK, Contents
    <3>2. Apply(th[t].op, ledger.value) \in Numbers
      BY <3>1, ApplyNumber
    <3>3. ledger' \in [num : {TRUE}, value : Numbers] /\ ledger'.value = Apply(th[t].op, ledger.value)
      BY <1>4, <3>1, <3>2
    <3> QED BY <3>3, <2>4, NumericAssumption DEF Contents
  <2>6. TypeOK' /\ Allocated' /\ Private'
    BY <1>1, <1>4, <2>5, q \in ThreadRec DEF TypeOK, Allocated, Private, FreshPcs
  <2>7. ThreadSteps' /\ CopySteps'
    BY <1>1, <1>2, <1>4 DEF ThreadSteps, StepOf, CopySteps, AtPcs, CasPcs, UpdatePcs, ReplacePcs,
       LockedPcs, ReadPcs
  <2>8. Exclusive' /\ OddIsHeld' /\ CrcFollows'
    BY <1>1, <1>2, <1>4 DEF Exclusive, OddIsHeld, HeldBy, CrcFollows
  <2>9. LedgerKept'
    <3>1. \A u \in Threads : th'[u].pc = "store" /\ th'[u].loc = slot => u = t
      BY <2>3
    <3>2. th'[t].pc = "store" /\ th'[t].loc = slot /\ th'[t].op = th[t].op
      BY <1>4
    <3> QED BY <1>1, <1>2, <1>4, <2>4, <2>5, <3>1, <3>2 DEF LedgerKept
  <2>10. ASSUME NEW c, NEW v PROVE Untouched(c, v)' <=> Untouched(c, v)
    BY <1>1, <1>4 DEF Untouched
  <2>11. ReadsOneVersion' /\ TokensHold' /\ ReadsAgree'
    BY <1>1, <1>2, <1>4, <2>10 DEF ReadsOneVersion, ReadOf, TokensHold, TokenOf, ReadsAgree, ReadPcs,
       ReplacePcs, Arith
  <2> QED BY <2>6, <2>7, <2>8, <2>9, <2>11
<1> QED
  BY <1>1, <1>3, <1>4

-----------------------------------------------------------------------------
(* The two stores of an update, under the lock. *)

\* A reader of the earlier version is to find it changed, and nobody copies the
\* item meanwhile.
LEMMA StoreStep ==
  ASSUME IInv, NEW t \in Threads, NEW pc \in {"crc", "unlock"}, NEW it \in ItemRec,
         th[t].pc \in {"store", "crc"}, pc = "crc" <=> th[t].pc = "store",
         th' = [th EXCEPT ![t] = [th[t] EXCEPT !["pc"] = pc]],
         item' = [item EXCEPT ![th[t].loc] = it], UNCHANGED <<slot, cells, ev, ledger>>,
         it.num = item[th[t].loc].num, it.version = item[th[t].loc].version,
         pc = "unlock" => it.crc = it.value /\ it.value = item[th[t].loc].value,
         pc = "crc" => it.value = Apply(th[t].op, item[th[t].loc].value)
  PROVE  IInv'
<1> DEFINE c == th[t].loc
           r == [th[t] EXCEPT !["pc"] = pc]
<1> USE DEF IInv
<1>1. /\ th[t].locked /\ th[t].op \in Arith /\ c \in Cells /\ item[c].num /\ item[c] \in ItemRec
      /\ c # None
  BY CallFacts DEF StepOf, AtPcs, UpdatePcs
<1>2. /\ r \in ThreadRec /\ r.pc = pc /\ r.loc = c /\ r.new = th[t].new /\ r.op = th[t].op
      /\ r.locked
  BY <1>1, CallFacts DEF ThreadRec, Pcs, AtPcs, UpdatePcs
<1>3. /\ th' = [th EXCEPT ![t] = r] /\ th'[t] = r /\ \A u \in Threads : u # t => th'[u] = th[u]
  BY DEF TypeOK
<1> HIDE DEF r
<1>4. TypeOK' /\ item'[c] = it /\ \A d \in Cells : d # c => item'[d] = item[d]
  <2>1. it.value \in Numbers
    BY <1>1, ApplyNumber DEF TypeOK
  <2> QED BY <1>1, <1>2, <1>3, <2>1 DEF TypeOK
<1>5. /\ \A u \in Threads : u # t /\ th[u].locked => th[u].loc # c
      /\ ev.locked => ev.loc # c
      /\ ev.pc \in CopyPcs => ev.new # c
  BY <1>1 DEF Exclusive, Private
<1>6. Allocated' /\ Private'
  BY <1>2, <1>3 DEF Allocated, Private, FreshPcs
<1>7. ThreadSteps'
  <2>1. StepOf(th[t])'
    <3>1. /\ th'[t].pc = pc /\ th'[t].loc = c /\ th'[t].op \in Arith /\ th'[t].locked
          /\ item'[c].num
      BY <1>1, <1>2, <1>3, <1>4
    <3> QED BY <1>1, <3>1
         DEF StepOf, AtPcs, CasPcs, UpdatePcs, ReplacePcs, LockedPcs, ReadPcs
  <2>2. ASSUME NEW u \in Threads, u # t PROVE StepOf(th[u])'
    <3>1. /\ StepOf(th[u]) /\ th'[u] = th[u] /\ th[u].loc \in CellOrNone
      BY <1>3, <2>2, CallFacts DEF ThreadRec
    <3>2. th[u].loc # None => /\ item'[th[u].loc].num = item[th[u].loc].num
                              /\ item'[th[u].loc].version = item[th[u].loc].version
      BY <1>4, <3>1 DEF CellOrNone
    <3> QED BY <3>1, <3>2 DEF StepOf, AtPcs, ReplacePcs
  <2> QED BY <2>1, <2>2 DEF ThreadSteps
<1>8. CopySteps'
  <2>1. ev.pc \in {"copy", "release"} \cup CopiedPcs => ev.loc # c
    BY <1>1, <1>5 DEF CopySteps
  <2>2. ev.new \in CellOrNone /\ ev.loc \in CellOrNone
    BY DEF TypeOK, EvRec
  <2> QED BY <1>1, <1>4, <1>5, <2>1, <2>2 DEF CopySteps, CopyPcs, CopiedPcs, CellOrNone, Private
<1>9. Exclusive' /\ OddIsHeld'
  BY <1>1, <1>2, <1>3, <1>4 DEF Exclusive, OddIsHeld, HeldBy
<1>10. CrcFollows'
  <2>1. ASSUME NEW d \in Cells, d # c
        PROVE  item'[d].crc = item'[d].value \/ \E u \in Threads : th'[u].pc = "crc" /\ th'[u].loc = d
    BY <1>3, <1>4, <2>1 DEF CrcFollows
  <2>2. it.crc = it.value \/ (th'[t].pc = "crc" /\ th'[t].loc = c)
    BY <1>2, <1>3
  <2> QED BY <1>4, <2>1, <2>2 DEF CrcFollows
<1>11. LedgerKept'
  <2>1. \A u \in Threads : u # t /\ th[u].pc = "store" => th[u].loc # c
    BY <1>5, CallFacts DEF StepOf, UpdatePcs
  <2>2. CASE slot = c
    <3>1. th'[t].pc # "store"
      BY <1>2, <1>3
    <3>2. it.value = ledger.value
      BY <1>1, <2>1, <2>2 DEF LedgerKept
    <3> QED BY <1>3, <1>4, <2>1, <2>2, <3>1, <3>2 DEF LedgerKept
  <2>3. CASE slot # c
    BY <1>1, <1>2, <1>3, <1>4, <2>3 DEF LedgerKept, TypeOK, CellOrNone
  <2> QED BY <2>2, <2>3
<1>12. ASSUME NEW d \in Cells, NEW v \in Nat PROVE Untouched(d, v)' => d # c /\ Untouched(d, v)
  <2> SUFFICES ASSUME Untouched(d, v)' PROVE d # c /\ Untouched(d, v)
    OBVIOUS
  <2>1. d # c
    BY <1>2, <1>3 DEF Untouched
  <2>2. item[d].version \in {v, v + 1}
    BY <1>4, <2>1 DEF Untouched
  <2>3. \A u \in Threads : th[u].pc \in {"crc", "unlock"} => th[u].loc # d
    BY <1>3, <2>1 DEF Untouched
  <2> QED BY <2>1, <2>2, <2>3 DEF Untouched
<1>13. ASSUME NEW u \in Threads, u # t PROVE ReadOf(th[u])' /\ TokenOf(th[u])'
  <2>1. /\ th[u] \in ThreadRec /\ StepOf(th[u]) /\ ReadOf(th[u]) /\ TokenOf(th[u])
        /\ th'[u] = th[u] /\ (th[u].pc \in AtPcs => th[u].loc \in Cells)
    BY <1>3, <1>13, CallFacts
  <2>2. th[u].loc \in Cells => /\ item'[th[u].loc].num = item[th[u].loc].num
                               /\ item'[th[u].loc].version = item[th[u].loc].version
    BY <1>1, <1>4
  <2>3. th[u].loc \in Cells \ {c} => /\ item'[th[u].loc].value = item[th[u].loc].value
                                     /\ item'[th[u].loc].crc = item[th[u].loc].crc
    BY <1>4
  <2>4. ReadOf(th[u])'
    <3> SUFFICES ASSUME th[u].pc \in ReadPcs PROVE ReadOf(th[u])'
      BY <2>1 DEF ReadOf
    <3>1. th[u].loc \in Cells /\ th[u].v1 \in Nat
      BY <2>1 DEF AtPcs, CasPcs, ThreadRec
    <3>2. Untouched(th[u].loc, th[u].v1)' => th[u].loc # c /\ Untouched(th[u].loc, th[u].v1)
      BY <1>12, <2>1, <3>1
    <3> QED BY <2>1, <2>2, <2>3, <3>1, <3>2 DEF ReadOf
  <2>5. TokenOf(th[u])'
    BY <1>1, <1>12, <2>1, <2>2, <2>3 DEF TokenOf, AtPcs, CasPcs, ReplacePcs, ThreadRec
  <2> QED BY <2>4, <2>5
<1>14. ReadOf(th[t])' /\ TokenOf(th[t])' /\ th'[t].pc # "read"
  BY <1>1, <1>2, <1>3 DEF ReadOf, TokenOf, ReadPcs, ReplacePcs, Arith
<1>15. ReadsOneVersion' /\ TokensHold' /\ ReadsAgree'
  BY <1>3, <1>13, <1>14 DEF ReadsOneVersion, TokensHold, ReadsAgree
<1> QED BY <1>4, <1>6, <1>7, <1>8, <1>9, <1>10, <1>11, <1>15

\* The first store of an update.
LEMMA UpdateValueStep == ASSUME IInv, NEW t \in Threads, UpdateValue(t) PROVE IInv'
<1> DEFINE c == th[t].loc
           it == [item[c] EXCEPT !["value"] = Apply(th[t].op, item[c].value)]
<1>1. /\ UNCHANGED <<slot, cells, ev, ledger>> /\ th[t].pc = "store"
      /\ item' = [item EXCEPT ![c] = it] /\ th' = [th EXCEPT ![t] = [th[t] EXCEPT !["pc"] = "crc"]]
  BY Zenon DEF UpdateValue, Set
<1>2. c \in Cells /\ item[c] \in ItemRec /\ th[t].locked
  BY <1>1, CallFacts DEF AtPcs, UpdatePcs, StepOf
<1>3. item[c].value \in Numbers
  BY <1>1, <1>2, CallFacts DEF IInv, TypeOK, StepOf
<1>4. it \in ItemRec /\ it.num = item[c].num /\ it.version = item[c].version
      /\ it.value = Apply(th[t].op, item[c].value)
  BY <1>2, <1>3, ApplyNumber DEF ItemRec, Vals
<1> HIDE DEF it
<1> QED BY <1>1, <1>4, StoreStep

\* The second.
LEMMA UpdateCrcStep == ASSUME IInv, NEW t \in Threads, UpdateCrc(t) PROVE IInv'
<1> DEFINE c == th[t].loc
           it == [item[c] EXCEPT !["crc"] = item[c].value]
<1>1. /\ UNCHANGED <<slot, cells, ev, ledger>> /\ th[t].pc = "crc"
      /\ item' = [item EXCEPT ![c] = it] /\ th' = [th EXCEPT ![t] = [th[t] EXCEPT !["pc"] = "unlock"]]
  BY Zenon DEF UpdateCrc, Set
<1>2. c \in Cells /\ item[c] \in ItemRec
  BY <1>1, CallFacts DEF AtPcs, UpdatePcs
<1>3. /\ it \in ItemRec /\ it.num = item[c].num /\ it.version = item[c].version
      /\ it.value = item[c].value /\ it.crc = item[c].value
  BY <1>2 DEF ItemRec
<1> HIDE DEF it
<1> QED BY <1>1, <1>3, StoreStep

\* version + 2: what was read at the earlier version no longer stands.
LEMMA UpdateUnlockStep == ASSUME IInv, NEW t \in Threads, UpdateUnlock(t) PROVE IInv'
<1> DEFINE c == th[t].loc
           n == item[c].version + 1
<1>1. /\ UNCHANGED <<slot, cells, ev, ledger>> /\ th[t].pc = "unlock"
      /\ item' = [item EXCEPT ![c] = [item[c] EXCEPT !["version"] = n]]
      /\ th' = [th EXCEPT ![t] = Idle]
  BY Zenon DEF UpdateUnlock, Done, Set
<1>2. /\ c \in Cells /\ item[c] \in ItemRec /\ item[c].version \in Nat /\ th[t].pc \in AtPcs
      /\ item[c].num /\ th[t].locked
  BY <1>1, CallFacts DEF AtPcs, UpdatePcs, ItemRec, StepOf
<1>3. ~Even(item[c].version)
  BY <1>2 DEF IInv, OddIsHeld, HeldBy, Private, CopyPcs, CopiedPcs
<1>4. n \in Nat /\ Even(n) /\ n = item[c].version + 1
  BY <1>2, <1>3, EvenFacts
<1> HIDE DEF n
<1>5. \A v \in Nat : Even(v) /\ item[c].version >= v =>
           n >= v /\ (n \in {v, v + 1} => item[c].version \in {v, v + 1} /\ th[t].pc # "unlock")
  <2> SUFFICES ASSUME NEW v \in Nat, Even(v), item[c].version >= v PROVE n > v /\ n # v + 1
    BY <1>2, <1>4
  <2> QED BY <1>2, <1>4, EvenFacts
<1>6. th'[t] = Idle
  BY <1>1 DEF IInv, TypeOK
<1>7. StepOf(th[t])' /\ TokenOf(th[t])'
  BY <1>6, IdleFacts DEF StepOf, TokenOf, AtPcs, CasPcs, ReplacePcs, UpdatePcs, ReadPcs
<1>8. Idle.pc \notin {"store", "crc", "unlock"} \cup ReadPcs /\ Idle.pc \notin FreshPcs
  BY IdleFacts DEF FreshPcs, ReadPcs
<1> QED
  BY <1>1, <1>2, <1>4, <1>5, <1>7, <1>8, IdleFacts, VersionStep

\* replace_at drops its guard, if it had one.
LEMMA ReplaceDoneStep == ASSUME IInv, NEW t \in Threads, ReplaceDone(t) PROVE IInv'
<1>1. /\ UNCHANGED <<slot, cells, ev, ledger>> /\ th[t].pc = "bail" /\ Done(t)
      /\ item' = IF th[t].locked THEN Unlocked(th[t].loc) ELSE item
  BY Zenon DEF ReplaceDone
<1>2. StepOf(Idle)
  BY IdleFacts DEF StepOf, AtPcs, CasPcs, UpdatePcs, ReplacePcs, ReadPcs
<1>3. CASE th[t].locked
  BY <1>1, <1>2, <1>3, IdleFacts, UnlockStep DEF Done, Set
<1> QED
  BY <1>1, <1>3, DoneStep

-----------------------------------------------------------------------------
(* The steps that change the slot. *)

\* A call unlinks the entry, or publishes what it has written, or neither.
LEMMA PublishStep ==
  ASSUME IInv, NEW t \in Threads, NEW r \in ThreadRec,
         th' = [th EXCEPT ![t] = r], UNCHANGED <<cells, item, ev>>,
         \/ UNCHANGED <<slot, ledger>>
         \/ slot' = None /\ ledger' = None
         \/ slot' = th[t].new /\ th[t].pc \in FreshPcs /\ ledger' = Holds(th[t].new),
         th[t].pc \notin {"store", "crc", "unlock"},
         r.pc \notin {"store", "crc", "unlock"} \cup FreshPcs,
         r.locked <=> th[t].locked, r.loc = th[t].loc \/ (r.loc = None /\ ~r.locked),
         r.new \in {th[t].new, None}, StepOf(r), ReadOf(r), TokenOf(r), r.pc # "read"
  PROVE  IInv'
<1> USE DEF IInv
<1>1. /\ th'[t] = r /\ \A u \in Threads : u # t => th'[u] = th[u]
      /\ th[t].new \in CellOrNone
  BY DEF TypeOK, ThreadRec
<1>2. ASSUME slot' = th[t].new, th[t].pc \in FreshPcs, ledger' = Holds(th[t].new)
      PROVE  TypeOK' /\ Allocated' /\ Private' /\ LedgerKept'
  <2>1. /\ th[t].new \in Cells /\ th[t].new # None
        /\ \A u \in Threads : th[u].loc # th[t].new
    BY <1>1, <1>2 DEF Private, CellOrNone
  <2>2. item[th[t].new] \in ItemRec /\ (item[th[t].new].num => item[th[t].new].value \in Numbers)
    BY <2>1 DEF TypeOK
  <2>3. /\ ledger' \in Contents /\ ledger'.num = item[th[t].new].num
        /\ ledger'.value = item[th[t].new].value
    BY <1>2, <2>2 DEF Holds, Contents, ItemRec, Vals
  <2>4. TypeOK'
    BY <1>2, <1>1, <2>3 DEF TypeOK
  <2>5. Allocated' /\ Private'
    BY <1>1, <1>2, <2>1 DEF Allocated, Private
  <2>6. LedgerKept'
    <3>1. \A u \in Threads : th'[u].pc = "store" => th'[u].loc # th[t].new
      BY <1>1, <2>1
    <3> QED BY <1>1, <1>2, <2>1, <2>3, <3>1, NumericAssumption DEF LedgerKept
  <2> QED BY <2>4, <2>5, <2>6
<1>3. ASSUME slot' = None /\ ledger' = None
      PROVE  TypeOK' /\ Allocated' /\ Private' /\ LedgerKept'
  BY <1>1, <1>3 DEF TypeOK, CellOrNone, Allocated, Private, LedgerKept
<1>4. ASSUME UNCHANGED <<slot, ledger>>
      PROVE  TypeOK' /\ Allocated' /\ Private' /\ LedgerKept'
  BY <1>1, <1>4 DEF TypeOK, Allocated, Private, LedgerKept
<1>5. TypeOK' /\ Allocated' /\ Private' /\ LedgerKept'
  BY <1>2, <1>3, <1>4
<1>6. Exclusive' /\ OddIsHeld'
  BY <1>1 DEF Exclusive, OddIsHeld, HeldBy
<1>7. CrcFollows' /\ CopySteps' /\ ThreadSteps'
  BY <1>1 DEF CrcFollows, CopySteps, ThreadSteps, StepOf
<1>8. ASSUME NEW c, NEW v PROVE Untouched(c, v)' <=> Untouched(c, v)
  BY <1>1 DEF Untouched
<1>9. ReadsOneVersion' /\ TokensHold' /\ ReadsAgree'
  BY <1>1, <1>8 DEF ReadsOneVersion, ReadOf, TokensHold, TokenOf, ReadsAgree
<1> QED BY <1>5, <1>6, <1>7, <1>9

\* cas_location_at publishes the replacement, or fails.
LEMMA SwapSlotStep == ASSUME IInv, NEW t \in Threads, SwapSlot(t) PROVE IInv'
<1> DEFINE r == [th[t] EXCEPT !["pc"] = "bail"]
<1>1. /\ UNCHANGED <<cells, item, ev>> /\ th[t].pc = "publish" /\ th' = [th EXCEPT ![t] = r]
      /\ \/ UNCHANGED <<slot, ledger>>
         \/ slot' = th[t].new /\ ledger' = IF th[t].new = None THEN None ELSE Holds(th[t].new)
  BY Zenon DEF SwapSlot, Publish, Set
<1>2. th[t].new # None
  BY <1>1 DEF IInv, Private, FreshPcs
<1>3. /\ r \in ThreadRec /\ r.pc = "bail" /\ r.loc = th[t].loc /\ r.new = th[t].new
      /\ r.op = th[t].op /\ r.val = th[t].val /\ r.ver = th[t].ver /\ r.locked = th[t].locked
  BY CallFacts DEF ThreadRec, Pcs, AtPcs, ReplacePcs
<1> HIDE DEF r
<1>4. StepOf(r) /\ ReadOf(r)
  BY <1>1, <1>3, CallFacts
     DEF StepOf, ReadOf, AtPcs, CasPcs, UpdatePcs, ReplacePcs, ReadPcs, LockedPcs
<1>5. TokenOf(r)
  BY <1>1, <1>3, CallFacts DEF TokenOf, AtPcs, ReplacePcs, ReadPcs
<1>6. /\ th[t].pc \notin {"store", "crc", "unlock"} /\ th[t].pc \in FreshPcs
      /\ r.pc \notin {"store", "crc", "unlock"} \cup FreshPcs /\ r.pc # "read"
  BY <1>1, <1>3 DEF FreshPcs
<1> QED
  BY <1>1, <1>2, <1>3, <1>4, <1>5, <1>6, PublishStep

\* insert publishes what it wrote, or rolls back.
LEMMA SetPublishStep == ASSUME IInv, NEW t \in Threads, SetPublish(t) PROVE IInv'
<1>1. /\ UNCHANGED <<cells, item, ev>> /\ th[t].pc = "set" /\ th' = [th EXCEPT ![t] = Idle]
      /\ \/ UNCHANGED <<slot, ledger>>
         \/ slot' = th[t].new /\ ledger' = IF th[t].new = None THEN None ELSE Holds(th[t].new)
  BY Zenon DEF SetPublish, Publish, Done, Set
<1>2. th[t].new # None /\ ~th[t].locked
  BY <1>1, CallFacts DEF IInv, Private, FreshPcs, LockedPcs, UpdatePcs
<1>3. StepOf(Idle) /\ ReadOf(Idle) /\ TokenOf(Idle)
  BY IdleFacts DEF StepOf, ReadOf, TokenOf, AtPcs, CasPcs, UpdatePcs, ReplacePcs, ReadPcs
<1>4. /\ th[t].pc \notin {"store", "crc", "unlock"} /\ th[t].pc \in FreshPcs
      /\ Idle.pc \notin {"store", "crc", "unlock"} \cup FreshPcs /\ Idle.pc # "read"
  BY <1>1, IdleFacts DEF FreshPcs
<1> QED
  BY <1>1, <1>2, <1>3, <1>4, IdleFacts, PublishStep

\* delete empties the slot.
LEMMA DeleteStep == ASSUME IInv, NEW t \in Threads, Delete(t) PROVE IInv'
<1>1. /\ UNCHANGED <<cells, item, ev>> /\ th[t].pc = "idle" /\ slot' = None /\ ledger' = None
      /\ th' = th
  BY DEF Delete, Publish
<1>2. th' = [th EXCEPT ![t] = th[t]]
  BY <1>1 DEF IInv, TypeOK
<1>3. /\ th[t].pc \notin {"store", "crc", "unlock"} \cup FreshPcs /\ th[t].pc # "read"
  BY <1>1 DEF FreshPcs
<1> QED
  BY <1>1, <1>2, <1>3, CallFacts, PublishStep

\* reserve_and_define: a cell nobody knows is filled.
LEMMA ReserveStep ==
  ASSUME IInv, NEW t \in Threads, NEW content \in Contents, NEW pc \in {"pin", "set"},
         cells < MaxCells, cells' = cells + 1,
         item' = [item EXCEPT ![cells + 1] = Defined(content)],
         th' = [th EXCEPT ![t] = [th[t] EXCEPT !["pc"] = pc, !["new"] = cells + 1]],
         UNCHANGED <<slot, ev, ledger>>,
         th[t].pc \in {"reserve", "idle", "create"}, pc = "pin" <=> th[t].pc = "reserve"
  PROVE  IInv'
<1> DEFINE d == cells + 1
           r == [th[t] EXCEPT !["pc"] = pc, !["new"] = d]
<1> USE DEF IInv
<1>1. /\ d \in Cells /\ d # None /\ cells \in Nat
  BY NumericAssumption DEF Cells, TypeOK
<1>2. /\ r \in ThreadRec /\ r.pc = pc /\ r.loc = th[t].loc /\ r.new = d /\ r.op = th[t].op
      /\ r.val = th[t].val /\ r.ver = th[t].ver /\ r.locked = th[t].locked
  BY <1>1, CallFacts DEF ThreadRec, Pcs, FreshPcs, CellOrNone
<1>3. /\ th' = [th EXCEPT ![t] = r] /\ th'[t] = r /\ \A u \in Threads : u # t => th'[u] = th[u]
      /\ ~th[t].locked /\ ~r.locked
  BY CallFacts DEF TypeOK, ThreadRec, LockedPcs, UpdatePcs
<1> HIDE DEF r
<1>4. /\ item'[d].num = content.num /\ item'[d].value = content.value
      /\ item'[d].crc = content.value /\ item'[d].version = 0
      /\ \A c \in Cells : c # d => item'[c] = item[c]
  BY <1>1 DEF Defined, TypeOK
<1>5. Defined(content) \in ItemRec /\ (content.num => content.value \in Numbers)
  BY DEF Contents, Defined, ItemRec, Vals
<1>6. TypeOK'
  <2>1. item' \in [Cells -> ItemRec]
    BY <1>1, <1>5 DEF TypeOK
  <2>2. \A c \in Cells : item'[c].num => item'[c].value \in Numbers
    BY <1>4, <1>5 DEF TypeOK
  <2>3. cells' \in 0..MaxCells
    BY <1>1 DEF Cells
  <2>4. th' \in [Threads -> ThreadRec]
    BY <1>2, <1>3 DEF TypeOK
  <2> QED BY <2>1, <2>2, <2>3, <2>4 DEF TypeOK
<1>7. /\ slot # d /\ ev.loc # d /\ ev.new # d
      /\ \A u \in Threads : th[u].loc # d /\ th[u].new # d
  <2>1. \A c \in Cells : c <= cells => c # d
    BY <1>1 DEF Cells
  <2> QED BY <1>1, <2>1 DEF Allocated, TypeOK, ThreadRec, EvRec, CellOrNone
<1>8. Allocated' /\ Private'
  <2>1. \A c \in CellOrNone : (c # None => c <= cells) => (c # None => c <= cells')
    BY <1>1 DEF CellOrNone, Cells
  <2>2. Allocated'
    BY <1>1, <1>2, <1>3, <2>1 DEF Allocated, TypeOK, ThreadRec, EvRec
  <2>3. Private'
    <3>1. th[t].pc \notin FreshPcs /\ th'[t].loc = th[t].loc /\ th'[t].new = d
      BY <1>2, <1>3 DEF FreshPcs
    <3> QED BY <1>1, <1>3, <1>7, <3>1 DEF Private
  <2> QED BY <2>2, <2>3
<1>9. ThreadSteps' /\ CopySteps'
  <2>1. StepOf(th[t])'
    BY <1>2, <1>3, <1>4, <1>7, CallFacts
       DEF StepOf, ThreadRec, CellOrNone, AtPcs, CasPcs, UpdatePcs, ReplacePcs, ReadPcs
  <2>2. ASSUME NEW u \in Threads, u # t PROVE StepOf(th[u])'
    <3>1. th'[u] = th[u] /\ th[u] \in ThreadRec /\ StepOf(th[u])
      BY <1>3, <2>2, CallFacts
    <3>2. th[u].loc # None => item'[th[u].loc] = item[th[u].loc]
      BY <1>4, <1>7, <3>1 DEF ThreadRec, CellOrNone
    <3> QED BY <3>1, <3>2 DEF StepOf, AtPcs, ReplacePcs
  <2>3. CopySteps'
    BY <1>2, <1>3, <1>4, <1>7
       DEF CopySteps, TypeOK, EvRec, CellOrNone, CopyPcs, CopiedPcs, Private
  <2> QED BY <2>1, <2>2, <2>3 DEF ThreadSteps
<1>10. Exclusive' /\ CrcFollows' /\ LedgerKept'
  <2>1. Exclusive'
    <3>1. \A u \in Threads : th'[u].locked => u # t /\ th'[u] = th[u]
      BY <1>3
    <3> QED BY <3>1 DEF Exclusive
  <2>2. \A u \in Threads : /\ th[u].pc \in {"crc", "store"} <=> th'[u].pc \in {"crc", "store"}
                           /\ th[u].pc \in {"crc", "store"} => th'[u] = th[u]
    BY <1>2, <1>3
  <2>3. CrcFollows'
    BY <1>4, <2>2 DEF CrcFollows
  <2>4. LedgerKept'
    BY <1>4, <1>7, <2>2 DEF LedgerKept, TypeOK, CellOrNone
  <2> QED BY <2>1, <2>3, <2>4
<1>11. OddIsHeld'
  <2>1. \A c \in Cells : HeldBy(c)' <=> HeldBy(c)
    <3>1. \A u \in Threads : th'[u].locked \/ th[u].locked => th'[u] = th[u]
      BY <1>3
    <3> QED BY <3>1 DEF HeldBy
  <2>2. ~HeldBy(d) /\ Even(0)
    BY <1>7 DEF HeldBy, Even
  <2> QED BY <1>1, <1>4, <2>1, <2>2 DEF OddIsHeld
<1>12. ASSUME NEW c \in Cells, c # d, NEW v PROVE Untouched(c, v)' <=> Untouched(c, v)
  <2>1. \A u \in Threads : th'[u].pc \in {"crc", "unlock"} \/ th[u].pc \in {"crc", "unlock"} =>
                              th'[u] = th[u]
    BY <1>2, <1>3
  <2> QED BY <1>4, <1>12, <2>1 DEF Untouched
<1>13. ASSUME NEW u \in Threads, u # t PROVE ReadOf(th[u])' /\ TokenOf(th[u])'
  <2>1. /\ ReadOf(th[u]) /\ TokenOf(th[u]) /\ StepOf(th[u]) /\ th'[u] = th[u] /\ th[u].loc # d
        /\ th[u].pc \in AtPcs => th[u].loc \in Cells
    BY <1>3, <1>7, <1>13, CallFacts
  <2> QED BY <1>4, <1>12, <2>1 DEF ReadOf, TokenOf, AtPcs, CasPcs, ReplacePcs
<1>14. ReadOf(th[t])' /\ TokenOf(th[t])' /\ th'[t].pc # "read"
  <2>1. /\ TokenOf(th[t]) /\ StepOf(th[t]) /\ th[t].loc # d /\ th[t].ver \in Nat
        /\ th[t].pc \in AtPcs => th[t].loc \in Cells
    BY <1>7, CallFacts DEF ThreadRec
  <2>2. ASSUME pc = "pin" PROVE TokenOf(th[t])'
    <3>1. th[t].loc \in Cells /\ item'[th[t].loc] = item[th[t].loc] /\ th[t].pc = "reserve"
      BY <1>4, <2>1, <2>2 DEF AtPcs
    <3>2. /\ th'[t].pc = "pin" /\ th'[t].loc = th[t].loc /\ th'[t].op = th[t].op
          /\ th'[t].ver = th[t].ver /\ th'[t].val = th[t].val
      BY <1>2, <1>3, <2>2
    <3> QED BY <1>12, <2>1, <3>1, <3>2 DEF TokenOf, AtPcs, ReplacePcs, ReadPcs
  <2>3. ASSUME pc = "set" PROVE TokenOf(th[t])'
    BY <1>2, <1>3, <2>3 DEF TokenOf, AtPcs, CasPcs, ReplacePcs, UpdatePcs, ReadPcs
  <2>4. ReadOf(th[t])' /\ th'[t].pc # "read"
    BY <1>2, <1>3 DEF ReadOf, ReadPcs
  <2> QED BY <2>2, <2>3, <2>4
<1>15. ReadsOneVersion' /\ TokensHold' /\ ReadsAgree'
  BY <1>3, <1>13, <1>14 DEF ReadsOneVersion, TokensHold, ReadsAgree
<1> QED BY <1>6, <1>8, <1>9, <1>10, <1>11, <1>15

\* A reservation fills a cell, or fails for want of space.
LEMMA ReservingStep ==
  ASSUME IInv, NEW t \in Threads, NEW content \in Contents, NEW pc \in {"pin", "set"},
         Reserving(t, content, pc), UNCHANGED <<slot, ev, ledger>>,
         th[t].pc \in {"reserve", "idle", "create"}, pc = "pin" <=> th[t].pc = "reserve"
  PROVE  IInv'
<1>1. \/ Done(t) /\ UNCHANGED <<cells, item>>
      \/ /\ cells < MaxCells /\ cells' = cells + 1
         /\ item' = [item EXCEPT ![cells + 1] = Defined(content)]
         /\ th' = [th EXCEPT ![t] = [th[t] EXCEPT !["pc"] = pc, !["new"] = cells + 1]]
  BY Zenon DEF Reserving, Set
<1>2. CASE Done(t) /\ UNCHANGED <<cells, item>>
  BY <1>2, CallFacts, DoneStep DEF LockedPcs, UpdatePcs
<1> QED
  BY <1>1, <1>2, ReserveStep

\* The replacement is a number.
LEMMA ReserveCallStep == ASSUME IInv, NEW t \in Threads, Reserve(t) PROVE IInv'
<1>1. /\ th[t].pc = "reserve" /\ Reserving(t, Replacement(th[t]), "pin")
      /\ UNCHANGED <<slot, ev, ledger>>
  BY DEF Reserve
<1>2. th[t].val \in Numbers
  BY <1>1, CallFacts DEF StepOf
<1>3. (th[t].val + 1) % Modulus \in Numbers
  BY <1>2, NumericAssumption DEF Numbers
<1>4. Replacement(th[t]) \in Contents
  BY <1>2, <1>3 DEF Replacement, Contents
<1> QED
  BY <1>1, <1>4, ReservingStep

\* What set writes is something a key may hold.
LEMMA SetReserveStep == ASSUME IInv, NEW t \in Threads, SetReserve(t) PROVE IInv'
<1>1. [num |-> TRUE, value |-> 0] \in Contents
  BY NumericAssumption DEF Contents, Numbers
<1>2. /\ UNCHANGED <<slot, ev, ledger>> /\ th[t].pc \in {"idle", "create"}
      /\ \E content \in Contents : Reserving(t, content, "set")
  BY <1>1, NumericAssumption DEF SetReserve
<1> QED
  BY <1>2, ReservingStep

-----------------------------------------------------------------------------
(* The relocation. *)

\* What the invariant says of the relocation.
LEMMA EvFacts ==
  ASSUME IInv
  PROVE  /\ ev \in EvRec /\ ev.loc \in CellOrNone /\ ev.new \in CellOrNone
         /\ ev.pc \in CopyPcs \cup {"release"} => ev.loc \in Cells /\ item[ev.loc] \in ItemRec
         /\ ev.pc \in CopyPcs => ev.new \in Cells /\ item[ev.new] \in ItemRec /\ ev.new # ev.loc
         /\ ev.pc \notin {"copy", "release"} \cup CopiedPcs => ~ev.locked
BY DEF IInv, TypeOK, EvRec, CopySteps, Private, CellOrNone

\* A step of the relocation outside its copy: the slot is left alone or emptied.
LEMMA EvLocalStep ==
  ASSUME IInv, NEW e \in EvRec, ev' = e, UNCHANGED <<cells, item, th>>,
         UNCHANGED <<slot, ledger>> \/ (slot' = None /\ ledger' = None),
         ~ev.locked, ~e.locked, e.pc \notin CopyPcs \cup {"release"}, ev.pc # "stamp",
         e.loc \in {ev.loc, None}, e.new \in {ev.new, None}
  PROVE  IInv'
<1> USE DEF IInv
<1>1. TypeOK' /\ Allocated' /\ Private' /\ LedgerKept'
  BY DEF TypeOK, CellOrNone, Allocated, Private, LedgerKept
<1>2. ThreadSteps' /\ CopySteps' /\ Exclusive' /\ CrcFollows'
  BY DEF ThreadSteps, StepOf, CopySteps, Exclusive, CrcFollows, CopyPcs, CopiedPcs
<1>3. OddIsHeld'
  BY DEF OddIsHeld, HeldBy
<1>4. ASSUME NEW c, NEW v PROVE Untouched(c, v)' <=> Untouched(c, v)
  BY DEF Untouched
<1>5. ReadsOneVersion' /\ TokensHold' /\ ReadsAgree'
  BY <1>4 DEF ReadsOneVersion, ReadOf, TokensHold, TokenOf, ReadsAgree
<1> QED BY <1>1, <1>2, <1>3, <1>5

\* A relocation begins.
LEMMA ClaimStep == ASSUME IInv, NEW s \in Segments, NEW d \in Segments, Claim(s, d) PROVE IInv'
<1> DEFINE e == [ev EXCEPT !["pc"] = "wait", !["src"] = s, !["dst"] = d]
<1>1. ev' = e /\ ev.pc = "idle" /\ UNCHANGED <<slot, cells, item, th, ledger>>
  BY Zenon DEF Claim
<1>2. /\ e \in EvRec /\ e.pc = "wait" /\ e.loc = ev.loc /\ e.new = ev.new /\ ~e.locked
      /\ ~ev.locked
  BY <1>1, EvFacts DEF EvRec, EvPcs, CopiedPcs
<1> HIDE DEF e
<1> QED
  BY <1>1, <1>2, EvLocalStep DEF CopyPcs, CopiedPcs

\* The item is pruned.
LEMMA PruneStep == ASSUME IInv, Prune PROVE IInv'
<1> DEFINE e == [ev EXCEPT !["pc"] = "done"]
<1>1. /\ ev' = e /\ ev.pc = "wait" /\ UNCHANGED <<cells, item, th>> /\ slot' = None /\ ledger' = None
  BY Zenon DEF Prune, Publish
<1>2. /\ e \in EvRec /\ e.pc = "done" /\ e.loc = ev.loc /\ e.new = ev.new /\ ~e.locked
      /\ ~ev.locked
  BY <1>1, EvFacts DEF EvRec, EvPcs, CopiedPcs
<1> HIDE DEF e
<1> QED
  BY <1>1, <1>2, EvLocalStep DEF CopyPcs, CopiedPcs

\* A relocation ends.
LEMMA FinishStep == ASSUME IInv, Finish PROVE IInv'
<1>1. ev' = NoRelocation /\ ev.pc = "done" /\ UNCHANGED <<slot, cells, item, th, ledger>>
  BY DEF Finish
<1>2. /\ NoRelocation \in EvRec /\ NoRelocation.pc = "idle" /\ NoRelocation.loc = None
      /\ NoRelocation.new = None /\ ~NoRelocation.locked
  BY DEF NoRelocation, EvRec, EvPcs, CellOrNone
<1>3. ~ev.locked
  BY <1>1, EvFacts DEF CopiedPcs
<1> QED
  BY <1>1, <1>2, <1>3, EvLocalStep DEF CopyPcs, CopiedPcs

\* Room for a copy of the published item is taken, or there is none to copy.
LEMMA ScanStep == ASSUME IInv, Scan PROVE IInv'
<1> DEFINE e == [ev EXCEPT !["pc"] = "lock", !["loc"] = slot, !["new"] = cells + 1]
           f == [ev EXCEPT !["pc"] = "done"]
<1>1. /\ UNCHANGED <<slot, item, th, ledger>> /\ ev.pc = "wait"
      /\ \/ slot # None /\ cells < MaxCells /\ ev' = e /\ cells' = cells + 1
         \/ ev' = f /\ UNCHANGED cells
  BY Zenon DEF Scan
<1>2. ~ev.locked /\ ev \in EvRec
  BY <1>1, EvFacts DEF CopiedPcs
<1>3. CASE ev' = f /\ UNCHANGED cells
  <2>1. f \in EvRec /\ f.pc = "done" /\ f.loc = ev.loc /\ f.new = ev.new /\ ~f.locked
    BY <1>2 DEF EvRec, EvPcs
  <2> HIDE DEF f
  <2> QED BY <1>1, <1>2, <1>3, <2>1, EvLocalStep DEF CopyPcs, CopiedPcs
<1>4. CASE slot # None /\ cells < MaxCells /\ ev' = e /\ cells' = cells + 1
  <2> USE DEF IInv
  <2>1. cells + 1 \in Cells /\ cells \in Nat /\ slot \in CellOrNone /\ cells + 1 # None
    BY <1>4, NumericAssumption DEF TypeOK, Cells
  <2>2. e \in EvRec /\ e.pc = "lock" /\ e.loc = slot /\ e.new = cells + 1 /\ ~e.locked
    BY <1>2, <2>1 DEF EvRec, EvPcs, CopyPcs, CellOrNone
  <2> HIDE DEF e
  <2>3. TypeOK'
    BY <1>1, <1>4, <2>1, <2>2 DEF TypeOK, Cells
  <2>4. \A c \in CellOrNone : (c # None => c <= cells) => c # cells + 1 /\ (c # None => c <= cells')
    BY <1>4, <2>1 DEF CellOrNone, Cells
  <2>5. Allocated' /\ Private'
    BY <1>1, <1>4, <2>1, <2>2, <2>4 DEF Allocated, Private, TypeOK, ThreadRec
  <2>6. ThreadSteps' /\ CopySteps' /\ Exclusive' /\ CrcFollows' /\ LedgerKept'
    BY <1>1, <1>2, <1>4, <2>2
       DEF ThreadSteps, StepOf, CopySteps, Exclusive, CrcFollows, LedgerKept, CopyPcs, CopiedPcs
  <2>7. OddIsHeld'
    BY <1>1, <1>2, <1>4, <2>2 DEF OddIsHeld, HeldBy
  <2>8. ASSUME NEW c, NEW v PROVE Untouched(c, v)' <=> Untouched(c, v)
    BY <1>1 DEF Untouched
  <2>9. ReadsOneVersion' /\ TokensHold' /\ ReadsAgree'
    BY <1>1, <2>8 DEF ReadsOneVersion, ReadOf, TokensHold, TokenOf, ReadsAgree
  <2> QED BY <2>3, <2>5, <2>6, <2>7, <2>9
<1> QED
  BY <1>1, <1>3, <1>4

\* The version lock around a copy.
LEMMA EvVersionStep ==
  ASSUME IInv, NEW e \in EvRec, NEW n \in Nat, item[ev.loc].num,
         ev.locked \/ Even(item[ev.loc].version), ev' = e,
         item' = [item EXCEPT ![ev.loc] = [item[ev.loc] EXCEPT !["version"] = n]],
         UNCHANGED <<slot, cells, th, ledger>>,
         e.locked <=> ~Even(n), e.new = ev.new,
         \/ ev.pc = "lock" /\ e.pc = "copy" /\ e.loc = ev.loc /\ e.locked
         \/ ev.pc = "release" /\ e.pc = "done" /\ e.loc = None /\ ~e.locked,
         \A v \in Nat : Even(v) /\ item[ev.loc].version >= v =>
           n >= v /\ (n \in {v, v + 1} => item[ev.loc].version \in {v, v + 1})
  PROVE  IInv'
<1> DEFINE c == ev.loc
<1> USE DEF IInv
<1>1. /\ c \in Cells /\ item[c] \in ItemRec /\ c # None
      /\ ev.pc \in CopyPcs => ev.new # c
  BY EvFacts DEF CopyPcs, CopySteps
<1>2. /\ TypeOK'
      /\ \A d \in Cells : d # c => item'[d] = item[d]
      /\ item'[c].num /\ item'[c].value = item[c].value /\ item'[c].crc = item[c].crc
      /\ item'[c].version = n
  BY <1>1 DEF TypeOK, ItemRec
<1>3. \A u \in Threads : th[u].locked => th[u].loc # c
  BY <1>1 DEF Exclusive, OddIsHeld, HeldBy, CopyPcs, CopiedPcs
<1>4. Allocated' /\ Private'
  BY <1>1 DEF Allocated, Private, CopyPcs, CopiedPcs
<1>5. ASSUME NEW u \in Threads PROVE StepOf(th[u])'
  <2>1. th[u] \in ThreadRec /\ StepOf(th[u])
    BY CallFacts
  <2>2. th[u].loc \in Cells => item'[th[u].loc].num = item[th[u].loc].num
    BY <1>1, <1>2
  <2>3. th[u].locked => item'[th[u].loc] = item[th[u].loc]
    BY <1>2, <1>3, <2>1 DEF ThreadRec, CellOrNone, StepOf
  <2> QED BY <2>1, <2>2, <2>3 DEF StepOf, AtPcs, ReplacePcs, ThreadRec, CellOrNone
<1>6. ThreadSteps'
  BY <1>5 DEF ThreadSteps
<1>7. CopySteps' /\ Exclusive'
  BY <1>1, <1>2, <1>3 DEF CopySteps, Exclusive, CopyPcs, CopiedPcs
<1>8. OddIsHeld'
  BY <1>1, <1>2, <1>3 DEF OddIsHeld, HeldBy
<1>9. CrcFollows' /\ LedgerKept'
  BY <1>1, <1>2 DEF CrcFollows, LedgerKept, TypeOK, CellOrNone
<1>10. ASSUME NEW d \in Cells, NEW v \in Nat, Even(v), item[d].version >= v
       PROVE  item'[d].version >= v /\ (Untouched(d, v)' => Untouched(d, v))
  BY <1>10, <1>2 DEF Untouched
<1>11. ASSUME NEW u \in Threads PROVE ReadOf(th[u])' /\ TokenOf(th[u])'
  <2>1. /\ th[u] \in ThreadRec /\ StepOf(th[u]) /\ ReadOf(th[u]) /\ TokenOf(th[u])
        /\ (th[u].pc \in AtPcs => th[u].loc \in Cells)
    BY CallFacts
  <2>2. th[u].loc \in Cells => /\ item'[th[u].loc].num = item[th[u].loc].num
                               /\ item'[th[u].loc].value = item[th[u].loc].value
                               /\ item'[th[u].loc].crc = item[th[u].loc].crc
    BY <1>1, <1>2
  <2>3. ReadOf(th[u])'
    BY <1>10, <2>1, <2>2 DEF ReadOf, AtPcs, CasPcs, ThreadRec
  <2>4. TokenOf(th[u])'
    BY <1>10, <2>1, <2>2 DEF TokenOf, AtPcs, CasPcs, ReplacePcs, ThreadRec
  <2> QED BY <2>3, <2>4
<1>12. ReadsOneVersion' /\ TokensHold' /\ ReadsAgree'
  BY <1>11 DEF ReadsOneVersion, TokensHold, ReadsAgree
<1> QED BY <1>2, <1>4, <1>6, <1>7, <1>8, <1>9, <1>12

\* The copy, in a cell nobody else knows.
LEMMA CopyStep ==
  ASSUME IInv, NEW e \in EvRec, NEW it \in ItemRec, ev' = e,
         item' = [item EXCEPT ![ev.new] = it], UNCHANGED <<slot, cells, th, ledger>>,
         ev.pc \in {"copy", "copyversion", "stamp"}, e.pc \in CopiedPcs,
         e.loc = ev.loc, e.new = ev.new, e.locked <=> ev.locked,
         it.num = item[ev.loc].num, it.value = item[ev.loc].value, it.crc = item[ev.loc].crc,
         e.pc = "stamp" => it.version = item[ev.loc].version,
         e.pc # "stamp" => Even(it.version)
  PROVE  IInv'
<1> DEFINE c == ev.loc
           d == ev.new
<1> USE DEF IInv
<1>1. /\ c \in Cells /\ item[c] \in ItemRec /\ c # None /\ d \in Cells /\ d # c /\ d # None
      /\ d # slot /\ ev.pc \in CopyPcs /\ e.pc \in CopyPcs
  BY EvFacts DEF CopyPcs, CopiedPcs, CopySteps, Private
<1>2. /\ \A u \in Threads : th[u].loc # d
      /\ \A a \in Cells : a # d => item'[a] = item[a]
      /\ item'[d] = it
  BY <1>1 DEF Private, TypeOK
<1>3. TypeOK' /\ Allocated' /\ Private'
  BY <1>1, <1>2 DEF TypeOK, Allocated, Private
<1>4. ThreadSteps'
  BY <1>2, CallFacts DEF ThreadSteps, StepOf, ThreadRec, CellOrNone, AtPcs, ReplacePcs
<1>5. CopySteps' /\ Exclusive'
  BY <1>1, <1>2 DEF CopySteps, Exclusive, CopiedPcs
<1>6. it.crc = it.value
  <2>1. \A u \in Threads : th[u].pc = "crc" => th[u].loc # c
    BY <1>1, CallFacts DEF StepOf, UpdatePcs, Exclusive, CopySteps, CopiedPcs
  <2> QED BY <1>1, <2>1 DEF CrcFollows
<1>7. CrcFollows' /\ LedgerKept'
  BY <1>1, <1>2, <1>6 DEF CrcFollows, LedgerKept, TypeOK, CellOrNone
<1>8. OddIsHeld'
  <2>1. \A a \in Cells : HeldBy(a)' <=> HeldBy(a)
    BY DEF HeldBy
  <2>2. ~HeldBy(d)
    BY <1>1, <1>2 DEF HeldBy
  <2> QED BY <1>1, <1>2, <2>1, <2>2 DEF OddIsHeld
<1>9. ASSUME NEW a \in Cells, a # d, NEW v PROVE Untouched(a, v)' <=> Untouched(a, v)
  BY <1>2, <1>9 DEF Untouched
<1>10. ASSUME NEW u \in Threads PROVE ReadOf(th[u])' /\ TokenOf(th[u])'
  <2>1. /\ ReadOf(th[u]) /\ TokenOf(th[u]) /\ StepOf(th[u]) /\ th[u].loc # d
        /\ (th[u].pc \in AtPcs => th[u].loc \in Cells)
    BY <1>2, CallFacts
  <2> QED BY <1>2, <1>9, <2>1 DEF ReadOf, TokenOf, AtPcs, CasPcs, ReplacePcs
<1>11. ReadsOneVersion' /\ TokensHold' /\ ReadsAgree'
  BY <1>10 DEF ReadsOneVersion, TokensHold, ReadsAgree
<1> QED BY <1>3, <1>4, <1>5, <1>7, <1>8, <1>11

\* copy_into locks a number, and copies bytes without a lock.
LEMMA RelocateLockStep == ASSUME IInv, RelocateLock PROVE IInv'
<1> DEFINE c == ev.loc
           n == item[c].version + 1
           e == [ev EXCEPT !["pc"] = "copy", !["locked"] = TRUE]
           f == [ev EXCEPT !["pc"] = "copy"]
<1>1. /\ UNCHANGED <<slot, cells, th, ledger>> /\ ev.pc = "lock"
      /\ \/ /\ item[c].num /\ Even(item[c].version) /\ ev' = e
            /\ item' = [item EXCEPT ![c] = [item[c] EXCEPT !["version"] = n]]
         \/ ~item[c].num /\ ev' = f /\ UNCHANGED item
  BY Zenon DEF RelocateLock, CanLock, Locked
<1>2. /\ ev \in EvRec /\ ~ev.locked /\ c \in Cells /\ item[c] \in ItemRec
      /\ item[c].version \in Nat /\ ev.pc \in CopyPcs
  BY <1>1, EvFacts DEF CopyPcs, CopiedPcs, ItemRec
<1>3. e \in EvRec /\ e.pc = "copy" /\ e.loc = c /\ e.new = ev.new /\ e.locked
  BY <1>2 DEF EvRec, EvPcs, CopyPcs
<1>4. f \in EvRec /\ f.pc = "copy" /\ f.loc = c /\ f.new = ev.new /\ ~f.locked
  BY <1>2 DEF EvRec, EvPcs, CopyPcs
<1> HIDE DEF e, f
<1>5. CASE /\ item[c].num /\ Even(item[c].version) /\ ev' = e
           /\ item' = [item EXCEPT ![c] = [item[c] EXCEPT !["version"] = n]]
  <2>1. n \in Nat /\ ~Even(n) /\ n = item[c].version + 1
    BY <1>2, <1>5, EvenFacts
  <2> HIDE DEF n
  <2>2. \A v \in Nat : Even(v) /\ item[c].version >= v =>
             n >= v /\ (n \in {v, v + 1} => item[c].version \in {v, v + 1})
    BY <1>2, <2>1, EvenFacts
  <2> QED BY <1>1, <1>3, <1>5, <2>1, <2>2, EvVersionStep
<1>6. CASE ~item[c].num /\ ev' = f /\ UNCHANGED item
  <2> USE DEF IInv
  <2>1. TypeOK' /\ Allocated' /\ Private'
    BY <1>1, <1>2, <1>4, <1>6 DEF TypeOK, Allocated, Private, CopyPcs
  <2>2. ThreadSteps' /\ CopySteps' /\ Exclusive' /\ CrcFollows' /\ LedgerKept'
    BY <1>1, <1>2, <1>4, <1>6
       DEF ThreadSteps, StepOf, CopySteps, Exclusive, CrcFollows, LedgerKept, CopyPcs, CopiedPcs
  <2>3. OddIsHeld'
    BY <1>1, <1>2, <1>4, <1>6 DEF OddIsHeld, HeldBy
  <2>4. ASSUME NEW a, NEW v PROVE Untouched(a, v)' <=> Untouched(a, v)
    BY <1>1, <1>6 DEF Untouched
  <2>5. ReadsOneVersion' /\ TokensHold' /\ ReadsAgree'
    BY <1>1, <1>6, <2>4 DEF ReadsOneVersion, ReadOf, TokensHold, TokenOf, ReadsAgree
  <2> QED BY <2>1, <2>2, <2>3, <2>5
<1> QED
  BY <1>1, <1>5, <1>6

\* The copy has the value and CRC of the source, which the lock keeps still.
LEMMA CopyDataStep == ASSUME IInv, CopyData PROVE IInv'
<1> DEFINE it == [item[ev.loc] EXCEPT !["version"] = 0]
           e == [ev EXCEPT !["pc"] = "copyversion"]
<1>1. /\ UNCHANGED <<slot, cells, th, ledger>> /\ ev.pc = "copy" /\ ev' = e
      /\ item' = [item EXCEPT ![ev.new] = it]
  BY Zenon DEF CopyData
<1>2. ev \in EvRec /\ item[ev.loc] \in ItemRec
  BY <1>1, EvFacts DEF CopyPcs
<1>3. /\ e \in EvRec /\ e.pc = "copyversion" /\ e.loc = ev.loc /\ e.new = ev.new
      /\ e.locked <=> ev.locked
  BY <1>2 DEF EvRec, EvPcs, CopyPcs, CopiedPcs
<1>4. /\ it \in ItemRec /\ it.num = item[ev.loc].num /\ it.value = item[ev.loc].value
      /\ it.crc = item[ev.loc].crc /\ it.version = 0 /\ Even(0)
  BY <1>2 DEF ItemRec, Even
<1> HIDE DEF it, e
<1> QED BY <1>1, <1>3, <1>4, CopyStep DEF CopiedPcs

\* The version is copied as it is, odd under the lock.
LEMMA CopyVersionStep == ASSUME IInv, CopyVersion PROVE IInv'
<1> DEFINE it == [item[ev.new] EXCEPT !["version"] = item[ev.loc].version]
           e == [ev EXCEPT !["pc"] = "stamp"]
<1>1. /\ UNCHANGED <<slot, cells, th, ledger>> /\ ev.pc = "copyversion" /\ ev' = e
      /\ item' = [item EXCEPT ![ev.new] = it]
  BY Zenon DEF CopyVersion
<1>2. ev \in EvRec /\ item[ev.loc] \in ItemRec /\ item[ev.new] \in ItemRec
  BY <1>1, EvFacts DEF CopyPcs, CopiedPcs
<1>3. /\ e \in EvRec /\ e.pc = "stamp" /\ e.loc = ev.loc /\ e.new = ev.new
      /\ e.locked <=> ev.locked
  BY <1>2 DEF EvRec, EvPcs, CopyPcs, CopiedPcs
<1>4. /\ it \in ItemRec /\ it.num = item[ev.loc].num /\ it.value = item[ev.loc].value
      /\ it.crc = item[ev.loc].crc /\ it.version = item[ev.loc].version
  BY <1>1, <1>2 DEF ItemRec, IInv, CopySteps, CopiedPcs
<1> HIDE DEF it, e
<1> QED BY <1>1, <1>3, <1>4, CopyStep DEF CopiedPcs

\* Under the lock the version copied is odd, without it even.
LEMMA StampStep == ASSUME IInv, Stamp PROVE IInv'
<1> DEFINE n == IF ev.locked THEN item[ev.new].version - 1 ELSE item[ev.new].version
           it == [item[ev.new] EXCEPT !["version"] = n]
           e == [ev EXCEPT !["pc"] = "relink"]
<1>1. /\ UNCHANGED <<slot, cells, th, ledger>> /\ ev.pc = "stamp" /\ ev' = e
      /\ item' = IF ev.locked THEN Unlocked(ev.new) ELSE item
  BY Zenon DEF Stamp
<1>2. /\ ev \in EvRec /\ ev.loc \in Cells /\ item[ev.loc] \in ItemRec /\ ev.new \in Cells
      /\ item[ev.new] \in ItemRec /\ ev.new # ev.loc
  BY <1>1, EvFacts DEF CopyPcs, CopiedPcs
<1>3. item' = [item EXCEPT ![ev.new] = it]
  <2>1. CASE ev.locked
    <3>1. Unlocked(ev.new) = [item EXCEPT ![ev.new] =
                                [item[ev.new] EXCEPT !["version"] = item[ev.new].version - 1]]
      BY Zenon DEF Unlocked
    <3> QED BY <1>1, <2>1, <3>1
  <2>2. CASE ~ev.locked
    <3>1. it = item[ev.new]
      BY <1>2, <2>2 DEF ItemRec
    <3> HIDE DEF it
    <3> QED BY <1>1, <1>2, <2>2, <3>1 DEF IInv, TypeOK
  <2> QED BY <2>1, <2>2
<1>4. item[ev.new].version = item[ev.loc].version
  BY <1>1 DEF IInv, CopySteps
<1>5. HeldBy(ev.loc) <=> ev.locked
  BY <1>1, <1>2, CallFacts DEF HeldBy, IInv, CopySteps, CopiedPcs, StepOf, Exclusive
<1>6. HeldBy(ev.loc) <=> ~Even(item[ev.loc].version)
  BY <1>2 DEF IInv, OddIsHeld
<1>7. n \in Nat /\ Even(n)
  BY <1>2, <1>4, <1>5, <1>6, EvenFacts DEF ItemRec
<1> HIDE DEF n
<1>8. /\ e \in EvRec /\ e.pc = "relink" /\ e.loc = ev.loc /\ e.new = ev.new
      /\ e.locked <=> ev.locked
  BY <1>2 DEF EvRec, EvPcs, CopyPcs, CopiedPcs
<1>9. /\ it \in ItemRec /\ it.num = item[ev.loc].num /\ it.value = item[ev.loc].value
      /\ it.crc = item[ev.loc].crc /\ it.version = n
  BY <1>1, <1>2, <1>7 DEF ItemRec, IInv, CopySteps, CopiedPcs
<1> HIDE DEF it, e
<1> QED BY <1>1, <1>3, <1>7, <1>8, <1>9, CopyStep DEF CopiedPcs

\* The slot moves to a copy that holds what the source holds.
LEMMA RelinkStep == ASSUME IInv, Relink PROVE IInv'
<1> DEFINE e == [ev EXCEPT !["pc"] = "release"]
<1>1. /\ UNCHANGED <<cells, item, th, ledger>> /\ ev.pc = "relink" /\ ev' = e
      /\ slot' = IF slot = ev.loc THEN ev.new ELSE slot
  BY Zenon DEF Relink
<1>2. /\ ev \in EvRec /\ ev.loc \in Cells /\ ev.new \in Cells /\ ev.new # ev.loc
  BY <1>1, EvFacts DEF CopyPcs, CopiedPcs
<1>3. /\ e \in EvRec /\ e.pc = "release" /\ e.loc = ev.loc /\ e.new = ev.new
      /\ e.locked <=> ev.locked
  BY <1>2 DEF EvRec, EvPcs
<1> HIDE DEF e
<1> USE DEF IInv
<1>4. \A u \in Threads : th[u].loc # ev.new /\ (th[u].locked => th[u].loc # ev.loc)
  BY <1>1, CallFacts DEF Private, CopyPcs, CopiedPcs, StepOf, Exclusive, CopySteps
<1>5. TypeOK' /\ Allocated' /\ Private'
  BY <1>1, <1>2, <1>3 DEF TypeOK, CellOrNone, Allocated, Private, CopyPcs, CopiedPcs
<1>6. LedgerKept'
  <2>1. \A u \in Threads : th[u].pc = "store" => th[u].loc # ev.loc
    BY <1>4, CallFacts DEF StepOf, UpdatePcs
  <2>2. CASE slot = ev.loc
    <3>1. ev.loc # None /\ ev.new # None
      BY <1>1 DEF CopySteps, Private, CopyPcs, CopiedPcs
    <3>2. /\ item[ev.new].num = ledger.num /\ item[ev.new].value = ledger.value
      BY <1>1, <2>1, <2>2, <3>1 DEF LedgerKept, CopySteps, CopiedPcs
    <3> QED BY <1>1, <1>4, <2>2, <3>1, <3>2 DEF LedgerKept
  <2>3. CASE slot # ev.loc
    BY <1>1, <2>3 DEF LedgerKept
  <2> QED BY <2>2, <2>3
<1>7. ThreadSteps' /\ CopySteps' /\ Exclusive' /\ CrcFollows'
  BY <1>1, <1>3 DEF ThreadSteps, StepOf, CopySteps, Exclusive, CrcFollows, CopyPcs, CopiedPcs
<1>8. OddIsHeld'
  BY <1>1, <1>3 DEF OddIsHeld, HeldBy
<1>9. ASSUME NEW c, NEW v PROVE Untouched(c, v)' <=> Untouched(c, v)
  BY <1>1 DEF Untouched
<1>10. ReadsOneVersion' /\ TokensHold' /\ ReadsAgree'
  BY <1>1, <1>9 DEF ReadsOneVersion, ReadOf, TokensHold, TokenOf, ReadsAgree
<1> QED BY <1>5, <1>6, <1>7, <1>8, <1>10

\* The source is unlocked after the relink.
LEMMA RelocateUnlockStep == ASSUME IInv, RelocateUnlock PROVE IInv'
<1> DEFINE c == ev.loc
           n == item[c].version - 1
           e == [ev EXCEPT !["pc"] = "done", !["locked"] = FALSE, !["loc"] = None]
<1>1. /\ UNCHANGED <<slot, cells, th, ledger>> /\ ev.pc = "release" /\ ev' = e
      /\ item' = IF ev.locked THEN Unlocked(ev.loc) ELSE item
  BY Zenon DEF RelocateUnlock
<1>2. /\ ev \in EvRec /\ c \in Cells /\ item[c] \in ItemRec /\ item[c].version \in Nat
  BY <1>1, EvFacts DEF CopyPcs, CopiedPcs, ItemRec
<1>3. e \in EvRec /\ e.pc = "done" /\ e.loc = None /\ e.new = ev.new /\ ~e.locked
  BY <1>2 DEF EvRec, EvPcs, CellOrNone
<1> HIDE DEF e
<1>4. CASE ev.locked
  <2>1. item' = [item EXCEPT ![c] = [item[c] EXCEPT !["version"] = n]]
    BY <1>1, <1>4, Zenon DEF Unlocked
  <2>2. ~Even(item[c].version) /\ item[c].num
    BY <1>1, <1>2, <1>4 DEF IInv, OddIsHeld, HeldBy, CopySteps
  <2>3. n \in Nat /\ Even(n) /\ item[c].version = n + 1
    BY <1>2, <2>2, EvenFacts
  <2> HIDE DEF n
  <2>4. \A v \in Nat : Even(v) /\ item[c].version >= v =>
           n >= v /\ (n \in {v, v + 1} => item[c].version \in {v, v + 1})
    <3> SUFFICES ASSUME NEW v \in Nat, Even(v), n + 1 >= v
                 PROVE  n >= v /\ (n \in {v, v + 1} => n + 1 \in {v, v + 1})
      BY <2>3
    <3>1. n # v + 1 /\ v # n + 1
      BY <2>3, EvenFacts
    <3> QED BY <2>3, <3>1
  <2> QED BY <1>1, <1>3, <1>4, <2>1, <2>2, <2>3, <2>4, EvVersionStep
<1>5. CASE ~ev.locked
  BY <1>1, <1>3, <1>5, EvLocalStep DEF CopyPcs, CopiedPcs
<1> QED
  BY <1>4, <1>5

-----------------------------------------------------------------------------
\* Every step keeps the invariant.
LEMMA NextIInv == ASSUME IInv, [Next]_vars PROVE IInv'
<1>1. CASE UNCHANGED vars
  <2> USE <1>1 DEF vars, IInv
  <2>1. TypeOK' /\ Allocated' /\ Private' /\ CopySteps' /\ Exclusive' /\ LedgerKept' /\ CrcFollows'
    BY DEF TypeOK, Allocated, Private, CopySteps, Exclusive, LedgerKept, CrcFollows
  <2>2. ThreadSteps' /\ OddIsHeld' /\ ReadsAgree'
    BY DEF ThreadSteps, StepOf, OddIsHeld, HeldBy, ReadsAgree
  <2>3. ReadsOneVersion' /\ TokensHold'
    BY DEF ReadsOneVersion, ReadOf, TokensHold, TokenOf, Untouched
  <2> QED BY <2>1, <2>2, <2>3
<1>2. ASSUME NEW t \in Threads,
             \/ NumericLookup(t) \/ NumericLock(t) \/ NumericCheck(t)
             \/ UpdateValue(t) \/ UpdateCrc(t) \/ UpdateUnlock(t)
             \/ GetHit(t) \/ GetToken(t) \/ ReadVersion(t) \/ ReadValue(t) \/ ReadCrc(t)
             \/ ReadAgain(t) \/ GetDone(t)
      PROVE  IInv'
  BY <1>2, NumericLookupStep, NumericLockStep, NumericCheckStep, UpdateValueStep, UpdateCrcStep,
     UpdateUnlockStep, GetHitStep, GetTokenStep, ReadVersionStep, ReadValueStep, ReadCrcStep,
     ReadAgainStep, GetDoneStep
<1>3. ASSUME NEW t \in Threads,
             \/ CasLookup(t) \/ CasFresh(t) \/ Reserve(t)
             \/ PinOld(t) \/ EntryCheck(t) \/ TokenGate(t) \/ SwapSlot(t) \/ ReplaceDone(t)
             \/ ConvertLookup(t) \/ ConvertFresh(t)
             \/ SetReserve(t) \/ SetPublish(t) \/ Delete(t)
      PROVE  IInv'
  BY <1>3, CasLookupStep, CasFreshStep, ReserveCallStep, PinOldStep, EntryCheckStep, TokenGateStep,
     SwapSlotStep, ReplaceDoneStep, ConvertLookupStep, ConvertFreshStep, SetReserveStep,
     SetPublishStep, DeleteStep
<1>4. ASSUME (\E s, d \in Segments : Claim(s, d)) \/ Scan \/ Prune \/ RelocateLock \/ CopyData
             \/ CopyVersion \/ Stamp \/ Relink \/ RelocateUnlock \/ Finish
      PROVE  IInv'
  BY <1>4, ClaimStep, ScanStep, PruneStep, RelocateLockStep, CopyDataStep, CopyVersionStep,
     StampStep, RelinkStep, RelocateUnlockStep, FinishStep
<1> QED BY <1>1, <1>2, <1>3, <1>4 DEF Next

\* The invariant is inductive: every step of a call and of the relocation keeps
\* the lock exclusive, a published item and the ledger in step, and the value a
\* reader or a token stands for.
THEOREM NumericInvariant == Spec => []IInv
BY InitIInv, NextIInv, PTL DEF Spec

\* No update that took effect is lost or applied twice, wherever relocations and
\* cas publishes move the item (numeric_update's linkage check under the version
\* lock, copy_into's lock across copy and relink).
THEOREM NumericNoUpdateLost == Spec => []NoUpdateLost
<1>1. IInv => NoUpdateLost
  <2> SUFFICES ASSUME IInv, slot # None, Guards(slot) = {}
               PROVE  Holds(slot) = ledger /\ item[slot].crc = item[slot].value
    BY DEF NoUpdateLost
  <2>1. \A t \in Threads : th[t].pc \in {"store", "crc"} => th[t].loc # slot
    BY CallFacts DEF Guards, StepOf, UpdatePcs
  <2>2. slot \in Cells /\ ledger \in Contents
    BY DEF IInv, TypeOK, CellOrNone, LedgerKept
  <2>3. item[slot].num = ledger.num /\ item[slot].value = ledger.value
    BY <2>1 DEF IInv, LedgerKept
  <2>4. item[slot].crc = item[slot].value
    BY <2>1, <2>2 DEF IInv, CrcFollows
  <2>5. Holds(slot) = ledger
    BY <2>2, <2>3 DEF Holds, Contents
  <2> QED BY <2>4, <2>5
<1> QED BY <1>1, NumericInvariant, PTL

\* The published item's version is odd exactly while one thread or relocation
\* holds its lock: no copy is published that everyone would spin on
\* (stamp_relocated_copy), and lock_numeric_version excludes.
THEOREM NumericNeverWedged == Spec => []NeverWedged
<1>1. IInv => NeverWedged
  <2> SUFFICES ASSUME IInv, slot # None
               PROVE  Cardinality(Guards(slot)) = (IF Even(item[slot].version) THEN 0 ELSE 1)
    BY DEF NeverWedged
  <2>1. slot \in Cells /\ ~(ev.pc = "stamp" /\ ev.new = slot)
    BY DEF IInv, TypeOK, CellOrNone, Private, CopyPcs, CopiedPcs
  <2>2. HeldBy(slot) <=> ~Even(item[slot].version)
    BY <2>1 DEF IInv, OddIsHeld
  <2>3. CASE ~HeldBy(slot)
    <3>1. Guards(slot) = {}
      BY <2>3 DEF Guards, HeldBy
    <3> QED BY <2>2, <2>3, <3>1, FS_EmptySet
  <2>4. CASE HeldBy(slot)
    <3>1. \E x : Guards(slot) = {x}
      <4>1. ASSUME NEW t \in Threads, th[t].locked, th[t].loc = slot PROVE Guards(slot) = {t}
        BY <4>1 DEF Guards, IInv, Exclusive
      <4>2. ASSUME ev.locked, ev.loc = slot PROVE Guards(slot) = {Evictor}
        BY <4>2 DEF Guards, IInv, Exclusive
      <4> QED BY <2>4, <4>1, <4>2 DEF HeldBy
    <3> QED BY <2>2, <2>4, <3>1, FS_Singleton
  <2> QED BY <2>3, <2>4
<1> QED BY <1>1, NumericInvariant, PTL

\* A seqlock read pairs a value with its own CRC (RawItem::value, check_integrity).
THEOREM NumericReadsAgree == Spec => []ReadsAgree
<1>1. IInv => ReadsAgree
  BY DEF IInv
<1> QED BY <1>1, NumericInvariant, PTL

\* The cas or conversion that swaps the slot replaces what its client read: under
\* the lock the token's version says that nobody has stored since.
LEMMA SwapReplaces ==
  ASSUME IInv, NEW t \in Threads, th[t].pc = "publish", slot = th[t].loc
  PROVE  ledger.value = th[t].val /\ (th[t].op = "convert" => ~ledger.num)
<1>1. /\ slot \in Cells /\ slot # None /\ th[t].op \in {"cas", "convert"} /\ th[t].ver \in Nat
      /\ StepOf(th[t]) /\ TokenOf(th[t])
  BY CallFacts DEF StepOf, AtPcs, ReplacePcs, ThreadRec
<1>2. \A u \in Threads : th[u].pc \in UpdatePcs => th[u].loc # slot
  BY <1>1, CallFacts DEF StepOf, UpdatePcs, IInv, Exclusive, TokenOf, ReplacePcs
<1>3. ledger.num = item[slot].num /\ ledger.value = item[slot].value
  BY <1>1, <1>2 DEF IInv, LedgerKept, UpdatePcs
<1>4. th[t].val = item[slot].value
  <2>1. CASE item[slot].num /\ th[t].op = "cas"
    <3>1. th[t].locked /\ item[slot].version = th[t].ver + 1
      BY <1>1, <2>1 DEF StepOf
    <3>2. ~Even(item[slot].version)
      BY <1>1, <3>1 DEF IInv, OddIsHeld, HeldBy, Private, CopyPcs, CopiedPcs
    <3>3. Even(th[t].ver) /\ Untouched(slot, th[t].ver)
      BY <1>1, <1>2, <3>1, <3>2, EvenFacts DEF Untouched, UpdatePcs
    <3> QED BY <1>1, <2>1, <3>3 DEF TokenOf, AtPcs, ReplacePcs, ReadPcs
  <2>2. CASE ~(item[slot].num /\ th[t].op = "cas")
    BY <1>1, <2>2 DEF TokenOf, AtPcs, ReplacePcs
  <2> QED BY <2>1, <2>2
<1> QED BY <1>1, <1>3, <1>4 DEF TokenOf, ReplacePcs

\* A step that publishes what thread t wrote is t's own swap.
LEMMA OnlyOwnSwap ==
  ASSUME IInv, Next, NEW t \in Threads, th[t].pc = "publish", slot' # slot, slot' = th[t].new
  PROVE  slot = th[t].loc
<1>1. /\ th[t].new # None /\ th[t].pc \in FreshPcs
      /\ \A u \in Threads : u # t /\ th[u].pc \in FreshPcs => th[u].new # th[t].new
      /\ ev.pc \in CopyPcs => ev.new # th[t].new
  BY DEF IInv, Private, FreshPcs
<1>2. ASSUME NEW u \in Threads,
             \/ NumericLookup(u) \/ NumericLock(u) \/ NumericCheck(u)
             \/ UpdateValue(u) \/ UpdateCrc(u) \/ UpdateUnlock(u)
             \/ GetHit(u) \/ GetToken(u) \/ ReadVersion(u) \/ ReadValue(u) \/ ReadCrc(u)
             \/ ReadAgain(u) \/ GetDone(u)
      PROVE  slot' = slot
  BY <1>2, Zenon DEF NumericLookup, NumericLock, NumericCheck, UpdateValue, UpdateCrc, UpdateUnlock,
     GetHit, GetToken, ReadVersion, ReadValue, ReadCrc, ReadAgain, GetDone
<1>3. ASSUME NEW u \in Threads,
             \/ CasLookup(u) \/ CasFresh(u) \/ Reserve(u)
             \/ PinOld(u) \/ EntryCheck(u) \/ TokenGate(u) \/ ReplaceDone(u)
             \/ ConvertLookup(u) \/ ConvertFresh(u) \/ SetReserve(u)
      PROVE  slot' = slot
  BY <1>3, Zenon DEF CasLookup, CasFresh, Reserve, PinOld, EntryCheck, TokenGate, ReplaceDone,
     ConvertLookup, ConvertFresh, SetReserve
<1>4. ASSUME NEW u \in Threads, SwapSlot(u) PROVE slot = th[t].loc
  <2>1. th[u].pc = "publish" /\ slot = th[u].loc /\ slot' = th[u].new
    BY <1>4, Zenon DEF SwapSlot, Publish
  <2> QED BY <1>1, <2>1 DEF FreshPcs
<1>5. ASSUME NEW u \in Threads, SetPublish(u) \/ Delete(u) PROVE FALSE
  <2>1. \/ th[u].pc = "set" /\ slot' = th[u].new
        \/ slot' = None
    BY <1>5, Zenon DEF SetPublish, Delete, Publish
  <2> QED BY <1>1, <2>1 DEF FreshPcs
<1>6. ASSUME (\E s, d \in Segments : Claim(s, d)) \/ Scan \/ Prune \/ RelocateLock \/ CopyData
             \/ CopyVersion \/ Stamp \/ Relink \/ RelocateUnlock \/ Finish
      PROVE  FALSE
  <2>1. \/ slot' = slot \/ slot' = None
        \/ ev.pc = "relink" /\ slot' = ev.new
    BY <1>6, Zenon DEF Claim, Scan, Prune, Publish, RelocateLock, CopyData, CopyVersion, Stamp, Relink,
       RelocateUnlock, Finish
  <2> QED BY <1>1, <2>1 DEF CopyPcs, CopiedPcs
<1> QED BY <1>2, <1>3, <1>4, <1>5, <1>6 DEF Next

\* A cas that succeeds, or a conversion, replaces exactly what was read.
THEOREM NumericReplacesWhatWasRead == Spec => ReplacesWhatWasRead
<1>1. IInv /\ [Next]_vars =>
        [\A t \in Threads :
           th[t].pc = "publish" /\ slot' # slot /\ slot' = th[t].new =>
             /\ ledger.value = th[t].val
             /\ th[t].op = "convert" => ~ledger.num]_vars
  BY OnlyOwnSwap, SwapReplaces
<1> QED BY <1>1, NumericInvariant, PTL DEF Spec, ReplacesWhatWasRead

-----------------------------------------------------------------------------
(* The bucket arithmetic of TtlBuckets, for every TTL and every clock.     *)

\* In which tier a positive TTL falls, and its place there.
LEMMA Tiers ==
  ASSUME NEW s \in Int
  PROVE  /\ s <= 0 => bucket_index(s) = 1023
         /\ 0 < s /\ s < 2048 => bucket_index(s) = s \div 8
         /\ 2048 <= s /\ s < 32768 => bucket_index(s) = (s \div 128) + 256
         /\ 32768 <= s /\ s < 524288 => bucket_index(s) = (s \div 2048) + 512
         /\ 524288 <= s /\ s < 8388608 => bucket_index(s) = (s \div 32768) + 768
         /\ 8388608 <= s => bucket_index(s) = 1023
BY SMT DEF bucket_index, TOTAL_BUCKETS, BUCKETS_PER_TIER, TIER_1_WIDTH, TIER_2_WIDTH,
           TIER_3_WIDTH, TIER_4_WIDTH, TIER_1_MAX, TIER_2_MAX, TIER_3_MAX

\* The stamps of the four tiers.
LEMMA Stamps ==
  ASSUME NEW i \in Int
  PROVE  /\ i = 0 => BucketTtl(i) = 1
         /\ 1 <= i /\ i < 256 => BucketTtl(i) = 8 * i
         /\ 256 < i /\ i < 512 => BucketTtl(i) = 128 * (i - 256)
         /\ 512 < i /\ i < 768 => BucketTtl(i) = 2048 * (i - 512)
         /\ 768 < i /\ i < 1024 => BucketTtl(i) = 32768 * (i - 768)
BY SMT DEF BucketTtl, AtLeastOne, Width, BUCKETS_PER_TIER, TIER_1_WIDTH, TIER_2_WIDTH,
           TIER_3_WIDTH, TIER_4_WIDTH

\* The bound get_bucket's get_unchecked rests on: every TTL, negative ones
\* included, has a bucket.
THEOREM IndexInRange ==
  ASSUME NEW s \in Int
  PROVE  bucket_index(s) \in 0..TOTAL_BUCKETS - 1
BY Tiers, SMTT(30) DEF TOTAL_BUCKETS

\* A bucket's stamp is positive and never more than a TTL that is mapped to it.
THEOREM StampAtMostAsked ==
  ASSUME NEW s \in Int
  PROVE  /\ BucketTtl(bucket_index(s)) \in Nat \ {0}
         /\ s > 0 => BucketTtl(bucket_index(s)) <= s
BY Tiers, Stamps, SMT

\* lock_sealed_in_bucket's premise: from the stamp of a bucket that a TTL is mapped
\* to, bucket_index leads back to that bucket.
THEOREM StampLeadsBack ==
  ASSUME NEW s \in Int
  PROVE  bucket_index(BucketTtl(bucket_index(s))) = bucket_index(s)
BY Tiers, Stamps, SMT

\* A stamp is a positive i32, so the cast leaves it as it is.
LEMMA StampSmall ==
  ASSUME NEW s \in Int
  PROVE  BucketTtl(bucket_index(s)) < 8388608
BY Tiers, Stamps, SMT

\* What a reserve with a TTL of u32 seconds gets: a bucket of the table, a positive
\* stamp of at most those seconds, and a stamp that leads back to the bucket.
LEMMA Reserved ==
  ASSUME NEW s \in Nat
  PROVE  LET i == get_bucket_index(s)
         IN  /\ i \in 0..TOTAL_BUCKETS - 1
             /\ BucketTtl(i) \in Nat \ {0} /\ BucketTtl(i) < 8388608
             /\ s > 0 /\ 2 * s < Wrap => BucketTtl(i) <= s
             /\ get_bucket_index(BucketTtl(i)) = i
<1> DEFINE c == IF 2 * s < Wrap THEN s ELSE s - Wrap
           b == BucketTtl(bucket_index(c))
<1>1. c \in Int /\ (2 * s < Wrap => c = s) /\ get_bucket_index(s) = bucket_index(c)
  BY TtlBounds DEF get_bucket_index
<1> HIDE DEF c
<1>2. /\ bucket_index(c) \in 0..TOTAL_BUCKETS - 1
      /\ b \in Nat \ {0} /\ b < 8388608 /\ (c > 0 => b <= c)
      /\ bucket_index(b) = bucket_index(c)
  BY <1>1, IndexInRange, StampAtMostAsked, StampLeadsBack, StampSmall
<1> HIDE DEF b
<1>3. 2 * b < Wrap
  BY <1>2, TtlBounds
<1>4. get_bucket_index(b) = bucket_index(b)
  BY <1>3 DEF get_bucket_index
<1> QED
  BY <1>1, <1>2, <1>4 DEF b

\* Whole seconds, at most those of the Duration.
LEMMA CoarseSeconds ==
  ASSUME NEW h \in Nat
  PROVE  coarse_ttl(h) \in Nat
BY TtlBounds, SMT DEF coarse_ttl

\* Seconds past the end of i32 go to the last bucket, whose stamp is less.
LEMMA ReservedAtMost ==
  ASSUME NEW s \in Nat, s > 0
  PROVE  BucketTtl(get_bucket_index(s)) <= s
<1>1. CASE 2 * s < Wrap
  BY <1>1, Reserved
<1>2. CASE ~(2 * s < Wrap)
  <2>1. s >= 8388608
    BY <1>2, TtlBounds
  <2> QED  BY <2>1, Reserved
<1> QED  BY <1>1, <1>2

\* Everything but the two properties that their proofs need. The segment of the item
\* was created no later than now, with a positive stamp; between the read and the
\* reserve of a rewrite, what was read ends by the deadline as of the time of the
\* read, though by now it may lie in the past; only a finished rewrite was late.
TtlShape ==
  /\ clock \in Nat /\ born \in Nat /\ born <= clock
  /\ asked \in Nat
  /\ create_at \in Nat /\ create_at <= clock
  /\ ttl \in Nat \ {0} /\ ttl < 8388608
  /\ late \in Nat /\ (step # "number" => late = 0)
  /\ step = "reserve" =>
       /\ read_at \in Nat /\ read_at <= clock
       /\ seg_ttl \in Nat \ {0}
       /\ coarse_ttl(asked) > 0 => read_at + seg_ttl <= born + coarse_ttl(asked)

TtlInv == TtlShape /\ CeilingUpToDelay /\ StampFindsBucket

\* An insert establishes the invariant.
LEMMA InitTtlInv == TtlInit => TtlInv
<1> SUFFICES ASSUME TtlInit PROVE TtlInv
  OBVIOUS
<1> DEFINE secs == coarse_ttl(asked)
<1>1. clock \in Nat /\ asked \in Nat /\ create_at \in 0..clock /\ secs \in Nat
  BY TtlBounds, CoarseSeconds DEF TtlInit
<1> HIDE DEF secs
<1>2. index = get_bucket_index(secs) /\ ttl = BucketTtl(index)
  BY DEF TtlInit, secs
<1>3. /\ ttl \in Nat \ {0} /\ ttl < 8388608 /\ (secs > 0 => ttl <= secs)
      /\ StampFindsBucket
  BY <1>1, <1>2, Reserved, ReservedAtMost DEF StampFindsBucket
<1>4. CeilingUpToDelay
  BY <1>1, <1>3 DEF TtlInit, CeilingUpToDelay, secs
<1> QED
  BY <1>1, <1>3, <1>4 DEF TtlInit, TtlInv, TtlShape

\* Every step preserves it. A rewrite asks for what was left of the deadline when it
\* looked, and gets at most that from the time of its reserve: the deadline moves by
\* the time between the two, and a tail older than the reserve only shortens it.
LEMMA NextTtlInv == TtlInv /\ [TtlNext]_ttlVars => TtlInv'
<1> SUFFICES ASSUME TtlInv, [TtlNext]_ttlVars PROVE TtlInv'
  OBVIOUS
<1> DEFINE secs == coarse_ttl(asked)
<1>s. secs \in Nat /\ (UNCHANGED asked => coarse_ttl(asked)' = secs)
  BY CoarseSeconds DEF TtlInv, TtlShape, coarse_ttl
<1> HIDE DEF secs
<1>1. CASE Tick
  BY <1>1, <1>s DEF Tick, place, given, rewrite, TtlInv, TtlShape, CeilingUpToDelay,
                    StampFindsBucket, secs
<1>2. CASE ReadRemaining
  <2>1. seg_ttl' = create_at + ttl - clock /\ create_at + ttl > clock
    BY <1>2 DEF ReadRemaining, remaining_ttl, TtlInv, TtlShape
  <2>2. late = 0 /\ (secs > 0 => create_at + ttl <= born + secs)
    BY <1>2, <1>s DEF ReadRemaining, TtlInv, TtlShape, CeilingUpToDelay, secs
  <2>3. /\ UNCHANGED <<clock, index, create_at, ttl, asked, born, late>>
        /\ step' = "reserve" /\ read_at' = clock
    BY <1>2 DEF ReadRemaining, place, given
  <2>4. CeilingUpToDelay' /\ StampFindsBucket'
    BY <2>3, <1>s DEF TtlInv, CeilingUpToDelay, StampFindsBucket, secs
  <2>5. TtlShape'
    BY <2>1, <2>2, <2>3, <1>s DEF TtlInv, TtlShape, secs
  <2> QED  BY <2>4, <2>5 DEF TtlInv
<1>3. CASE Rewrite
  <2>1. /\ index' = get_bucket_index(seg_ttl) /\ ttl' = BucketTtl(index')
        /\ create_at' \in 0..clock /\ step' = "number" /\ late' = clock - read_at
        /\ UNCHANGED <<clock, asked, born>>
    BY <1>3 DEF Rewrite, given
  <2>2. /\ seg_ttl \in Nat \ {0} /\ read_at \in Nat /\ read_at <= clock
        /\ secs > 0 => read_at + seg_ttl <= born + secs
    BY <1>3 DEF Rewrite, TtlInv, TtlShape, secs
  <2>3. /\ ttl' \in Nat \ {0} /\ ttl' < 8388608 /\ ttl' <= seg_ttl
        /\ StampFindsBucket'
    BY <2>1, <2>2, Reserved, ReservedAtMost DEF StampFindsBucket
  <2>4. TtlShape'
    BY <2>1, <2>2, <2>3 DEF TtlInv, TtlShape
  <2>5. CeilingUpToDelay'
    <3>1. clock \in Nat /\ born \in Nat
      BY DEF TtlInv, TtlShape
    <3>2. secs > 0 => create_at' + ttl' <= born' + secs + late'
      BY <2>1, <2>2, <2>3, <3>1, <1>s
    <3> QED  BY <3>2, <2>1, <1>s DEF CeilingUpToDelay, secs
  <2> QED
    BY <2>3, <2>4, <2>5 DEF TtlInv
<1>4. CASE RewriteFails
  BY <1>4, <1>s DEF RewriteFails, place, given, TtlInv, TtlShape, CeilingUpToDelay,
                    StampFindsBucket, secs
<1>5. CASE UNCHANGED ttlVars
  BY <1>5, <1>s DEF ttlVars, place, given, rewrite, TtlInv, TtlShape, CeilingUpToDelay,
                    StampFindsBucket, secs
<1> QED
  BY <1>1, <1>2, <1>3, <1>4, <1>5 DEF TtlNext

\* Of ttl_ceiling_tests.rs's "a TTL is a ceiling": try_into_numeric overruns the time
\* the insert asked for by no more than the time it took from remaining_ttl to its
\* reserve, for every TTL of a second or more, every clock and every delay.
THEOREM OverrunBounded == TtlSpec => []CeilingUpToDelay
<1>1. TtlInv => CeilingUpToDelay
  BY DEF TtlInv
<1> QED
  BY InitTtlInv, NextTtlInv, <1>1, PTL DEF TtlSpec

\* The stamped TTL of a segment that holds an item always names its bucket.
THEOREM BucketFound == TtlSpec => []StampFindsBucket
<1>1. TtlInv => StampFindsBucket
  BY DEF TtlInv
<1> QED
  BY InitTtlInv, NextTtlInv, <1>1, PTL DEF TtlSpec
=============================================================================
