------------------------------- MODULE Cuckoo -------------------------------
(***************************************************************************)
(* The cuckoo cache of crates/cuckoo: a table of slots, D candidate slots  *)
(* per key, insertion that displaces occupants to their other candidates   *)
(* and evicts when that fails.  The cache is not shared: every call is one *)
(* step.  The clock, in seconds since the cache was built, ticks between   *)
(* calls.  Item sizes, and the refusal of one that does not fit a slot,    *)
(* which leaves the table alone, are left out.                             *)
(***************************************************************************)
EXTENDS Integers, Sequences, FiniteSets

CONSTANTS
  Keys,
  nitem,         \* number of slots
  Positions,     \* Positions[k]: the D candidate slots of key k, in hash order
  max_displace,  \* displacement depth
  Policies,      \* the eviction policies the cache may be built with
  max_ttl,
  Ttls,          \* TTLs of inserts, in half seconds; 0 is no expiry
  Width,         \* numeric values are kept modulo 2^Width
  Inserted,      \* Inserted[k]: the numbers and byte strings inserted for k
  Length,        \* the length of each byte string
  Cut,           \* a byte string's first Length % 256 bytes
  Addends,       \* the operands of wrapping_add and saturating_sub
  NoExpiry,      \* u32::MAX
  None,          \* no key, no value
  MaxTime        \* bound on the clock

D == 4
Slots == 0..(nitem - 1)
Numbers == 0..(2^Width - 1)

ASSUME CuckooAssumption ==
  /\ nitem \in Nat \ {0}
  /\ Positions \in [Keys -> [1..D -> Slots]]
  /\ max_displace \in Nat
  /\ Policies \subseteq {"Random", "Expire"}
  /\ max_ttl \in Nat /\ MaxTime \in Nat /\ NoExpiry \in Nat /\ Ttls \subseteq Nat
  /\ NoExpiry > MaxTime + max_ttl
  /\ 2^Width \in Nat \ {0}
  /\ Addends \subseteq Numbers
  /\ None \notin Keys \cup Numbers
  /\ \A k \in Keys : \A v \in Inserted[k] \ Numbers :
       Length[v] \in Nat /\ Cut[v] # None /\ (Length[v] < 256 => Cut[v] = v)

VARIABLES
  data,    \* the slots
  now,     \* seconds since the cache was built
  policy,
  truth    \* history: what the last insert or update of each key wrote, or None

vars == <<data, now, policy, truth>>

\* clear_slot zeroes a slot; expire = 0 is what makes it empty.
EmptySlot == [key |-> None, value |-> None, expire |-> 0]

Init ==
  /\ data = [s \in Slots |-> EmptySlot]
  /\ now = 0
  /\ policy \in Policies
  /\ truth = [k \in Keys |-> None]

slot_is_empty(d, s) == d[s].expire = 0
slot_is_expired(d, s) == d[s].expire \notin {0, NoExpiry} /\ now > d[s].expire
Free(d, s) == slot_is_empty(d, s) \/ slot_is_expired(d, s)

clear_slot(d, s) == [d EXCEPT ![s] = EmptySlot]
move_slot(d, from, to) == [d EXCEPT ![to] = d[from], ![from] = EmptySlot]

\* compute_expire: whole seconds of the TTL, clamped.
compute_expire(ttl) ==
  IF ttl = 0 THEN NoExpiry
  ELSE now + (IF ttl \div 2 < max_ttl THEN ttl \div 2 ELSE max_ttl)

\* The first index of the positions ps whose slot is in S, 0 when none is.
First(ps, S) ==
  IF \E i \in 1..D : ps[i] \in S
  THEN CHOOSE i \in 1..D : ps[i] \in S /\ \A j \in 1..(i - 1) : ps[j] \notin S
  ELSE 0

-----------------------------------------------------------------------------
NoRoom == [freed |-> FALSE]
Freed(d) == [freed |-> TRUE, data |-> d]

\* Slip: the occupant goes to its first other candidate, free or not.
DisplaceOverwrites(d, pos, depth) ==
  LET alts == Positions[d[pos].key]
      i    == First(alts, Slots \ {pos})
  IN  IF Free(d, pos) THEN Freed(clear_slot(d, pos))
      ELSE IF i = 0 THEN NoRoom ELSE Freed(move_slot(d, pos, alts[i]))

\* Slip: the occupant goes to the next free slot of the table.
DisplaceLinear(d, pos, depth) ==
  IF Free(d, pos) THEN Freed(clear_slot(d, pos))
  ELSE IF \E s \in Slots : Free(d, s)
  THEN Freed(move_slot(d, pos, CHOOSE s \in Slots : Free(d, s)))
  ELSE NoRoom

\* displace_from's two loops: the occupant of pos moves to its first candidate
\* that is free, else to the first that a call one level deeper frees. The
\* deeper calls answer deeper[alt]; one that finds no room has changed nothing.
MoveOccupant(d, pos, deeper) ==
  LET alts   == Positions[d[pos].key]
      direct == First(alts, {alt \in Slots \ {pos} : Free(d, alt)})
      deep   == First(alts, {alt \in Slots \ {pos} : deeper[alt].freed})
  IN  IF direct # 0 THEN Freed(move_slot(d, pos, alts[direct]))
      ELSE IF deep # 0 THEN Freed(move_slot(deeper[alts[deep]].data, pos, alts[deep]))
      ELSE NoRoom

\* displace_from(pos, depth): the table with pos freed, or NoRoom. The answers
\* are tabulated over the levels left below max_displace.
displace_from(d, pos, depth) ==
  LET from[left \in 0..max_displace] ==
        [p \in Slots |->
           IF Free(d, p) THEN Freed(clear_slot(d, p))
           ELSE IF left = 0 THEN NoRoom
           ELSE MoveOccupant(d, p, from[left - 1])]
  IN  from[max_displace - depth][pos]

\* select_victim: any candidate, or the first with the least expire.
Victims(ps) ==
  IF policy = "Random" THEN 1..D
  ELSE {First(ps, {p \in Slots : \A i \in 1..D : data[p].expire <= data[ps[i]].expire})}

\* The live, the empty and the expired slots of the table.
LiveWith(k) == {s \in Slots : ~Free(data, s) /\ data[s].key = k}
Empty == {s \in Slots : slot_is_empty(data, s)}
Expired == {s \in Slots : slot_is_expired(data, s)}

\* Slip: no pass for the key's own slot.
FindSlotBlind(k) ==
  LET ps    == Positions[k]
      empty == First(ps, Empty)
  IN  IF empty # 0 THEN {[pos |-> ps[empty], data |-> data]}
      ELSE {[pos |-> ps[i], data |-> clear_slot(data, ps[i])] : i \in Victims(ps)}

\* find_slot_for_insert: the tables and slots the five passes may end with.
find_slot_for_insert(k) ==
  LET ps        == Positions[k]
      existing  == First(ps, LiveWith(k))
      empty     == First(ps, Empty)
      expired   == First(ps, Expired)
      displaced == First(ps, {s \in Slots : displace_from(data, s, 0).freed})
  IN  IF existing # 0 THEN {[pos |-> ps[existing], data |-> data]}
      ELSE IF empty # 0 THEN {[pos |-> ps[empty], data |-> data]}
      ELSE IF expired # 0 THEN {[pos |-> ps[expired], data |-> clear_slot(data, ps[expired])]}
      ELSE IF displaced # 0
      THEN {[pos |-> ps[displaced], data |-> displace_from(data, ps[displaced], 0).data]}
      ELSE {[pos |-> ps[i], data |-> clear_slot(data, ps[i])] : i \in Victims(ps)}

\* The values that TinyItem::value may read of what define has written of v. The
\* length is kept in one byte, and a length of zero stands for a number: that byte
\* string is read as the eight bytes at its place, taken here as fixed from then on.
ReadBack(v) ==
  IF v \in Numbers THEN {v}
  ELSE IF Length[v] % 256 = 0 THEN Numbers
  ELSE {Cut[v]}

\* insert, of a value that is read as the given one.
Write(k, read, ttl) ==
  /\ \E found \in find_slot_for_insert(k) :
       data' = [found.data EXCEPT ![found.pos] =
                  [key |-> k, value |-> read, expire |-> compute_expire(ttl)]]
  /\ truth' = [truth EXCEPT ![k] = read]
  /\ UNCHANGED <<now, policy>>

Insert(k, value, ttl) == \E read \in ReadBack(value) : Write(k, read, ttl)

-----------------------------------------------------------------------------
\* The candidate at which get and delete stop: the first that holds the key.
Hit(k) == First(Positions[k], {s \in Slots \ Empty : data[s].key = k})
HitSlot(k) == Positions[k][Hit(k)]

\* What get answers.
Answer(k) ==
  IF Hit(k) = 0 \/ slot_is_expired(data, HitSlot(k)) THEN None ELSE data[HitSlot(k)].value

\* get clears an expired hit, and changes nothing otherwise.
Get(k) ==
  /\ Hit(k) # 0
  /\ slot_is_expired(data, HitSlot(k))
  /\ data' = clear_slot(data, HitSlot(k))
  /\ UNCHANGED <<now, policy, truth>>

\* delete clears the hit, expired or not, and answers whether it was live.
Delete(k) ==
  /\ Hit(k) # 0
  /\ data' = clear_slot(data, HitSlot(k))
  /\ truth' = IF slot_is_expired(data, HitSlot(k)) THEN truth ELSE [truth EXCEPT ![k] = None]
  /\ UNCHANGED <<now, policy>>

Clear ==
  /\ data' = [s \in Slots |-> EmptySlot]
  /\ truth' = [k \in Keys |-> None]
  /\ UNCHANGED <<now, policy>>

\* wrapping_add and saturating_sub pass over expired slots.
NumericHit(k) == First(Positions[k], LiveWith(k))

Update(k, Op(_)) ==
  /\ NumericHit(k) # 0
  /\ LET s == Positions[k][NumericHit(k)]
     IN  /\ data[s].value \in Numbers   \* else NotNumeric
         /\ data' = [data EXCEPT ![s].value = Op(@)]
         /\ truth' = [truth EXCEPT ![k] = Op(data[s].value)]
  /\ UNCHANGED <<now, policy>>

WrappingAdd(k, rhs) == Update(k, LAMBDA v : (v + rhs) % 2^Width)
SaturatingSub(k, rhs) == Update(k, LAMBDA v : IF v >= rhs THEN v - rhs ELSE 0)

Tick ==
  /\ now < MaxTime
  /\ now' = now + 1
  /\ UNCHANGED <<data, policy, truth>>

Next ==
  \/ \E k \in Keys, ttl \in Ttls : \E value \in Inserted[k] : Insert(k, value, ttl)
  \/ \E k \in Keys : Get(k) \/ Delete(k)
  \/ \E k \in Keys, rhs \in Addends : WrappingAdd(k, rhs) \/ SaturatingSub(k, rhs)
  \/ Clear
  \/ Tick

Spec == Init /\ [][Next]_vars

-----------------------------------------------------------------------------
Live(d, s) == ~Free(d, s)

\* docs/cuckoo.md:11 "An item can only live in one of its four candidate slots":
\* the slots that get and delete look in.
InCandidates ==
  \A s \in Slots : ~slot_is_empty(data, s) => \E i \in 1..D : Positions[data[s].key][i] = s

\* Every item sits in a slot that get and delete will look in, and no key has
\* two live items: displacement chains, evictions and expired leftovers never
\* misplace or duplicate an item (displace_from, find_slot_for_insert).
TableSound ==
  /\ InCandidates
  /\ \A s, t \in Slots :
       Live(data, s) /\ Live(data, t) /\ data[s].key = data[t].key => s = t

\* get answers what the last insert or update of the key wrote, or nothing: never
\* a value that an insert, an update or a successful delete has replaced.
NeverStale == \A k \in Keys : Answer(k) \in {None, truth[k]}

\* The live keys of a table, with what they hold.
Contents(d) == {d[s] : s \in {t \in Slots : Live(d, t)}}

\* A call other than clear takes at most one live item out of the table: the one
\* it rewrites or deletes, or the victim whose slot a new item takes, when all
\* the new key's candidates were live. Moving occupants along a chain loses none.
LosesAtMostTheVictim ==
  [][now' = now /\ (\E s \in Slots : data'[s] # EmptySlot) =>
       LET lost == Contents(data) \ Contents(data')
       IN  /\ Cardinality(lost) <= 1
           /\ \A i \in lost :
                \/ truth'[i.key] # truth[i.key]
                \/ \E s \in Slots : data'[s] # data[s] /\ data'[s].key = i.key
                \/ \E s \in Slots :
                     /\ data[s] = i
                     /\ data'[s] \notin Contents(data)
                     /\ \A c \in 1..D : Live(data, Positions[data'[s].key][c])]_vars

\* An item that is in the table and has not expired is found: the examples of
\* insert and get in cuckoo.rs insert a key and unwrap the get that follows.
LiveIsFound == \A s \in Slots : Live(data, s) => Answer(data[s].key) = data[s].value

\* A byte string is read back as a byte string (the tests of TinyItem define and
\* read both kinds of Value).
BytesStayBytes ==
  \A k \in Keys : Inserted[k] \cap Numbers = {} => Answer(k) \notin Numbers
=============================================================================
